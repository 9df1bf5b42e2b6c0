------------------------- MODULE WaveImport_proofs -------------------------
(***************************************************************************)
(* Why the wave-parallel import of WaveImport hashes each frame once and   *)
(* after its children: the main thread's stack and links form a forest, a  *)
(* frame's two events are the main thread's link and its worker's hash,    *)
(* pend counts the children whose two events are not both counted off, and *)
(* a submitted frame is in one place of the pool.                          *)
(***************************************************************************)
EXTENDS WaveImport, FiniteSetTheorems, NaturalsInduction, WellFoundedInduction, TLAPS

Mid   == {"link", "built", "check", "enqueue"}      \* the main thread is inside a node
Quiet == {"add", "fast", "finish", "join", "write", "flush", "end"}
Ats   == {"idle", "hash", "root", "write", "event", "dec", "built", "done", "gone"}
Busy  == Mid \cup {"add", "fast"}                  \* the stream is not through
Late  == {"dec", "built", "done"}                   \* the worker's event has happened
WkType == [Workers -> [at : Ats, f : 0 .. N, p : 0 .. N]]

WTypes ==
  /\ nodes \in Seq([h : Nat, v : Nat \ {0}]) /\ par \in BOOLEAN
  /\ pc \in Mid \cup Quiet /\ k \in 1 .. N + 1 /\ (pc \in Mid => k \in Frames)
  /\ stack \in Seq(Frames) /\ todo \in Seq(Frames)
  /\ hash \in [Frames -> {"none", "right", "wrong"}]
  /\ pend \in [Frames -> Int] /\ events \in [Frames -> Int]
  /\ built \in [Frames -> BOOLEAN] /\ submitted \in [Frames -> BOOLEAN]
  /\ parent \in [Frames -> 0 .. N]
  /\ pending \in Seq(Frames) /\ ready \in Seq(Frames) /\ disp \in 0 .. N + 1
  /\ wk \in WkType

Waiting(q)  == {q[i] : i \in 1 .. Len(q)}
Distinct(q) == \A i, j \in 1 .. Len(q) : q[i] = q[j] => i = j
Rising(q)   == \A i, j \in 1 .. Len(q) : i < j => q[i] < q[j]
Bit(b)      == IF b THEN 1 ELSE 0

(* The frame has been built, or is being built by the main thread. *)
Begun(f)  == f < k \/ (f = k /\ pc \in Mid)
(* The worker's event of the frame, the main thread's, and both counted.   *)
Done(f)   == hash[f] # "none" /\ \A w \in Workers : wk[w].f = f => wk[w].at \in Late
Linked(c) == parent[c] # 0 /\ c \notin Waiting(todo)
Open(c)   == events[c] < 2 \/ \E w \in Workers : wk[w].at = "dec" /\ wk[w].f = c

Queued(f) == f \in Waiting(pending) \/ f \in Waiting(ready) \/ disp = f
Held(f)   == \E w \in Workers : wk[w].f = f

StackInv ==
  /\ Rising(stack)
  /\ \A f \in Waiting(stack) : f <= k /\ parent[f] = 0 /\ (f = k => pc = "enqueue" /\ Leaf(k))
TodoInv ==
  /\ pc \in Mid => par
  /\ pc \in {"link", "built", "check"} => ~Leaf(k)
  /\ pc = "check" => built[k]
  /\ pc = "link" <=> todo # <<>>
  /\ Distinct(todo) /\ \A c \in Waiting(todo) : parent[c] = k

(* The links form a forest whose inner frames have two children.           *)
ParentInv == \A c \in Frames : parent[c] # 0 => c < parent[c] /\ ~Leaf(parent[c]) /\ Begun(parent[c])
Pair(p, a, b) == /\ a # b /\ parent[a] = p /\ parent[b] = p
                 /\ \A c \in Frames : parent[c] = p => c \in {a, b}
PendInv ==
  \A p \in Frames : Begun(p) /\ ~Leaf(p) =>
    \E a, b \in Frames : Pair(p, a, b) /\ pend[p] = Bit(Open(a)) + Bit(Open(b))
BuiltInv == \A f \in Frames : built[f] => Begun(f) /\ ~Leaf(f) /\ (f = k => pc \in {"check", "enqueue"})
SubmittedInv == \A f \in Frames : submitted[f] => Begun(f) /\ (Leaf(f) \/ (pend[f] = 0 /\ built[f]))
EventsInv == \A c \in Frames : events[c] = Bit(Linked(c)) + Bit(Done(c))

(* A frame is in one place of the pool. *)
QueueInv ==
  /\ Distinct(pending) /\ Distinct(ready)
  /\ \A f \in Waiting(pending) : f \notin Waiting(ready) /\ disp # f
  /\ \A f \in Waiting(ready) : disp # f
  /\ \A f \in Frames : Queued(f) => submitted[f] /\ hash[f] = "none" /\ ~Held(f)
HashInv == \A f \in Frames : hash[f] # "none" => submitted[f] /\ hash[f] = "right"
EnqueueInv == pc = "enqueue" => submitted[k] /\ hash[k] = "none" /\ ~Queued(k) /\ ~Held(k)
HeldInv == \A w, x \in Workers : wk[w].f = wk[x].f /\ wk[w].f # 0 => w = x
WorkerInv ==
  \A w \in Workers :
    /\ wk[w].f = 0 <=> wk[w].at \in {"idle", "gone"}
    /\ wk[w].f # 0 => submitted[wk[w].f] /\ (hash[wk[w].f] = "none" <=> wk[w].at = "hash")
    /\ wk[w].at \in {"dec", "built"} =>
         wk[w].p # 0 /\ parent[wk[w].f] = wk[w].p /\ events[wk[w].f] = 2
    /\ wk[w].at = "built" => pend[wk[w].p] = 0

(* Without WaveParallel the frames up to k are hashed as they come.        *)
SeqInv ==
  /\ pending = <<>> /\ ready = <<>> /\ disp = Gone
  /\ \A w \in Workers : wk[w].at = "gone" /\ wk[w].f = 0
  /\ pc \in Quiet
  /\ \A i \in Frames : hash[i] = (IF i < k THEN "right" ELSE "none") /\ parent[i] = 0

TreeInv == ParentInv /\ PendInv /\ BuiltInv /\ SubmittedInv /\ EventsInv
PoolInv == QueueInv /\ HashInv /\ EnqueueInv /\ HeldInv /\ WorkerInv
FrameInv == /\ WTypes /\ StackInv /\ TodoInv
            /\ par => TreeInv /\ PoolInv
            /\ ~par => SeqInv

-----------------------------------------------------------------------------
(* Queues as sets.                                                         *)

LEMMA WaitAppended ==
  ASSUME NEW S, NEW q \in Seq(S), NEW x \in S
  PROVE  /\ Waiting(Append(q, x)) = Waiting(q) \cup {x} /\ Append(q, x) \in Seq(S)
         /\ Distinct(q) /\ x \notin Waiting(q) => Distinct(Append(q, x))
<1>1. Len(Append(q, x)) = Len(q) + 1 /\ Len(q) \in Nat /\ Append(q, x) \in Seq(S)
  OBVIOUS
<1>2. Append(q, x)[Len(q) + 1] = x /\ \A i \in 1 .. Len(q) : Append(q, x)[i] = q[i]
  OBVIOUS
<1>. QED
  BY <1>1, <1>2 DEF Waiting, Distinct

LEMMA WaitTail ==
  ASSUME NEW S, NEW q \in Seq(S), q # <<>>, Distinct(q)
  PROVE  /\ Head(q) \in Waiting(q) /\ Waiting(Tail(q)) = Waiting(q) \ {Head(q)}
         /\ Distinct(Tail(q)) /\ Tail(q) \in Seq(S) /\ Head(q) \in S
<1>1. Len(q) \in Nat \ {0} /\ Len(Tail(q)) = Len(q) - 1 /\ Head(q) = q[1] /\ Tail(q) \in Seq(S)
  OBVIOUS
<1>2. \A i \in 1 .. Len(q) - 1 : Tail(q)[i] = q[i + 1]
  OBVIOUS
<1>3. Head(q) \in Waiting(q) /\ Head(q) \in S
  BY <1>1 DEF Waiting
<1>4. ASSUME NEW i \in 1 .. Len(q) - 1 PROVE Tail(q)[i] \in Waiting(q) \ {Head(q)}
  <2>1. i + 1 \in 1 .. Len(q) /\ i + 1 # 1 /\ Tail(q)[i] = q[i + 1]
    BY <1>1, <1>2
  <2>. QED BY <1>1, <2>1 DEF Waiting, Distinct
<1>5. ASSUME NEW i \in 1 .. Len(q), q[i] # Head(q) PROVE q[i] \in Waiting(Tail(q))
  <2>1. i - 1 \in 1 .. Len(q) - 1 /\ Tail(q)[i - 1] = q[i]
    BY <1>1, <1>2, <1>5
  <2>. QED BY <1>1, <2>1 DEF Waiting
<1>6. Distinct(Tail(q))
  BY <1>1, <1>2 DEF Distinct
<1>. QED
  BY <1>1, <1>3, <1>4, <1>5, <1>6 DEF Waiting

LEMMA WaitIn ==
  ASSUME NEW S, NEW q \in Seq(S)
  PROVE  Waiting(q) \subseteq S /\ (Waiting(q) = {} <=> q = <<>>) /\ Waiting(<<>>) = {}
<1>1. Len(q) \in Nat /\ (Len(q) = 0 <=> q = <<>>) /\ \A i \in 1 .. Len(q) : q[i] \in S
  OBVIOUS
<1>. QED BY <1>1 DEF Waiting

-----------------------------------------------------------------------------
(* The initial state, and what the invariant says of the pool.             *)

LEMMA FrameInit == Init => FrameInv
<1>. SUFFICES ASSUME Init PROVE FrameInv
  OBVIOUS
<1>1. nodes \in Seq([h : Nat, v : Nat \ {0}]) /\ N \in Nat /\ Frames = 1 .. N
  BY WaveConstants DEF Init, N, Frames
<1>2. WTypes
  <2>1. par \in BOOLEAN
    BY WaveConstants DEF Init
  <2>. QED BY <1>1, <2>1 DEF Init, WTypes, Mid, Quiet, WkType, Ats
<1>3. Waiting(stack) = {} /\ Waiting(todo) = {} /\ Waiting(pending) = {} /\ Waiting(ready) = {}
      /\ Len(stack) = 0 /\ Len(todo) = 0 /\ Len(pending) = 0 /\ Len(ready) = 0
  BY DEF Init, Waiting
<1>4. StackInv /\ TodoInv
  BY <1>3 DEF Init, StackInv, TodoInv, Mid, Distinct, Rising
<1>5. ~par => SeqInv
  BY <1>1 DEF Init, SeqInv, Quiet, Gone
<1>6. ASSUME par PROVE TreeInv /\ PoolInv
  <2>1. \A f \in Frames : ~Begun(f)
    BY <1>1 DEF Init, Begun, Mid
  <2>2. ParentInv /\ PendInv /\ BuiltInv /\ SubmittedInv
    BY <2>1 DEF Init, ParentInv, PendInv, BuiltInv, SubmittedInv
  <2>3. \A c \in Frames : ~Linked(c) /\ ~Done(c)
    BY DEF Init, Linked, Done
  <2>4. EventsInv
    BY <2>3 DEF Init, EventsInv, Bit
  <2>5. \A f \in Frames : ~Queued(f) /\ ~Held(f)
    BY <1>1, <1>3, <1>6 DEF Init, Queued, Held
  <2>6. QueueInv /\ HashInv /\ EnqueueInv /\ HeldInv /\ WorkerInv
    BY <1>3, <1>6, <2>5 DEF Init, QueueInv, HashInv, EnqueueInv, HeldInv, WorkerInv, Distinct
  <2>. QED BY <2>2, <2>4, <2>6 DEF TreeInv, PoolInv
<1>. QED
  BY <1>2, <1>4, <1>5, <1>6 DEF FrameInv

(* A submitted frame's children have been hashed. *)
LEMMA ChildrenDone ==
  ASSUME FrameInv, par, NEW f \in Frames, submitted[f], NEW c \in Frames, parent[c] = f
  PROVE  hash[c] = "right" /\ Done(c) /\ ~Leaf(f) /\ pend[f] = 0
<1>1. /\ nodes \in Seq([h : Nat, v : Nat \ {0}]) /\ events \in [Frames -> Int] /\ N \in Nat
      /\ hash \in [Frames -> {"none", "right", "wrong"}]
  BY DEF FrameInv, WTypes, N
<1>0. f # 0
  BY <1>1 DEF Frames
<1>2. ~Leaf(f) /\ Begun(f)
  BY <1>0 DEF FrameInv, TreeInv, ParentInv
<1>3. pend[f] = 0
  BY <1>2 DEF FrameInv, TreeInv, SubmittedInv
<1>4. PICK a, b \in Frames : Pair(f, a, b) /\ pend[f] = Bit(Open(a)) + Bit(Open(b))
  BY <1>2 DEF FrameInv, TreeInv, PendInv
<1>5. ~Open(a) /\ ~Open(b)
  BY <1>3, <1>4 DEF Bit
<1>6. ~Open(c)
  BY <1>4, <1>5 DEF Pair
<1>7. events[c] >= 2
  BY <1>1, <1>6 DEF Open
<1>8. Done(c)
  BY <1>7 DEF FrameInv, TreeInv, EventsInv, Bit
<1>. QED
  BY <1>2, <1>3, <1>8 DEF FrameInv, PoolInv, HashInv, Done

LEMMA CountAt ==
  ASSUME NEW S, NEW q \in Seq(S), NEW x, Distinct(q)
  PROVE  Cardinality({j \in DOMAIN q : q[j] = x}) = (IF x \in Waiting(q) THEN 1 ELSE 0)
<1>1. DOMAIN q = 1 .. Len(q)
  OBVIOUS
<1>2. CASE x \in Waiting(q)
  <2>1. PICK i \in 1 .. Len(q) : q[i] = x
    BY <1>2 DEF Waiting
  <2>2. {j \in DOMAIN q : q[j] = x} = {i}
    BY <1>1, <2>1 DEF Distinct
  <2>. QED BY <1>2, <2>2, FS_Singleton
<1>3. CASE x \notin Waiting(q)
  <2>1. {j \in DOMAIN q : q[j] = x} = {}
    BY <1>1, <1>3 DEF Waiting
  <2>. QED BY <1>3, <2>1, FS_EmptySet
<1>. QED BY <1>2, <1>3

LEMMA CountHeld ==
  ASSUME HeldInv, NEW x, x # 0
  PROVE  Cardinality({w \in Workers : wk[w].f = x}) = (IF Held(x) THEN 1 ELSE 0)
<1>1. CASE Held(x)
  <2>1. PICK u \in Workers : wk[u].f = x
    BY <1>1 DEF Held
  <2>2. {w \in Workers : wk[w].f = x} = {u}
    BY <2>1 DEF HeldInv
  <2>. QED BY <1>1, <2>2, FS_Singleton
<1>2. CASE ~Held(x)
  <2>1. {w \in Workers : wk[w].f = x} = {}
    BY <1>2 DEF Held
  <2>. QED BY <1>2, <2>1, FS_EmptySet
<1>. QED BY <1>1, <1>2

LEMMA FrameGives == FrameInv => HashedOnceChildrenFirst
<1>. SUFFICES ASSUME FrameInv, NEW i \in Frames
     PROVE  /\ hash[i] # "wrong"
            /\ par => Copies(i) + (IF hash[i] # "none" /\ \A w \in Workers : wk[w].f # i THEN 1 ELSE 0) <= 1
            /\ par /\ Copies(i) > 0 => \A c \in Children(i) : hash[c] = "right"
  BY DEF HashedOnceChildrenFirst
<1>1. N \in Nat /\ i # 0 /\ pending \in Seq(Frames) /\ ready \in Seq(Frames)
  BY DEF FrameInv, WTypes, N, Frames
<1>2. hash[i] # "wrong"
  BY DEF FrameInv, SeqInv, PoolInv, HashInv
<1>3. ASSUME par
      PROVE  /\ Copies(i) + (IF hash[i] # "none" /\ \A w \in Workers : wk[w].f # i THEN 1 ELSE 0) <= 1
             /\ Copies(i) > 0 => submitted[i]
  <2>1. /\ Cardinality({j \in DOMAIN pending : pending[j] = i}) = (IF i \in Waiting(pending) THEN 1 ELSE 0)
        /\ Cardinality({j \in DOMAIN ready : ready[j] = i}) = (IF i \in Waiting(ready) THEN 1 ELSE 0)
        /\ Cardinality({w \in Workers : wk[w].f = i}) = (IF Held(i) THEN 1 ELSE 0)
    BY <1>1, <1>3, CountAt, CountHeld DEF FrameInv, PoolInv, QueueInv
  <2>2. /\ i \in Waiting(pending) => i \notin Waiting(ready) /\ disp # i
        /\ i \in Waiting(ready) => disp # i
        /\ i \in Waiting(pending) \/ i \in Waiting(ready) \/ disp = i =>
             submitted[i] /\ hash[i] = "none" /\ ~Held(i)
    BY <1>3 DEF FrameInv, PoolInv, QueueInv, Queued
  <2>3. Held(i) => submitted[i]
    BY <1>1, <1>3 DEF FrameInv, PoolInv, WorkerInv, Held
  <2>4. Held(i) <=> ~\A w \in Workers : wk[w].f # i
    BY DEF Held
  <2>. QED BY <2>1, <2>2, <2>3, <2>4 DEF Copies
<1>4. ASSUME par, Copies(i) > 0, NEW c \in Children(i) PROVE hash[c] = "right"
  BY <1>3, <1>4, ChildrenDone DEF Children
<1>. QED BY <1>2, <1>3, <1>4

-----------------------------------------------------------------------------
(* Steps.  What the node stream says does not change.                      *)

LEMMA Basics ==
  ASSUME FrameInv
  PROVE  N \in Nat /\ Frames = 1 .. N /\ Frames \in SUBSET Int /\ 0 \notin Frames /\ k \in Int
BY DEF FrameInv, WTypes, N, Frames

LEMMA SameNodes ==
  ASSUME nodes' = nodes
  PROVE  N' = N /\ Frames' = Frames /\ Gone' = Gone /\ WkType' = WkType /\ \A i : Leaf(i)' = Leaf(i)
BY DEF N, Frames, Gone, WkType, Leaf

Nearly(a, b) == a = b \/ {a, b} \subseteq {"root", "write", "event"} \/ (a = "idle" /\ b = "gone")

(* Steps that move no frame: the main thread outside a node, a worker      *)
(* between its hash and its event, the dispatcher's exit, the writer.      *)
LEMMA CalmStep ==
  ASSUME FrameInv,
         UNCHANGED <<nodes, par, k, stack, todo, hash, pend, events, built, submitted, parent, pending, ready>>,
         pc' = pc \/ (pc \in Quiet /\ pc' \in Quiet),
         disp' = disp \/ (disp = 0 /\ disp' = Gone),
         wk' \in WkType,
         \A x \in Workers : wk'[x].f = wk[x].f /\ wk'[x].p = wk[x].p /\ Nearly(wk[x].at, wk'[x].at)
  PROVE  FrameInv'
<1>0. N \in Nat /\ N' = N /\ Frames' = Frames /\ Gone' = Gone /\ WkType' = WkType /\ \A i : Leaf(i)' = Leaf(i)
  BY SameNodes DEF FrameInv, WTypes, N
<1>1. WTypes'
  <2>1. disp' \in 0 .. N + 1
    BY <1>0 DEF FrameInv, WTypes, Gone
  <2>. QED BY <1>0, <2>1 DEF FrameInv, WTypes, Mid, Quiet
<1>2. (pc' = "enqueue" <=> pc = "enqueue") /\ (pc' \in Mid <=> pc \in Mid) /\ (pc' = "link" <=> pc = "link")
      /\ (pc' \in {"link", "built", "check"} <=> pc \in {"link", "built", "check"})
      /\ (pc' \in {"check", "enqueue"} <=> pc \in {"check", "enqueue"})
  BY DEF Mid, Quiet
<1>3. StackInv' /\ TodoInv'
  <2>1. pc' = "check" <=> pc = "check"
    BY DEF Mid, Quiet
  <2>. QED BY <1>0, <1>2, <2>1 DEF FrameInv, StackInv, TodoInv, Waiting, Distinct, Rising
<1>4. \A f \in Frames : /\ Begun(f)' <=> Begun(f)
                        /\ Done(f)' <=> Done(f)
                        /\ Linked(f)' <=> Linked(f)
                        /\ Open(f)' <=> Open(f)
                        /\ Held(f)' <=> Held(f)
                        /\ Queued(f)' <=> Queued(f)
  <2>1. \A x \in Workers : /\ wk'[x].at \in Late <=> wk[x].at \in Late
                           /\ wk'[x].at = "dec" <=> wk[x].at = "dec"
    BY DEF Nearly, Late
  <2>2. \A f \in Frames : (disp' = f <=> disp = f)
    BY <1>0 DEF Gone, Frames
  <2>. QED BY <1>2, <2>1, <2>2 DEF Begun, Done, Linked, Open, Held, Queued, Waiting
<1>5. ASSUME par PROVE TreeInv'
  <2>1. ParentInv'
    <3>. SUFFICES ASSUME NEW c \in Frames, parent[c] # 0
                  PROVE c < parent[c] /\ ~Leaf(parent[c]) /\ Begun(parent[c])'
      BY <1>0 DEF ParentInv
    <3>1. parent[c] \in Frames
      BY <1>0 DEF FrameInv, WTypes, Frames
    <3>. QED BY <1>4, <1>5, <3>1 DEF FrameInv, TreeInv, ParentInv
  <2>2. PendInv'
    <3>. SUFFICES ASSUME NEW p \in Frames, Begun(p)', ~Leaf(p)
                  PROVE \E a, b \in Frames : Pair(p, a, b)' /\ pend[p] = Bit(Open(a)') + Bit(Open(b)')
      BY <1>0 DEF PendInv, Bit
    <3>1. PICK a, b \in Frames : Pair(p, a, b) /\ pend[p] = Bit(Open(a)) + Bit(Open(b))
      BY <1>4, <1>5 DEF FrameInv, TreeInv, PendInv
    <3>2. Pair(p, a, b)'
      BY <1>0, <3>1 DEF Pair
    <3>. QED BY <1>4, <3>1, <3>2 DEF Bit
  <2>3. BuiltInv' /\ SubmittedInv'
    BY <1>0, <1>2, <1>4, <1>5 DEF FrameInv, TreeInv, BuiltInv, SubmittedInv
  <2>4. EventsInv'
    BY <1>0, <1>4, <1>5 DEF FrameInv, TreeInv, EventsInv, Bit
  <2>. QED BY <2>1, <2>2, <2>3, <2>4 DEF TreeInv
<1>6. ASSUME par PROVE PoolInv'
  <2>1. QueueInv'
    <3>1. \A f \in Frames : disp' = f <=> disp = f
      BY <1>0 DEF Gone, Frames
    <3>2. Waiting(pending) \subseteq Frames /\ Waiting(ready) \subseteq Frames
      BY WaitIn DEF FrameInv, WTypes
    <3>3. Waiting(pending)' = Waiting(pending) /\ Waiting(ready)' = Waiting(ready)
          /\ Distinct(pending)' = Distinct(pending) /\ Distinct(ready)' = Distinct(ready)
      BY DEF Waiting, Distinct
    <3>. QED BY <1>0, <1>4, <1>6, <3>1, <3>2, <3>3 DEF FrameInv, PoolInv, QueueInv
  <2>2. HashInv' /\ HeldInv'
    BY <1>0, <1>6 DEF FrameInv, PoolInv, HashInv, HeldInv
  <2>3. EnqueueInv'
    BY <1>0, <1>2, <1>4, <1>6 DEF FrameInv, WTypes, Mid, PoolInv, EnqueueInv
  <2>4. WorkerInv'
    <3>1. \A x \in Workers : /\ wk'[x].at \in {"idle", "gone"} <=> wk[x].at \in {"idle", "gone"}
                             /\ wk'[x].at = "hash" <=> wk[x].at = "hash"
                             /\ wk'[x].at = "built" <=> wk[x].at = "built"
                             /\ wk'[x].at = "dec" <=> wk[x].at = "dec"
      BY DEF Nearly
    <3>. QED BY <1>6, <3>1 DEF FrameInv, PoolInv, WorkerInv
  <2>. QED BY <2>1, <2>2, <2>3, <2>4 DEF PoolInv
<1>7. ASSUME ~par PROVE SeqInv'
  <2>1. ~par => SeqInv
    BY DEF FrameInv
  <2>. QED BY <1>0, <1>7, <2>1 DEF SeqInv, Nearly, Quiet, Gone
<1>. QED BY <1>1, <1>3, <1>5, <1>6, <1>7 DEF FrameInv

-----------------------------------------------------------------------------
(* The stack.                                                              *)

LEMMA Pushed ==
  ASSUME NEW S \in SUBSET Int, NEW q \in Seq(S), NEW x \in S, Rising(q), \A y \in Waiting(q) : y < x
  PROVE  Rising(Append(q, x))
<1>1. Len(Append(q, x)) = Len(q) + 1 /\ Len(q) \in Nat
  OBVIOUS
<1>2. Append(q, x)[Len(q) + 1] = x /\ \A i \in 1 .. Len(q) : Append(q, x)[i] = q[i]
  OBVIOUS
<1>3. \A i \in 1 .. Len(q) : q[i] < x
  BY DEF Waiting
<1>. QED BY <1>1, <1>2, <1>3 DEF Rising

LEMMA PoppedTwo ==
  ASSUME NEW S \in SUBSET Int, NEW q \in Seq(S), Len(q) >= 2, Rising(q)
  PROVE  LET m == Len(q)
             r == SubSeq(q, 1, m - 2)
         IN  /\ m \in Nat /\ q[m] \in S /\ q[m - 1] \in S /\ q[m - 1] < q[m] /\ q[m - 1] \in Waiting(q) /\ q[m] \in Waiting(q)
             /\ r \in Seq(S) /\ Rising(r) /\ Len(r) = m - 2 /\ \A i \in 1 .. m - 2 : r[i] = q[i]
             /\ Waiting(q) = Waiting(r) \cup {q[m - 1], q[m]} /\ q[m - 1] \notin Waiting(r) /\ q[m] \notin Waiting(r)
<1>. DEFINE m == Len(q)
            r == SubSeq(q, 1, m - 2)
<1>1. m \in Nat /\ m - 1 \in 1 .. m /\ m \in 1 .. m /\ m - 2 \in Nat
  OBVIOUS
<1>2. r \in Seq(S) /\ Len(r) = m - 2 /\ \A i \in 1 .. m - 2 : r[i] = q[i]
  <2>1. r = [i \in 1 .. m - 2 |-> q[i]]
    BY <1>1
  <2>2. \A i \in 1 .. m - 2 : q[i] \in S
    BY <1>1
  <2>3. r \in [1 .. m - 2 -> S]
    BY <2>1, <2>2
  <2>4. \A f \in Seq(S) : \A n \in Nat : DOMAIN f = 1 .. n => Len(f) = n
    OBVIOUS
  <2>5. r \in Seq(S) /\ DOMAIN r = 1 .. m - 2
    BY <1>1, <2>3
  <2>. HIDE DEF r, m
  <2>6. Len(r) = m - 2
    BY <1>1, <2>4, <2>5
  <2>. QED BY <2>1, <2>5, <2>6
<1>3. q[m] \in S /\ q[m - 1] \in S /\ \A i \in 1 .. m : q[i] \in S
  BY <1>1
<1>4. q[m - 1] < q[m] /\ q[m - 1] \in Waiting(q) /\ q[m] \in Waiting(q)
  BY <1>1 DEF Rising, Waiting
<1>. HIDE DEF r
<1>5. Rising(r)
  BY <1>1, <1>2 DEF Rising
<1>6. Waiting(q) = Waiting(r) \cup {q[m - 1], q[m]}
  <2>1. ASSUME NEW i \in 1 .. m PROVE q[i] \in Waiting(r) \cup {q[m - 1], q[m]}
    <3>1. i \in 1 .. m - 2 \/ i = m - 1 \/ i = m
      BY <1>1
    <3>. QED BY <1>2, <3>1 DEF Waiting
  <2>2. ASSUME NEW i \in 1 .. m - 2 PROVE r[i] \in Waiting(q)
    <3>1. i \in 1 .. m
      BY <1>1
    <3>. QED BY <1>2, <3>1 DEF Waiting
  <2>. QED BY <1>2, <1>4, <2>1, <2>2 DEF Waiting
<1>7. \A i \in 1 .. m - 2 : r[i] < q[m - 1] /\ r[i] < q[m]
  <2>. SUFFICES ASSUME NEW i \in 1 .. m - 2 PROVE r[i] < q[m - 1] /\ r[i] < q[m]
    OBVIOUS
  <2>1. i \in 1 .. m /\ i < m - 1 /\ i < m
    BY <1>1
  <2>. QED BY <1>1, <1>2, <2>1 DEF Rising
<1>8. q[m - 1] \notin Waiting(r) /\ q[m] \notin Waiting(r)
  <2>1. \A i \in 1 .. m - 2 : r[i] # q[m - 1] /\ r[i] # q[m]
    <3>1. \A i \in 1 .. m - 2 : r[i] \in Int
      <4>1. \A i \in 1 .. m - 2 : i \in 1 .. m
        BY <1>1
      <4>. QED BY <1>2, <1>3, <4>1
    <3>. QED BY <1>3, <1>7, <3>1
  <2>. QED BY <1>2, <2>1 DEF Waiting
<1>. QED BY <1>1, <1>2, <1>3, <1>4, <1>5, <1>6, <1>8 DEF r

(* What the main thread pops for an inner node. *)
LEMMA PopsPair ==
  ASSUME FrameInv, Adding, ClosesPair
  PROVE  /\ Left \in Frames /\ Right \in Frames /\ Left < Right /\ Right < k /\ parent[Left] = 0 /\ parent[Right] = 0
         /\ Popped \in Seq(Frames) /\ Rising(Popped) /\ Len(Popped) = Len(stack) - 2
         /\ Waiting(stack) = Waiting(Popped) \cup {Left, Right}
         /\ Left \notin Waiting(Popped) /\ Right \notin Waiting(Popped)
         /\ \A f \in Waiting(Popped) : f < k /\ parent[f] = 0
<1>1. Frames \in SUBSET Int /\ stack \in Seq(Frames) /\ Len(stack) >= 2 /\ Rising(stack) /\ k \in Int
  BY DEF FrameInv, WTypes, StackInv, ClosesPair, Frames, N, Adding
<1>2. \A f \in Waiting(stack) : f < k /\ parent[f] = 0
  <2>1. Waiting(stack) \subseteq Frames
    BY <1>1, WaitIn
  <2>2. \A f \in Waiting(stack) : f <= k /\ parent[f] = 0 /\ f # k
    BY DEF FrameInv, StackInv, Adding
  <2>3. \A f \in Waiting(stack) : f \in Int
    BY <1>1, <2>1
  <2>. QED BY <1>1, <2>2, <2>3
<1>. QED BY <1>1, <1>2, PoppedTwo DEF Left, Right, Popped

-----------------------------------------------------------------------------
(* The sequential import.                                                  *)

LEMMA AddSeqHash ==
  ASSUME FrameInv, AddSeq
  PROVE  ~par /\ hash' = [hash EXCEPT ![k] = "right"]
<1>1. ~par /\ SeqInv /\ Adding
  BY DEF AddSeq, FrameInv
<1>2. Leaf(k) \/ (hash[Left] = "right" /\ hash[Right] = "right")
  <2>1. CASE ClosesPair
    <3>1. /\ Left \in Frames /\ Right \in Frames /\ Left < Right /\ Right < k
      BY <1>1, <2>1, PopsPair
    <3>2. Left < k
      BY <3>1 DEF FrameInv, WTypes, Frames, N
    <3>. QED BY <1>1, <3>1, <3>2 DEF SeqInv
  <2>. QED BY <2>1 DEF AddSeq
<1>. QED BY <1>1, <1>2 DEF AddSeq

LEMMA AddSeqPc ==
  ASSUME AddSeq
  PROVE  /\ (pc' = "finish" /\ failed' = TRUE) \/ (pc' \in {"add", "fast"} /\ failed' = failed)
         /\ pc' = "finish" => bwErr
         /\ pc' # "finish" => (pc' = "fast" <=> Leaf(k) /\ ~fast)
<1>1. \/ pc' = "finish" /\ failed' = TRUE /\ bwErr
      \/ pc' = (IF Leaf(k) /\ ~fast THEN "fast" ELSE "add") /\ failed' = failed
  BY Zenon DEF AddSeq, Fails, SetErr
<1>. QED BY <1>1

LEMMA AddSeqStep ==
  ASSUME FrameInv, AddSeq
  PROVE  FrameInv'
<1>0. /\ N \in Nat /\ N' = N /\ Frames' = Frames /\ Gone' = Gone /\ WkType' = WkType /\ \A i : Leaf(i)' = Leaf(i)
      /\ UNCHANGED <<nodes, par, todo, pend, events, built, submitted, parent, pending, ready, disp, wk>>
  <2>1. UNCHANGED <<nodes, par, todo, pend, events, built, submitted, parent, pending, ready, disp, wk>>
    BY DEF AddSeq, storeVars, queueVars
  <2>. QED BY <2>1, SameNodes, Basics
<1>1. ~par /\ SeqInv /\ Adding /\ pc' \in {"add", "fast", "finish"} /\ k' = k + 1 /\ k \in Frames
  BY AddSeqPc DEF AddSeq, FrameInv, Adding
<1>2. hash' = [hash EXCEPT ![k] = "right"]
  BY AddSeqHash
<1>3. stack' \in Seq(Frames) /\ Rising(stack') /\ \A f \in Waiting(stack') : f <= k /\ parent[f] = 0
  <2>0. Frames \in SUBSET Int /\ stack \in Seq(Frames) /\ Rising(stack) /\ k \in Int /\ parent[k] = 0
    BY <1>1 DEF FrameInv, WTypes, StackInv, Frames, N, SeqInv
  <2>1. CASE Leaf(k)
    <3>1. stack' = Append(stack, k)
      BY <2>1 DEF AddSeq
    <3>2. \A f \in Waiting(stack) : f < k /\ parent[f] = 0
      <4>1. \A f \in Waiting(stack) : f <= k /\ parent[f] = 0 /\ f # k
        BY <1>1 DEF FrameInv, StackInv, Adding
      <4>2. Waiting(stack) \subseteq Frames
        BY <2>0, WaitIn
      <4>3. \A f \in Waiting(stack) : f \in Int
        BY <2>0, <4>2
      <4>. QED BY <2>0, <4>1, <4>3
    <3>3. Waiting(stack') = Waiting(stack) \cup {k} /\ stack' \in Seq(Frames)
      BY <1>1, <2>0, <3>1, WaitAppended
    <3>4. Rising(stack')
      BY <1>1, <2>0, <3>1, <3>2, Pushed
    <3>5. k <= k /\ \A f \in Waiting(stack) : f <= k
      BY <2>0, <3>2 DEF FrameInv, StackInv
    <3>. QED BY <2>0, <3>2, <3>3, <3>4, <3>5
  <2>2. CASE ~Leaf(k)
    <3>1. stack' = Append(Popped, k) /\ ClosesPair
      BY <2>2 DEF AddSeq
    <3>2. Popped \in Seq(Frames) /\ Rising(Popped) /\ \A f \in Waiting(Popped) : f < k /\ parent[f] = 0
      BY <1>1, <3>1, PopsPair
    <3>3. Waiting(stack') = Waiting(Popped) \cup {k} /\ stack' \in Seq(Frames)
      BY <1>1, <3>1, <3>2, WaitAppended
    <3>4. Rising(stack')
      BY <1>1, <2>0, <3>1, <3>2, Pushed
    <3>5. Waiting(Popped) \subseteq Frames
      BY <3>2, WaitIn
    <3>6. k <= k /\ \A f \in Waiting(Popped) : f <= k
      <4>1. \A f \in Waiting(Popped) : f \in Int
        BY <2>0, <3>5
      <4>. QED BY <2>0, <3>2, <4>1
    <3>. QED BY <2>0, <3>2, <3>3, <3>4, <3>6
  <2>. QED BY <2>1, <2>2
<1>4. WTypes'
  <2>1. k' \in 1 .. N + 1
    BY <1>0, <1>1 DEF Frames
  <2>2. hash' \in [Frames -> {"none", "right", "wrong"}]
    BY <1>2 DEF FrameInv, WTypes
  <2>. QED BY <1>0, <1>1, <1>3, <2>1, <2>2 DEF FrameInv, WTypes, Mid, Quiet
<1>5. StackInv'
  <2>1. Waiting(stack') \subseteq Frames
    BY <1>3, WaitIn
  <2>2. \A f \in Waiting(stack') : f <= k' /\ f # k'
    BY <1>0, <1>1, <1>3, <2>1 DEF Frames
  <2>. QED BY <1>0, <1>3, <2>2 DEF StackInv, Waiting, Rising
<1>6. TodoInv'
  BY <1>0, <1>1 DEF FrameInv, TodoInv, Mid, Adding, Waiting, Distinct
<1>7. SeqInv'
  <2>1. \A i \in Frames : i < k' <=> i < k \/ i = k
    BY <1>0, <1>1 DEF Frames
  <2>2. \A i \in Frames : hash'[i] = (IF i < k' THEN "right" ELSE "none")
    BY <1>1, <1>2, <2>1 DEF FrameInv, WTypes, SeqInv
  <2>. QED BY <1>0, <1>1, <2>2 DEF SeqInv, Quiet
<1>. QED BY <1>0, <1>1, <1>4, <1>5, <1>6, <1>7 DEF FrameInv

-----------------------------------------------------------------------------
(* The main thread of the wave-parallel import.                            *)

(* Nothing has been done with a frame the main thread has not come to.     *)
LEMMA Unborn ==
  ASSUME FrameInv, par, NEW f \in Frames, ~Begun(f)
  PROVE  /\ ~submitted[f] /\ ~built[f] /\ hash[f] = "none" /\ ~Queued(f) /\ ~Held(f) /\ parent[f] = 0
         /\ \A c \in Frames : parent[c] # f
<1>0. N \in Nat /\ Frames = 1 .. N /\ k \in Int /\ f # 0
  BY Basics
<1>1. ~submitted[f] /\ ~built[f]
  BY DEF FrameInv, TreeInv, SubmittedInv, BuiltInv
<1>2. hash[f] = "none" /\ ~Queued(f)
  BY <1>1 DEF FrameInv, PoolInv, HashInv, QueueInv
<1>3. ~Held(f)
  BY <1>0, <1>1 DEF FrameInv, PoolInv, WorkerInv, Held
<1>4. \A c \in Frames : parent[c] # f
  BY <1>0 DEF FrameInv, TreeInv, ParentInv
<1>5. parent[f] = 0
  <2>. SUFFICES ASSUME parent[f] # 0 PROVE FALSE
    OBVIOUS
  <2>1. f < parent[f] /\ Begun(parent[f]) /\ parent[f] \in Int
    BY <1>0 DEF FrameInv, TreeInv, ParentInv, WTypes
  <2>. QED BY <1>0, <2>1 DEF Begun
<1>. QED BY <1>1, <1>2, <1>3, <1>4, <1>5

LEMMA Holding ==
  ASSUME FrameInv, par, NEW w \in Workers
  PROVE  /\ wk[w] \in [at : Ats, f : 0 .. N, p : 0 .. N]
         /\ wk[w].at \notin {"idle", "gone"} =>
              wk[w].f \in Frames /\ wk[w].f # 0 /\ Held(wk[w].f) /\ submitted[wk[w].f]
         /\ wk[w].at \in {"dec", "built"} =>
              wk[w].p \in Frames /\ parent[wk[w].f] = wk[w].p /\ events[wk[w].f] = 2 /\ Begun(wk[w].p) /\ ~Leaf(wk[w].p)
<1>1. wk[w] \in [at : Ats, f : 0 .. N, p : 0 .. N] /\ N \in Nat /\ Frames = 1 .. N
  BY Basics DEF FrameInv, WTypes, WkType
<1>2. wk[w].f \in 0 .. N /\ wk[w].p \in 0 .. N
  BY <1>1
<1>3. wk[w].at \notin {"idle", "gone"} => wk[w].f # 0 /\ submitted[wk[w].f]
  BY DEF FrameInv, PoolInv, WorkerInv
<1>4. wk[w].at \in {"dec", "built"} => wk[w].p # 0 /\ parent[wk[w].f] = wk[w].p /\ events[wk[w].f] = 2
  BY DEF FrameInv, PoolInv, WorkerInv
<1>5. wk[w].at \notin {"idle", "gone"} => wk[w].f \in Frames
  BY <1>1, <1>2, <1>3
<1>6. wk[w].at \in {"dec", "built"} => wk[w].p \in Frames
  BY <1>1, <1>2, <1>4
<1>7. ASSUME wk[w].at \in {"dec", "built"} PROVE Begun(wk[w].p) /\ ~Leaf(wk[w].p)
  BY <1>4, <1>5, <1>7 DEF FrameInv, TreeInv, ParentInv
<1>. QED BY <1>1, <1>3, <1>4, <1>5, <1>6, <1>7 DEF Held

LEMMA PendSame ==
  ASSUME FrameInv, par, nodes' = nodes, NEW p \in Frames, Begun(p), ~Leaf(p), pend'[p] = pend[p],
         \A c \in Frames : parent'[c] = p <=> parent[c] = p,
         \A c \in Frames : parent[c] = p => (Open(c)' <=> Open(c))
  PROVE  \E a, b \in Frames : Pair(p, a, b)' /\ pend'[p] = Bit(Open(a)') + Bit(Open(b)')
<1>1. PICK a, b \in Frames : Pair(p, a, b) /\ pend[p] = Bit(Open(a)) + Bit(Open(b))
  BY DEF FrameInv, TreeInv, PendInv
<1>2. Pair(p, a, b)'
  BY <1>1, SameNodes DEF Pair
<1>3. (Open(a)' <=> Open(a)) /\ (Open(b)' <=> Open(b))
  BY <1>1 DEF Pair
<1>. QED BY <1>1, <1>2, <1>3 DEF Bit

LEMMA AddLeafParStep ==
  ASSUME FrameInv, AddLeafPar
  PROVE  FrameInv'
<1>a. /\ par /\ pc = "add" /\ k \in Frames /\ Leaf(k) /\ pc' = "enqueue"
      /\ stack' = Append(stack, k) /\ submitted' = [submitted EXCEPT ![k] = TRUE]
      /\ UNCHANGED <<nodes, par, k, todo, hash, pend, events, built, parent, pending, ready, disp, wk>>
  BY DEF AddLeafPar, Adding, storeVars
<1>0. /\ N \in Nat /\ N' = N /\ Frames' = Frames /\ Gone' = Gone /\ WkType' = WkType
      /\ (\A i : Leaf(i)' = Leaf(i)) /\ k \in Int /\ Frames \in SUBSET Int /\ 0 \notin Frames
  BY <1>a, SameNodes, Basics
<1>1. ~Begun(k)
  BY <1>0, <1>a DEF Begun, Mid
<1>2. /\ ~submitted[k] /\ ~built[k] /\ hash[k] = "none" /\ ~Queued(k) /\ ~Held(k) /\ parent[k] = 0
      /\ \A c \in Frames : parent[c] # k
  BY <1>1, <1>a, Unborn
<1>3. \A f : /\ Begun(f)' <=> Begun(f) \/ f = k
             /\ Done(f)' <=> Done(f)
             /\ Linked(f)' <=> Linked(f)
             /\ Open(f)' <=> Open(f)
             /\ Held(f)' <=> Held(f)
             /\ Queued(f)' <=> Queued(f)
  BY <1>0, <1>a DEF Begun, Done, Linked, Open, Held, Queued, Waiting, Mid
<1>4. stack \in Seq(Frames) /\ Rising(stack) /\ \A f \in Waiting(stack) : f < k /\ parent[f] = 0 /\ f <= k
  <2>1. stack \in Seq(Frames) /\ Rising(stack) /\ \A f \in Waiting(stack) : f <= k /\ parent[f] = 0 /\ f # k
    BY <1>a DEF FrameInv, StackInv, WTypes
  <2>2. \A f \in Waiting(stack) : f \in Int
    BY <1>0, <2>1, WaitIn
  <2>. QED BY <1>0, <2>1, <2>2
<1>5. stack' \in Seq(Frames) /\ Waiting(stack') = Waiting(stack) \cup {k} /\ Rising(stack')
  BY <1>0, <1>a, <1>4, WaitAppended, Pushed
<1>6. WTypes'
  <2>1. submitted' \in [Frames -> BOOLEAN]
    BY <1>a DEF FrameInv, WTypes
  <2>. QED BY <1>0, <1>a, <1>5, <2>1 DEF FrameInv, WTypes, Mid, Quiet
<1>7. StackInv'
  <2>1. Waiting(stack)' = Waiting(stack') /\ Rising(stack)' = Rising(stack')
    BY DEF Waiting, Rising
  <2>2. k <= k
    BY <1>0
  <2>. QED BY <1>0, <1>a, <1>2, <1>4, <1>5, <2>1, <2>2 DEF StackInv
<1>8. TodoInv'
  BY <1>0, <1>a DEF FrameInv, TodoInv, Mid, Waiting, Distinct
<1>9. TreeInv'
  <2>1. ParentInv'
    BY <1>0, <1>a, <1>3 DEF FrameInv, TreeInv, ParentInv
  <2>2. PendInv'
    <3>. SUFFICES ASSUME NEW p \in Frames, Begun(p)', ~Leaf(p)
                  PROVE \E a, b \in Frames : Pair(p, a, b)' /\ pend'[p] = Bit(Open(a)') + Bit(Open(b)')
      BY <1>0 DEF PendInv, Bit
    <3>1. Begun(p)
      BY <1>3, <1>a
    <3>. QED BY <1>a, <1>3, <3>1, PendSame
  <2>3. BuiltInv'
    BY <1>0, <1>a, <1>2, <1>3 DEF FrameInv, TreeInv, BuiltInv
  <2>4. SubmittedInv'
    BY <1>0, <1>a, <1>3 DEF FrameInv, TreeInv, SubmittedInv, WTypes
  <2>5. EventsInv'
    BY <1>0, <1>a, <1>3 DEF FrameInv, TreeInv, EventsInv, Bit
  <2>. QED BY <2>1, <2>2, <2>3, <2>4, <2>5 DEF TreeInv
<1>10. PoolInv'
  <2>0. submitted'[k] /\ \A f \in Frames : submitted[f] => submitted'[f]
    BY <1>a DEF FrameInv, WTypes
  <2>1. QueueInv'
    <3>1. Waiting(pending)' = Waiting(pending) /\ Waiting(ready)' = Waiting(ready)
          /\ Distinct(pending)' = Distinct(pending) /\ Distinct(ready)' = Distinct(ready)
      BY <1>a DEF Waiting, Distinct
    <3>. QED BY <1>0, <1>a, <1>3, <2>0, <3>1 DEF FrameInv, PoolInv, QueueInv
  <2>2. HashInv' /\ HeldInv'
    BY <1>0, <1>a, <2>0 DEF FrameInv, PoolInv, HashInv, HeldInv
  <2>3. EnqueueInv'
    BY <1>0, <1>a, <1>2, <1>3, <2>0 DEF EnqueueInv
  <2>4. WorkerInv'
    <3>1. \A w \in Workers : wk[w].f # 0 => wk[w].f \in Frames
      BY <1>0 DEF FrameInv, WTypes, WkType, Frames
    <3>. QED BY <1>0, <1>a, <2>0, <3>1 DEF FrameInv, PoolInv, WorkerInv
  <2>. QED BY <2>1, <2>2, <2>3, <2>4 DEF PoolInv
<1>. QED BY <1>a, <1>6, <1>7, <1>8, <1>9, <1>10 DEF FrameInv

LEMMA AddInnerParStep ==
  ASSUME FrameInv, AddInnerPar
  PROVE  FrameInv'
<1>a. /\ par /\ pc = "add" /\ k \in Frames /\ ~Leaf(k) /\ pc' = "link" /\ Adding /\ ClosesPair
      /\ stack' = Popped /\ todo' = <<Left, Right>> /\ pend' = [pend EXCEPT ![k] = 2]
      /\ parent' = [parent EXCEPT ![Left] = k, ![Right] = k]
      /\ UNCHANGED <<nodes, par, k, hash, events, built, submitted, pending, ready, disp, wk>>
  BY DEF AddInnerPar, Adding, storeVars, queueVars
<1>0. /\ N \in Nat /\ N' = N /\ Frames' = Frames /\ Gone' = Gone /\ WkType' = WkType
      /\ (\A i : Leaf(i)' = Leaf(i)) /\ k \in Int /\ Frames \in SUBSET Int /\ 0 \notin Frames /\ Frames = 1 .. N
  BY <1>a, SameNodes, Basics
<1>1. ~Begun(k)
  BY <1>0, <1>a DEF Begun, Mid
<1>2. /\ ~submitted[k] /\ ~built[k] /\ hash[k] = "none" /\ ~Queued(k) /\ ~Held(k) /\ parent[k] = 0
      /\ \A c \in Frames : parent[c] # k
  BY <1>1, <1>a, Unborn
<1>3. /\ Left \in Frames /\ Right \in Frames /\ Left < Right /\ Right < k /\ parent[Left] = 0 /\ parent[Right] = 0
      /\ Popped \in Seq(Frames) /\ Rising(Popped)
      /\ Left \notin Waiting(Popped) /\ Right \notin Waiting(Popped)
      /\ \A f \in Waiting(Popped) : f < k /\ parent[f] = 0
  BY <1>a, PopsPair
<1>4. Left < k /\ Left # Right /\ Left # k /\ Right # k
  BY <1>0, <1>3
<1>5. /\ \A c \in Frames : parent'[c] = (IF c \in {Left, Right} THEN k ELSE parent[c])
      /\ \A p \in Frames : pend'[p] = (IF p = k THEN 2 ELSE pend[p])
      /\ parent' \in [Frames -> 0 .. N] /\ pend' \in [Frames -> Int]
  <2>1. parent \in [Frames -> 0 .. N] /\ pend \in [Frames -> Int] /\ k \in 0 .. N
    BY <1>0, <1>a DEF FrameInv, WTypes
  <2>. QED BY <1>a, <1>3, <1>4, <2>1
<1>6. /\ todo = <<>> /\ Waiting(todo) = {} /\ Waiting(todo') = {Left, Right} /\ Distinct(todo') /\ todo' # <<>>
      /\ todo' \in Seq(Frames)
  <2>1. todo = <<>>
    BY <1>a DEF FrameInv, TodoInv
  <2>2. Len(todo') = 2 /\ todo'[1] = Left /\ todo'[2] = Right /\ Len(<<>>) = 0
    BY <1>a
  <2>. QED BY <1>a, <1>3, <1>4, <2>1, <2>2 DEF Waiting, Distinct
<1>7. \A f \in Frames : /\ Begun(f)' <=> Begun(f) \/ f = k
                        /\ Linked(f)' <=> Linked(f)
  <2>1. \A f \in Frames : Begun(f)' <=> Begun(f) \/ f = k
    BY <1>0, <1>a DEF Begun, Mid
  <2>2. \A f \in Frames : Linked(f)' <=> Linked(f)
    <3>1. Waiting(todo)' = {Left, Right}
      BY <1>6 DEF Waiting
    <3>. QED BY <1>3, <1>5, <1>6, <3>1 DEF Linked
  <2>. QED BY <2>1, <2>2
<1>8. \A f : /\ Done(f)' <=> Done(f)
             /\ Open(f)' <=> Open(f)
             /\ Held(f)' <=> Held(f)
             /\ Queued(f)' <=> Queued(f)
  BY <1>a DEF Done, Open, Held, Queued, Waiting
<1>9. WTypes'
  BY <1>0, <1>a, <1>3, <1>5, <1>6 DEF FrameInv, WTypes, Mid, Quiet
<1>10. StackInv'
  <2>1. Waiting(stack)' = Waiting(Popped) /\ Rising(stack)' = Rising(Popped)
    BY <1>a DEF Waiting, Rising
  <2>2. Waiting(Popped) \subseteq Frames
    BY <1>3, WaitIn
  <2>3. \A f \in Waiting(Popped) : f <= k /\ f # k /\ parent'[f] = 0
    <3>1. \A f \in Waiting(Popped) : f \in Frames /\ f \in Int /\ f < k /\ parent[f] = 0 /\ f \notin {Left, Right}
      BY <1>0, <1>3, <2>2
    <3>. QED BY <1>0, <1>5, <3>1
  <2>. QED BY <1>a, <1>3, <2>1, <2>3 DEF StackInv
<1>11. TodoInv'
  <2>1. Waiting(todo)' = {Left, Right} /\ Distinct(todo)' = Distinct(todo')
    BY <1>6 DEF Waiting, Distinct
  <2>. QED BY <1>0, <1>a, <1>3, <1>5, <1>6, <2>1 DEF TodoInv, Mid
<1>12. TreeInv'
  <2>1. ParentInv'
    <3>. SUFFICES ASSUME NEW c \in Frames, NEW q \in Frames, q = parent'[c]
                  PROVE c < q /\ ~Leaf(q) /\ Begun(q)'
      <4>1. \A c \in Frames : parent'[c] # 0 => parent'[c] \in Frames
        BY <1>0, <1>5
      <4>. QED BY <1>0, <4>1 DEF ParentInv
    <3>1. CASE c \in {Left, Right}
      BY <1>a, <1>3, <1>4, <1>5, <1>7, <3>1
    <3>2. CASE c \notin {Left, Right}
      <4>1. q = parent[c] /\ q # 0
        BY <1>0, <1>5, <3>2
      <4>. QED BY <1>a, <1>7, <4>1 DEF FrameInv, TreeInv, ParentInv
    <3>. QED BY <3>1, <3>2
  <2>2. PendInv'
    <3>. SUFFICES ASSUME NEW p \in Frames, Begun(p)', ~Leaf(p)
                  PROVE \E a, b \in Frames : Pair(p, a, b)' /\ pend'[p] = Bit(Open(a)') + Bit(Open(b)')
      BY <1>0 DEF PendInv, Bit
    <3>1. CASE p = k
      <4>0. PICK a, b \in Frames : a = Left /\ b = Right
        BY <1>3
      <4>1. Pair(p, a, b)'
        BY <1>0, <1>2, <1>4, <1>5, <3>1, <4>0 DEF Pair
      <4>2. \A c \in {Left, Right} : Open(c)
        <5>1. \A c \in {Left, Right} : ~Linked(c) /\ c \in Frames
          BY <1>3 DEF Linked
        <5>2. \A c \in {Left, Right} : events[c] < 2
          BY <1>a, <5>1 DEF FrameInv, TreeInv, EventsInv, Bit
        <5>. QED BY <5>2 DEF Open
      <4>3. pend'[p] = 2
        BY <1>a, <1>5, <3>1
      <4>4. Open(a)' /\ Open(b)'
        BY <1>8, <4>0, <4>2
      <4>. QED BY <4>1, <4>3, <4>4 DEF Bit
    <3>2. CASE p # k
      <4>1. Begun(p) /\ pend'[p] = pend[p]
        BY <1>5, <1>7, <3>2
      <4>2. \A c \in Frames : parent'[c] = p <=> parent[c] = p
        BY <1>0, <1>3, <1>5, <3>2
      <4>. QED BY <1>a, <1>8, <4>1, <4>2, PendSame
    <3>. QED BY <3>1, <3>2
  <2>3. BuiltInv'
    BY <1>0, <1>a, <1>2, <1>7 DEF FrameInv, TreeInv, BuiltInv
  <2>4. SubmittedInv'
    <3>1. \A f \in Frames : submitted[f] => Begun(f)' /\ f # k /\ pend'[f] = pend[f]
      BY <1>a, <1>2, <1>5, <1>7 DEF FrameInv, TreeInv, SubmittedInv
    <3>. QED BY <1>0, <1>a, <3>1 DEF FrameInv, TreeInv, SubmittedInv
  <2>5. EventsInv'
    BY <1>0, <1>a, <1>7, <1>8 DEF FrameInv, TreeInv, EventsInv, Bit
  <2>. QED BY <2>1, <2>2, <2>3, <2>4, <2>5 DEF TreeInv
<1>13. PoolInv'
  <2>1. QueueInv'
    <3>1. Waiting(pending)' = Waiting(pending) /\ Waiting(ready)' = Waiting(ready)
          /\ Distinct(pending)' = Distinct(pending) /\ Distinct(ready)' = Distinct(ready)
      BY <1>a DEF Waiting, Distinct
    <3>. QED BY <1>0, <1>a, <1>8, <3>1 DEF FrameInv, PoolInv, QueueInv
  <2>2. HashInv' /\ HeldInv'
    BY <1>0, <1>a DEF FrameInv, PoolInv, HashInv, HeldInv
  <2>3. EnqueueInv'
    BY <1>a DEF EnqueueInv
  <2>4. WorkerInv'
    <3>1. \A w \in Workers : wk[w].f \in Frames \cup {0} /\ wk[w].p \in Frames \cup {0}
      BY <1>0 DEF FrameInv, WTypes, WkType
    <3>2. ASSUME NEW w \in Workers, wk[w].at \in {"dec", "built"}
          PROVE  wk[w].p # 0 /\ parent'[wk[w].f] = wk[w].p /\ wk[w].p \in Frames /\ pend'[wk[w].p] = pend[wk[w].p]
      <4>1. wk[w].p # 0 /\ parent[wk[w].f] = wk[w].p /\ wk[w].f # 0
        BY <1>a, <3>2 DEF FrameInv, PoolInv, WorkerInv
      <4>2. wk[w].f \in Frames /\ wk[w].p \in Frames
        BY <3>1, <4>1
      <4>3. parent'[wk[w].f] = wk[w].p
        BY <1>3, <1>5, <4>1, <4>2
      <4>4. wk[w].p # k
        BY <1>2, <4>1, <4>2
      <4>. QED BY <1>5, <4>1, <4>2, <4>3, <4>4
    <3>. QED BY <1>0, <1>a, <3>2 DEF FrameInv, PoolInv, WorkerInv
  <2>. QED BY <2>1, <2>2, <2>3, <2>4 DEF PoolInv
<1>. QED BY <1>a, <1>9, <1>10, <1>11, <1>12, <1>13 DEF FrameInv

LEMMA LinkChildStep ==
  ASSUME FrameInv, LinkChild
  PROVE  FrameInv'
<1>p. PICK c \in Frames : c = Head(todo)
  BY DEF LinkChild, FrameInv, WTypes
<1>a. /\ pc = "link" /\ todo # <<>> /\ todo' = Tail(todo) /\ pc' = (IF Len(todo) = 1 THEN "built" ELSE "link")
      /\ events' = [events EXCEPT ![c] = @ + 1]
      /\ pend' = IF events'[c] = 2 THEN [pend EXCEPT ![k] = @ - 1] ELSE pend
      /\ UNCHANGED <<nodes, par, k, stack, hash, built, submitted, parent, pending, ready, disp, wk>>
  BY <1>p DEF LinkChild, storeVars, queueVars
<1>b. par /\ k \in Frames /\ ~Leaf(k) /\ Distinct(todo) /\ \A d \in Waiting(todo) : parent[d] = k
  BY <1>a DEF FrameInv, TodoInv, WTypes, Mid
<1>0. /\ N \in Nat /\ N' = N /\ Frames' = Frames /\ Gone' = Gone /\ WkType' = WkType
      /\ (\A i : Leaf(i)' = Leaf(i)) /\ k \in Int /\ Frames \in SUBSET Int /\ 0 \notin Frames /\ Frames = 1 .. N
  BY <1>a, SameNodes, Basics
<1>1. /\ c \in Waiting(todo) /\ Waiting(todo') = Waiting(todo) \ {c} /\ Distinct(todo') /\ todo' \in Seq(Frames)
      /\ c \in Frames /\ parent[c] = k /\ (pc' = "link" <=> todo' # <<>>)
  <2>1. todo \in Seq(Frames)
    BY DEF FrameInv, WTypes
  <2>2. Len(Tail(todo)) = Len(todo) - 1 /\ Len(todo) \in Nat /\ (Tail(todo) = <<>> <=> Len(Tail(todo)) = 0)
    <3>1. \A q \in Seq(Frames) : Len(q) \in Nat /\ (q = <<>> <=> Len(q) = 0)
      OBVIOUS
    <3>2. Tail(todo) \in Seq(Frames) /\ Len(Tail(todo)) = Len(todo) - 1
      BY <1>a, <2>1
    <3>. QED BY <2>1, <3>1, <3>2
  <2>3. /\ c \in Waiting(todo) /\ Waiting(Tail(todo)) = Waiting(todo) \ {c} /\ Distinct(Tail(todo))
        /\ Tail(todo) \in Seq(Frames)
    BY <1>a, <1>b, <1>p, <2>1, WaitTail
  <2>4. pc' = "link" <=> todo' # <<>>
    BY <1>a, <2>2
  <2>. QED BY <1>a, <1>b, <2>3, <2>4
<1>2. /\ ~Linked(c) /\ events[c] = Bit(Done(c)) /\ Begun(k) /\ ~submitted[k]
  <2>1. ~Linked(c) /\ Begun(k)
    BY <1>a, <1>b, <1>1 DEF Linked, Begun, Mid
  <2>2. ~submitted[k]
    BY <1>a, <1>b DEF FrameInv, TreeInv, SubmittedInv, BuiltInv
  <2>. QED BY <1>b, <1>1, <2>1, <2>2 DEF FrameInv, TreeInv, EventsInv, Bit
<1>3. /\ \A f \in Frames : events'[f] = (IF f = c THEN events[c] + 1 ELSE events[f])
      /\ events' \in [Frames -> Int] /\ pend' \in [Frames -> Int]
      /\ \A p \in Frames : pend'[p] = (IF p = k /\ Done(c) THEN pend[p] - 1 ELSE pend[p])
  <2>1. events \in [Frames -> Int] /\ pend \in [Frames -> Int]
    BY DEF FrameInv, WTypes
  <2>2. \A f \in Frames : events'[f] = (IF f = c THEN events[c] + 1 ELSE events[f])
    BY <1>a, <1>1, <2>1
  <2>3. events'[c] = 2 <=> Done(c)
    BY <1>1, <1>2, <2>2 DEF Bit
  <2>4. pend' = IF Done(c) THEN [pend EXCEPT ![k] = @ - 1] ELSE pend
    BY <1>a, <2>3
  <2>5. events' \in [Frames -> Int]
    BY <1>a, <2>1
  <2>6. pend' \in [Frames -> Int]
    <3>1. [pend EXCEPT ![k] = @ - 1] \in [Frames -> Int]
      BY <1>b, <2>1
    <3>. QED BY <2>1, <2>4, <3>1
  <2>7. \A p \in Frames : pend'[p] = (IF p = k /\ Done(c) THEN pend[p] - 1 ELSE pend[p])
    BY <2>1, <2>4
  <2>. QED BY <2>2, <2>5, <2>6, <2>7
<1>4. \A f \in Frames : /\ Begun(f)' <=> Begun(f)
                        /\ Linked(f)' <=> Linked(f) \/ f = c
  <2>1. Waiting(todo)' = Waiting(todo) \ {c}
    BY <1>1 DEF Waiting
  <2>2. k # 0 /\ pc' \in Mid /\ pc \in Mid
    BY <1>0, <1>a, <1>b DEF Mid
  <2>. QED BY <1>a, <1>1, <2>1, <2>2 DEF Begun, Linked
<1>5. \A f : /\ Done(f)' <=> Done(f)
             /\ Held(f)' <=> Held(f)
             /\ Queued(f)' <=> Queued(f)
  BY <1>a DEF Done, Held, Queued, Waiting
<1>6. \A w \in Workers : wk[w].at \in {"dec", "built"} => wk[w].f # c /\ events[wk[w].f] = 2
  BY <1>b, <1>2 DEF FrameInv, PoolInv, WorkerInv, Bit
<1>7. Open(c) /\ (Open(c)' <=> ~Done(c)) /\ \A f \in Frames : f # c => (Open(f)' <=> Open(f))
  <2>1. Open(c)
    BY <1>2 DEF Open, Bit
  <2>2. events'[c] < 2 <=> ~Done(c)
    BY <1>1, <1>2, <1>3 DEF Bit
  <2>3. Open(c)' <=> ~Done(c)
    BY <1>a, <1>6, <2>2 DEF Open
  <2>. QED BY <1>a, <1>3, <2>1, <2>3 DEF Open
<1>8. ASSUME NEW p \in Frames, Begun(p), ~Leaf(p)
      PROVE  \E a, b \in Frames : Pair(p, a, b)' /\ pend'[p] = Bit(Open(a)') + Bit(Open(b)')
  <2>1. CASE p = k
    <3>1. PICK a, b \in Frames : Pair(p, a, b) /\ pend[p] = Bit(Open(a)) + Bit(Open(b))
      BY <1>b, <1>8 DEF FrameInv, TreeInv, PendInv
    <3>2. Pair(p, a, b)'
      BY <1>0, <1>a, <3>1 DEF Pair
    <3>3. c \in {a, b} /\ a # b
      BY <1>1, <2>1, <3>1 DEF Pair
    <3>4. pend'[p] = (IF Done(c) THEN pend[p] - 1 ELSE pend[p])
      BY <1>3, <2>1
    <3>. QED BY <1>7, <3>1, <3>2, <3>3, <3>4 DEF Bit
  <2>2. CASE p # k
    <3>1. \A d \in Frames : parent[d] = p => d # c
      BY <1>1, <2>2
    <3>. QED BY <1>a, <1>b, <1>3, <1>7, <1>8, <2>2, <3>1, PendSame
  <2>. QED BY <2>1, <2>2
<1>9. ASSUME NEW w \in Workers, wk[w].at = "built" PROVE wk[w].p # k /\ wk[w].p \in Frames
  <2>1. pend[wk[w].p] = 0 /\ wk[w].p # 0
    BY <1>b, <1>9 DEF FrameInv, PoolInv, WorkerInv
  <2>2. PICK a, b \in Frames : Pair(k, a, b) /\ pend[k] = Bit(Open(a)) + Bit(Open(b))
    BY <1>b, <1>2 DEF FrameInv, TreeInv, PendInv
  <2>3. c \in {a, b}
    BY <1>1, <2>2 DEF Pair
  <2>4. pend[k] # 0
    BY <1>7, <2>2, <2>3 DEF Bit
  <2>5. wk[w].p \in 0 .. N
    BY DEF FrameInv, WTypes, WkType
  <2>. QED BY <1>0, <2>1, <2>4, <2>5
<1>10. WTypes'
  BY <1>0, <1>a, <1>b, <1>1, <1>3 DEF FrameInv, WTypes, Mid, Quiet
<1>11. StackInv'
  BY <1>0, <1>a DEF FrameInv, StackInv, Waiting, Rising
<1>12. TodoInv'
  <2>1. Waiting(todo)' = Waiting(todo') /\ Distinct(todo)' = Distinct(todo')
    BY DEF Waiting, Distinct
  <2>. QED BY <1>0, <1>a, <1>b, <1>1, <2>1 DEF TodoInv, Mid
<1>13. TreeInv'
  <2>1. ParentInv'
    <3>1. \A d \in Frames : parent[d] # 0 => parent[d] \in Frames
      BY <1>0 DEF FrameInv, WTypes
    <3>. QED BY <1>0, <1>a, <1>b, <1>4, <3>1 DEF FrameInv, TreeInv, ParentInv
  <2>2. PendInv'
    BY <1>0, <1>4, <1>8 DEF PendInv, Bit
  <2>3. BuiltInv'
    BY <1>0, <1>a, <1>b, <1>4 DEF FrameInv, TreeInv, BuiltInv
  <2>4. SubmittedInv'
    <3>1. \A f \in Frames : submitted[f] => f # k /\ pend'[f] = pend[f]
      BY <1>2, <1>3
    <3>. QED BY <1>0, <1>a, <1>b, <1>4, <3>1 DEF FrameInv, TreeInv, SubmittedInv
  <2>5. EventsInv'
    <3>1. ASSUME NEW f \in Frames PROVE events'[f] = Bit(Linked(f)') + Bit(Done(f)')
      <4>1. events[f] = Bit(Linked(f)) + Bit(Done(f))
        BY <1>b DEF FrameInv, TreeInv, EventsInv
      <4>. QED BY <1>2, <1>3, <1>4, <1>5, <4>1 DEF Bit
    <3>. QED BY <1>0, <3>1 DEF EventsInv, Bit
  <2>. QED BY <2>1, <2>2, <2>3, <2>4, <2>5 DEF TreeInv
<1>14. PoolInv'
  <2>1. QueueInv'
    <3>1. Waiting(pending)' = Waiting(pending) /\ Waiting(ready)' = Waiting(ready)
          /\ Distinct(pending)' = Distinct(pending) /\ Distinct(ready)' = Distinct(ready)
      BY <1>a DEF Waiting, Distinct
    <3>. QED BY <1>0, <1>a, <1>b, <1>5, <3>1 DEF FrameInv, PoolInv, QueueInv
  <2>2. HashInv' /\ HeldInv'
    BY <1>0, <1>a, <1>b DEF FrameInv, PoolInv, HashInv, HeldInv
  <2>3. EnqueueInv'
    BY <1>a DEF EnqueueInv
  <2>4. WorkerInv'
    <3>1. ASSUME NEW w \in Workers, wk[w].at \in {"dec", "built"} PROVE events'[wk[w].f] = 2
      <4>1. wk[w].f \in Frames
        BY <1>b, <3>1, Holding
      <4>. QED BY <1>3, <1>6, <3>1, <4>1
    <3>2. \A w \in Workers : wk[w].at = "built" => pend'[wk[w].p] = pend[wk[w].p]
      BY <1>3, <1>9
    <3>. QED BY <1>0, <1>a, <1>b, <3>1, <3>2 DEF FrameInv, PoolInv, WorkerInv
  <2>. QED BY <2>1, <2>2, <2>3, <2>4 DEF PoolInv
<1>. QED BY <1>a, <1>b, <1>10, <1>11, <1>12, <1>13, <1>14 DEF FrameInv

LEMMA MarkBuiltStep ==
  ASSUME FrameInv, MarkBuilt
  PROVE  FrameInv'
<1>a. /\ pc = "built" /\ pc' = "check" /\ built' = [built EXCEPT ![k] = TRUE]
      /\ UNCHANGED <<nodes, par, k, stack, todo, hash, pend, events, submitted, parent, pending, ready, disp, wk>>
  BY DEF MarkBuilt, storeVars, mainVars, queueVars
<1>b. par /\ k \in Frames /\ ~Leaf(k)
  BY <1>a DEF FrameInv, TodoInv, WTypes, Mid
<1>0. /\ N \in Nat /\ N' = N /\ Frames' = Frames /\ Gone' = Gone /\ WkType' = WkType
      /\ (\A i : Leaf(i)' = Leaf(i)) /\ k \in Int /\ Frames \in SUBSET Int /\ 0 \notin Frames /\ Frames = 1 .. N
  BY <1>a, SameNodes, Basics
<1>1. \A f : /\ Begun(f)' <=> Begun(f)
             /\ Done(f)' <=> Done(f)
             /\ Linked(f)' <=> Linked(f)
             /\ Open(f)' <=> Open(f)
             /\ Held(f)' <=> Held(f)
             /\ Queued(f)' <=> Queued(f)
  BY <1>0, <1>a DEF Begun, Done, Linked, Open, Held, Queued, Waiting, Mid
<1>2. \A f \in Frames : /\ built[f] => built'[f]
                        /\ built'[f] => built[f] \/ f = k
  BY <1>a DEF FrameInv, WTypes
<1>3. WTypes'
  <2>1. built' \in [Frames -> BOOLEAN]
    BY <1>a DEF FrameInv, WTypes
  <2>. QED BY <1>0, <1>a, <1>b, <2>1 DEF FrameInv, WTypes, Mid, Quiet
<1>4. StackInv' /\ TodoInv'
  <2>1. built'[k]
    BY <1>a, <1>b DEF FrameInv, WTypes
  <2>. QED BY <1>0, <1>a, <2>1 DEF FrameInv, StackInv, TodoInv, Waiting, Rising, Distinct, Mid
<1>5. TreeInv'
  <2>1. ParentInv'
    BY <1>0, <1>a, <1>b, <1>1 DEF FrameInv, TreeInv, ParentInv
  <2>2. PendInv'
    <3>. SUFFICES ASSUME NEW p \in Frames, Begun(p)', ~Leaf(p)
                  PROVE \E a, b \in Frames : Pair(p, a, b)' /\ pend'[p] = Bit(Open(a)') + Bit(Open(b)')
      BY <1>0 DEF PendInv, Bit
    <3>. QED BY <1>a, <1>b, <1>1, PendSame
  <2>3. BuiltInv'
    <3>1. Begun(k)
      BY <1>a DEF Begun, Mid
    <3>. QED BY <1>0, <1>a, <1>b, <1>1, <1>2, <3>1 DEF FrameInv, TreeInv, BuiltInv
  <2>4. SubmittedInv'
    BY <1>0, <1>a, <1>b, <1>1, <1>2 DEF FrameInv, TreeInv, SubmittedInv
  <2>5. EventsInv'
    BY <1>0, <1>a, <1>b, <1>1 DEF FrameInv, TreeInv, EventsInv, Bit
  <2>. QED BY <2>1, <2>2, <2>3, <2>4, <2>5 DEF TreeInv
<1>6. PoolInv'
  <2>1. QueueInv'
    <3>1. Waiting(pending)' = Waiting(pending) /\ Waiting(ready)' = Waiting(ready)
          /\ Distinct(pending)' = Distinct(pending) /\ Distinct(ready)' = Distinct(ready)
      BY <1>a DEF Waiting, Distinct
    <3>. QED BY <1>0, <1>a, <1>b, <1>1, <3>1 DEF FrameInv, PoolInv, QueueInv
  <2>2. HashInv' /\ HeldInv' /\ EnqueueInv' /\ WorkerInv'
    BY <1>0, <1>a, <1>b DEF FrameInv, PoolInv, HashInv, HeldInv, EnqueueInv, WorkerInv
  <2>. QED BY <2>1, <2>2 DEF PoolInv
<1>. QED BY <1>a, <1>b, <1>3, <1>4, <1>5, <1>6 DEF FrameInv

(* A frame the main thread leaves: the next node is not begun.             *)
LEMMA LeaveNode ==
  ASSUME FrameInv, par, pc \in Mid, pc # "link", nodes' = nodes, k' = k + 1, pc' = "add"
  PROVE  \A f \in Frames : (Begun(f)' <=> Begun(f)) /\ (Begun(f)' => f # k')
<1>1. k \in Int /\ Frames \in SUBSET Int
  BY Basics
<1>2. \A f \in Frames : f < k' <=> f < k \/ f = k
  BY <1>1
<1>. QED BY <1>1, <1>2 DEF Begun, Mid

(* The frame being built has no parent, and lies above the stack.          *)
LEMMA TopFrame ==
  ASSUME FrameInv, par, pc \in Mid
  PROVE  /\ k \in Frames /\ parent[k] = 0 /\ stack \in Seq(Frames) /\ Rising(stack) /\ Begun(k)
         /\ \A f \in Waiting(stack) : f \in Frames /\ f <= k /\ parent[f] = 0
         /\ pc # "enqueue" \/ ~Leaf(k) =>
              /\ \A f \in Waiting(stack) : f < k
              /\ Append(stack, k) \in Seq(Frames) /\ Rising(Append(stack, k))
              /\ Waiting(Append(stack, k)) = Waiting(stack) \cup {k}
<1>1. k \in Frames /\ k \in Int /\ Frames \in SUBSET Int /\ Frames = 1 .. N /\ N \in Nat /\ Begun(k)
  BY Basics DEF FrameInv, WTypes, Begun
<1>2. parent[k] = 0
  <2>. SUFFICES ASSUME parent[k] # 0 PROVE FALSE
    OBVIOUS
  <2>1. k < parent[k] /\ Begun(parent[k]) /\ parent[k] \in Int
    BY <1>1 DEF FrameInv, TreeInv, ParentInv, WTypes
  <2>. QED BY <1>1, <2>1 DEF Begun
<1>3. stack \in Seq(Frames) /\ Rising(stack)
  BY DEF FrameInv, WTypes, StackInv
<1>4. Waiting(stack) \subseteq Frames
  BY <1>3, WaitIn
<1>5. \A f \in Waiting(stack) : f \in Frames /\ f \in Int /\ f <= k /\ parent[f] = 0 /\ (f = k => pc = "enqueue" /\ Leaf(k))
  BY <1>1, <1>4 DEF FrameInv, StackInv
<1>6. ASSUME pc # "enqueue" \/ ~Leaf(k)
      PROVE  /\ \A f \in Waiting(stack) : f < k
             /\ Append(stack, k) \in Seq(Frames) /\ Rising(Append(stack, k))
             /\ Waiting(Append(stack, k)) = Waiting(stack) \cup {k}
  <2>1. \A f \in Waiting(stack) : f < k
    BY <1>1, <1>5, <1>6
  <2>. QED BY <1>1, <1>3, <2>1, Pushed, WaitAppended
<1>. QED BY <1>1, <1>2, <1>3, <1>5, <1>6

(* The main thread goes on to the next node with the frame on its stack.   *)
LEMMA NextNode ==
  ASSUME FrameInv, par, pc \in Mid, pc # "link", nodes' = nodes, par' = par, k' = k + 1, pc' = "add",
         stack' = (IF pc = "enqueue" /\ Leaf(k) THEN stack ELSE Append(stack, k)), parent' = parent, todo' = todo
  PROVE  StackInv' /\ TodoInv' /\ stack' \in Seq(Frames) /\ k' \in 1 .. N + 1
<1>1. /\ k \in Frames /\ parent[k] = 0 /\ stack \in Seq(Frames) /\ Rising(stack)
      /\ \A f \in Waiting(stack) : f \in Frames /\ f <= k /\ parent[f] = 0
      /\ pc # "enqueue" \/ ~Leaf(k) =>
           /\ Append(stack, k) \in Seq(Frames) /\ Rising(Append(stack, k))
           /\ Waiting(Append(stack, k)) = Waiting(stack) \cup {k}
  BY TopFrame
<1>2. k \in Int /\ Frames \in SUBSET Int /\ Frames = 1 .. N /\ N \in Nat
  BY Basics
<1>3. stack' \in Seq(Frames) /\ Rising(stack') /\ \A f \in Waiting(stack') : f \in Frames /\ f <= k /\ parent[f] = 0
  <2>1. k <= k
    BY <1>2
  <2>2. CASE pc = "enqueue" /\ Leaf(k)
    BY <1>1, <2>2
  <2>3. CASE pc # "enqueue" \/ ~Leaf(k)
    BY <1>1, <2>1, <2>3
  <2>. QED BY <2>2, <2>3
<1>4. \A f \in Waiting(stack') : f <= k' /\ f # k'
  BY <1>2, <1>3
<1>5. StackInv'
  <2>1. Waiting(stack)' = Waiting(stack') /\ Rising(stack)' = Rising(stack')
    BY DEF Waiting, Rising
  <2>. QED BY <1>3, <1>4, <2>1 DEF StackInv
<1>6. TodoInv'
  <2>1. todo = <<>>
    BY DEF FrameInv, TodoInv
  <2>2. Len(<<>>) = 0
    OBVIOUS
  <2>. QED BY <2>1, <2>2 DEF TodoInv, Mid, Waiting, Distinct
<1>. QED BY <1>1, <1>2, <1>3, <1>5, <1>6

LEMMA CheckPendingStep ==
  ASSUME FrameInv, CheckPending
  PROVE  FrameInv'
<1>a. /\ pc = "check"
      /\ UNCHANGED <<nodes, par, todo, hash, pend, events, built, parent, pending, ready, disp, wk>>
  BY DEF CheckPending, storeVars
<1>b. par /\ k \in Frames /\ ~Leaf(k) /\ built[k] /\ pc \in Mid
  BY <1>a DEF FrameInv, TodoInv, WTypes, Mid
<1>0. /\ N \in Nat /\ N' = N /\ Frames' = Frames /\ Gone' = Gone /\ WkType' = WkType
      /\ (\A i : Leaf(i)' = Leaf(i)) /\ k \in Int /\ Frames \in SUBSET Int /\ 0 \notin Frames /\ Frames = 1 .. N
  BY <1>a, SameNodes, Basics
<1>1. \A f : /\ Done(f)' <=> Done(f)
             /\ Linked(f)' <=> Linked(f)
             /\ Open(f)' <=> Open(f)
             /\ Held(f)' <=> Held(f)
             /\ Queued(f)' <=> Queued(f)
  BY <1>0, <1>a DEF Done, Linked, Open, Held, Queued, Waiting
<1>2. /\ submitted' \in [Frames -> BOOLEAN]
      /\ \A f \in Frames : submitted[f] => submitted'[f]
      /\ \A f \in Frames : submitted'[f] => submitted[f] \/ (f = k /\ pend[k] = 0 /\ pc' = "enqueue")
      /\ pc' = "enqueue" => submitted'[k] /\ ~submitted[k] /\ k' = k /\ stack' = stack
      /\ pc' # "enqueue" => k' = k + 1 /\ pc' = "add" /\ stack' = Append(stack, k) /\ submitted' = submitted
      /\ pc' \in {"enqueue", "add"}
  BY <1>b DEF CheckPending, FrameInv, WTypes
<1>3. /\ \A f \in Frames : (Begun(f)' <=> Begun(f)) /\ (Begun(f)' /\ f = k' => pc' = "enqueue")
      /\ WTypes' /\ StackInv' /\ TodoInv'
  <2>1. CASE pc' = "enqueue"
    <3>1. \A f \in Frames : (Begun(f)' <=> Begun(f)) /\ (Begun(f)' /\ f = k' => pc' = "enqueue")
      BY <1>b, <1>2, <2>1 DEF Begun, Mid
    <3>2. WTypes'
      BY <1>0, <1>a, <1>b, <1>2, <2>1 DEF FrameInv, WTypes, Mid, Quiet
    <3>3. \A f \in Waiting(stack) : f # k
      BY <1>a DEF FrameInv, StackInv
    <3>4. StackInv' /\ TodoInv'
      BY <1>0, <1>a, <1>b, <1>2, <2>1, <3>3 DEF FrameInv, StackInv, TodoInv, Waiting, Rising, Distinct, Mid
    <3>. QED BY <3>1, <3>2, <3>4
  <2>2. CASE pc' # "enqueue"
    <3>1. StackInv' /\ TodoInv' /\ stack' \in Seq(Frames) /\ k' \in 1 .. N + 1
      BY <1>a, <1>b, <1>2, <2>2, NextNode
    <3>2. \A f \in Frames : (Begun(f)' <=> Begun(f)) /\ (Begun(f)' => f # k')
      BY <1>a, <1>b, <1>2, <2>2, LeaveNode
    <3>3. WTypes'
      BY <1>0, <1>a, <1>2, <2>2, <3>1 DEF FrameInv, WTypes, Mid, Quiet
    <3>. QED BY <3>1, <3>2, <3>3
  <2>. QED BY <2>1, <2>2
<1>4. TreeInv'
  <2>1. ParentInv'
    <3>1. \A c \in Frames : parent[c] # 0 => parent[c] \in Frames
      BY <1>0 DEF FrameInv, WTypes
    <3>. QED BY <1>0, <1>a, <1>b, <1>3, <3>1 DEF FrameInv, TreeInv, ParentInv
  <2>2. PendInv'
    <3>. SUFFICES ASSUME NEW p \in Frames, Begun(p)', ~Leaf(p)
                  PROVE \E a, b \in Frames : Pair(p, a, b)' /\ pend'[p] = Bit(Open(a)') + Bit(Open(b)')
      BY <1>0 DEF PendInv, Bit
    <3>. QED BY <1>a, <1>b, <1>1, <1>3, PendSame
  <2>3. BuiltInv'
    BY <1>0, <1>a, <1>b, <1>3 DEF FrameInv, TreeInv, BuiltInv
  <2>4. SubmittedInv'
    <3>1. Begun(k)
      BY <1>b DEF Begun
    <3>. QED BY <1>0, <1>a, <1>b, <1>2, <1>3, <3>1 DEF FrameInv, TreeInv, SubmittedInv
  <2>5. EventsInv'
    BY <1>0, <1>a, <1>b, <1>1 DEF FrameInv, TreeInv, EventsInv, Bit
  <2>. QED BY <2>1, <2>2, <2>3, <2>4, <2>5 DEF TreeInv
<1>5. PoolInv'
  <2>1. QueueInv'
    <3>1. Waiting(pending)' = Waiting(pending) /\ Waiting(ready)' = Waiting(ready)
          /\ Distinct(pending)' = Distinct(pending) /\ Distinct(ready)' = Distinct(ready)
      BY <1>a DEF Waiting, Distinct
    <3>. QED BY <1>0, <1>a, <1>b, <1>1, <1>2, <3>1 DEF FrameInv, PoolInv, QueueInv
  <2>2. HashInv' /\ HeldInv'
    BY <1>0, <1>a, <1>b, <1>2 DEF FrameInv, PoolInv, HashInv, HeldInv
  <2>3. EnqueueInv'
    <3>1. ~submitted[k] => hash[k] = "none" /\ ~Queued(k)
      BY <1>b DEF FrameInv, PoolInv, HashInv, QueueInv
    <3>2. ~submitted[k] => ~Held(k)
      BY <1>0, <1>b DEF FrameInv, PoolInv, WorkerInv, Held
    <3>3. ASSUME pc' = "enqueue" PROVE hash'[k'] = "none" /\ ~Queued(k)' /\ ~Held(k)' /\ submitted'[k']
      <4>1. PICK x \in Frames : x = k /\ x = k'
        BY <1>b, <1>2, <3>3
      <4>2. ~Queued(x)' /\ ~Held(x)'
        BY <1>1, <1>2, <3>1, <3>2, <3>3, <4>1
      <4>3. (Queued(k)' <=> Queued(x)') /\ (Held(k)' <=> Held(x)')
        BY <4>1 DEF Queued, Held
      <4>. QED BY <1>a, <1>2, <3>1, <3>3, <4>1, <4>2, <4>3
    <3>. QED BY <3>3 DEF EnqueueInv
  <2>4. WorkerInv'
    <3>1. \A w \in Workers : wk[w].f # 0 => wk[w].f \in Frames
      BY <1>0 DEF FrameInv, WTypes, WkType
    <3>. QED BY <1>0, <1>a, <1>b, <1>2, <3>1 DEF FrameInv, PoolInv, WorkerInv
  <2>. QED BY <2>1, <2>2, <2>3, <2>4 DEF PoolInv
<1>. QED BY <1>a, <1>b, <1>3, <1>4, <1>5 DEF FrameInv

LEMMA EnqueueStep ==
  ASSUME FrameInv, Enqueue
  PROVE  FrameInv'
<1>a. /\ pc = "enqueue" /\ pc' = "add" /\ k' = k + 1 /\ pending' = Append(pending, k)
      /\ stack' = (IF Leaf(k) THEN stack ELSE Append(stack, k))
      /\ UNCHANGED <<nodes, par, todo, hash, pend, events, built, submitted, parent, ready, disp, wk>>
  BY DEF Enqueue, storeVars, frameVars
<1>b. par /\ k \in Frames /\ pc \in Mid /\ submitted[k] /\ hash[k] = "none" /\ ~Queued(k) /\ ~Held(k)
  BY <1>a DEF FrameInv, TodoInv, WTypes, Mid, PoolInv, EnqueueInv
<1>0. /\ N \in Nat /\ N' = N /\ Frames' = Frames /\ Gone' = Gone /\ WkType' = WkType
      /\ (\A i : Leaf(i)' = Leaf(i)) /\ k \in Int /\ Frames \in SUBSET Int /\ 0 \notin Frames /\ Frames = 1 .. N
  BY <1>a, SameNodes, Basics
<1>1. \A f : /\ Done(f)' <=> Done(f)
             /\ Linked(f)' <=> Linked(f)
             /\ Open(f)' <=> Open(f)
             /\ Held(f)' <=> Held(f)
  BY <1>0, <1>a DEF Done, Linked, Open, Held, Waiting
<1>2. /\ Waiting(pending') = Waiting(pending) \cup {k} /\ pending' \in Seq(Frames) /\ Distinct(pending')
  BY <1>a, <1>b, WaitAppended DEF FrameInv, WTypes, PoolInv, QueueInv, Queued
<1>3. StackInv' /\ TodoInv' /\ stack' \in Seq(Frames) /\ k' \in 1 .. N + 1
  BY <1>a, <1>b, NextNode
<1>4. \A f \in Frames : (Begun(f)' <=> Begun(f)) /\ (Begun(f)' => f # k')
  BY <1>a, <1>b, LeaveNode
<1>5. WTypes'
  BY <1>0, <1>a, <1>2, <1>3 DEF FrameInv, WTypes, Mid, Quiet
<1>6. TreeInv'
  <2>1. ParentInv'
    <3>1. \A c \in Frames : parent[c] # 0 => parent[c] \in Frames
      BY <1>0 DEF FrameInv, WTypes
    <3>. QED BY <1>0, <1>a, <1>b, <1>4, <3>1 DEF FrameInv, TreeInv, ParentInv
  <2>2. PendInv'
    <3>. SUFFICES ASSUME NEW p \in Frames, Begun(p)', ~Leaf(p)
                  PROVE \E a, b \in Frames : Pair(p, a, b)' /\ pend'[p] = Bit(Open(a)') + Bit(Open(b)')
      BY <1>0 DEF PendInv, Bit
    <3>. QED BY <1>a, <1>b, <1>1, <1>4, PendSame
  <2>3. BuiltInv' /\ SubmittedInv'
    BY <1>0, <1>a, <1>b, <1>4 DEF FrameInv, TreeInv, BuiltInv, SubmittedInv
  <2>5. EventsInv'
    BY <1>0, <1>a, <1>b, <1>1 DEF FrameInv, TreeInv, EventsInv, Bit
  <2>. QED BY <2>1, <2>2, <2>3, <2>5 DEF TreeInv
<1>7. PoolInv'
  <2>1. QueueInv'
    <3>1. Waiting(pending)' = Waiting(pending) \cup {k} /\ Waiting(ready)' = Waiting(ready)
          /\ Distinct(pending)' /\ Distinct(ready)' = Distinct(ready)
      BY <1>a, <1>2 DEF Waiting, Distinct
    <3>2. \A f \in Frames : Queued(f)' <=> Queued(f) \/ f = k
      BY <1>a, <3>1 DEF Queued
    <3>3. k \notin Waiting(ready) /\ disp # k
      BY <1>b DEF Queued
    <3>4. \A f \in Waiting(pending)' : f \notin Waiting(ready) /\ disp # f
      BY <1>b, <3>1, <3>3 DEF FrameInv, PoolInv, QueueInv
    <3>5. \A f \in Frames : Queued(f)' => submitted[f] /\ hash[f] = "none" /\ ~Held(f)
      BY <1>b, <3>2 DEF FrameInv, PoolInv, QueueInv
    <3>6. Distinct(ready) /\ \A f \in Waiting(ready) : disp # f
      BY <1>b DEF FrameInv, PoolInv, QueueInv
    <3>. QED BY <1>0, <1>a, <1>1, <3>1, <3>4, <3>5, <3>6 DEF QueueInv
  <2>2. HashInv' /\ HeldInv' /\ EnqueueInv' /\ WorkerInv'
    BY <1>0, <1>a, <1>b DEF FrameInv, PoolInv, HashInv, HeldInv, EnqueueInv, WorkerInv
  <2>. QED BY <2>1, <2>2 DEF PoolInv
<1>. QED BY <1>a, <1>b, <1>3, <1>5, <1>6, <1>7 DEF FrameInv

-----------------------------------------------------------------------------
(* The dispatcher and the workers.                                         *)

(* A step of the pool that leaves the main thread and the frames' counts   *)
(* alone; what the queues and the workers do is left to the caller.        *)
LEMMA PoolStep ==
  ASSUME FrameInv, par,
         UNCHANGED <<nodes, par, pc, k, stack, todo, hash, pend, events, built, submitted, parent>>,
         pending' \in Seq(Frames), ready' \in Seq(Frames), disp' \in 0 .. N + 1, wk' \in WkType,
         \A f \in Frames : Done(f)' <=> Done(f),
         \A f \in Frames : Open(f)' <=> Open(f),
         PoolInv'
  PROVE  FrameInv'
<1>0. /\ N \in Nat /\ N' = N /\ Frames' = Frames /\ Gone' = Gone /\ WkType' = WkType
      /\ (\A i : Leaf(i)' = Leaf(i)) /\ k \in Int /\ Frames \in SUBSET Int /\ 0 \notin Frames /\ Frames = 1 .. N
  BY SameNodes, Basics
<1>1. \A f : (Begun(f)' <=> Begun(f)) /\ (Linked(f)' <=> Linked(f))
  BY DEF Begun, Linked, Waiting
<1>2. WTypes'
  BY <1>0 DEF FrameInv, WTypes
<1>3. StackInv' /\ TodoInv'
  BY <1>0 DEF FrameInv, StackInv, TodoInv, Waiting, Rising, Distinct
<1>4. ParentInv'
  BY <1>0, <1>1 DEF FrameInv, TreeInv, ParentInv
<1>5. PendInv'
  <2>. SUFFICES ASSUME NEW p \in Frames, Begun(p)', ~Leaf(p)
                PROVE \E a, b \in Frames : Pair(p, a, b)' /\ pend'[p] = Bit(Open(a)') + Bit(Open(b)')
    BY <1>0 DEF PendInv, Bit
  <2>. QED BY <1>1, PendSame
<1>6. BuiltInv' /\ SubmittedInv'
  BY <1>0, <1>1 DEF FrameInv, TreeInv, BuiltInv, SubmittedInv
<1>7. EventsInv'
  BY <1>0, <1>1 DEF FrameInv, TreeInv, EventsInv, Bit
<1>. QED BY <1>2, <1>3, <1>4, <1>5, <1>6, <1>7 DEF FrameInv, TreeInv

LEMMA DispTakeStep ==
  ASSUME FrameInv, DispTake
  PROVE  FrameInv'
<1>a. /\ disp = 0 /\ pending # <<>> /\ disp' = Head(pending) /\ pending' = Tail(pending)
      /\ UNCHANGED <<nodes, par, pc, k, stack, todo, hash, pend, events, built, submitted, parent, ready, wk>>
  BY DEF DispTake, storeVars, mainVars, frameVars
<1>0. /\ N \in Nat /\ N' = N /\ Frames' = Frames /\ Gone' = Gone /\ WkType' = WkType
      /\ (\A i : Leaf(i)' = Leaf(i)) /\ k \in Int /\ Frames \in SUBSET Int /\ 0 \notin Frames /\ Frames = 1 .. N
  BY <1>a, SameNodes, Basics
<1>b. par
  BY <1>0, <1>a DEF FrameInv, SeqInv, Gone
<1>1. /\ disp' \in Waiting(pending) /\ Waiting(pending') = Waiting(pending) \ {disp'} /\ Distinct(pending')
      /\ pending' \in Seq(Frames) /\ disp' \in Frames
  BY <1>a, <1>b, WaitTail DEF FrameInv, WTypes, PoolInv, QueueInv
<1>2. \A f \in Frames : /\ Done(f)' <=> Done(f)
                        /\ Open(f)' <=> Open(f)
                        /\ Held(f)' <=> Held(f)
                        /\ Queued(f)' <=> Queued(f)
  <2>1. Waiting(pending)' = Waiting(pending) \ {disp'} /\ Waiting(ready)' = Waiting(ready)
    BY <1>a, <1>1 DEF Waiting
  <2>. QED BY <1>0, <1>a, <1>1, <2>1 DEF Done, Open, Held, Queued
<1>3. QueueInv'
  <2>1. Waiting(pending)' = Waiting(pending) \ {disp'} /\ Waiting(ready)' = Waiting(ready)
    BY <1>a, <1>1 DEF Waiting
  <2>2. Distinct(pending)' /\ Distinct(ready)' = Distinct(ready)
    BY <1>a, <1>1 DEF Distinct
  <2>. QED BY <1>0, <1>a, <1>b, <1>1, <1>2, <2>1, <2>2 DEF FrameInv, PoolInv, QueueInv
<1>4. HashInv' /\ HeldInv' /\ WorkerInv'
  BY <1>0, <1>a, <1>b DEF FrameInv, PoolInv, HashInv, HeldInv, WorkerInv
<1>5. EnqueueInv'
  BY <1>0, <1>a, <1>b, <1>2 DEF FrameInv, WTypes, Mid, PoolInv, EnqueueInv
<1>6. PoolInv' /\ disp' \in 0 .. N + 1
  BY <1>0, <1>1, <1>3, <1>4, <1>5 DEF PoolInv
<1>7. ready' \in Seq(Frames) /\ wk' \in WkType
  BY <1>a DEF FrameInv, WTypes
<1>. QED BY <1>a, <1>b, <1>1, <1>2, <1>6, <1>7, PoolStep

LEMMA DispSendStep ==
  ASSUME FrameInv, DispSend
  PROVE  FrameInv'
<1>a. /\ disp \in Frames /\ disp' = 0 /\ ready' = Append(ready, disp)
      /\ UNCHANGED <<nodes, par, pc, k, stack, todo, hash, pend, events, built, submitted, parent, pending, wk>>
  BY DEF DispSend, storeVars, mainVars, frameVars
<1>0. /\ N \in Nat /\ N' = N /\ Frames' = Frames /\ Gone' = Gone /\ WkType' = WkType
      /\ (\A i : Leaf(i)' = Leaf(i)) /\ k \in Int /\ Frames \in SUBSET Int /\ 0 \notin Frames /\ Frames = 1 .. N
  BY <1>a, SameNodes, Basics
<1>b. par
  BY <1>0, <1>a DEF FrameInv, SeqInv, Gone
<1>1. disp \notin Waiting(pending) /\ disp \notin Waiting(ready)
  BY <1>a, <1>b DEF FrameInv, PoolInv, QueueInv
<1>2. /\ Waiting(ready') = Waiting(ready) \cup {disp} /\ Distinct(ready') /\ ready' \in Seq(Frames)
  BY <1>a, <1>b, <1>1, WaitAppended DEF FrameInv, WTypes, PoolInv, QueueInv
<1>3. Waiting(pending)' = Waiting(pending) /\ Waiting(ready)' = Waiting(ready) \cup {disp}
      /\ Distinct(ready)' /\ Distinct(pending)' = Distinct(pending)
  BY <1>a, <1>2 DEF Waiting, Distinct
<1>4. \A f \in Frames : /\ Done(f)' <=> Done(f)
                        /\ Open(f)' <=> Open(f)
                        /\ Held(f)' <=> Held(f)
                        /\ Queued(f)' <=> Queued(f)
  BY <1>0, <1>a, <1>3 DEF Done, Open, Held, Queued
<1>5. QueueInv'
  <2>1. \A f \in Waiting(pending) \cup Waiting(ready) \cup {disp} : f # 0
    <3>1. Waiting(pending) \subseteq Frames /\ Waiting(ready) \subseteq Frames
      BY WaitIn DEF FrameInv, WTypes
    <3>. QED BY <1>0, <1>a, <3>1
  <2>. QED BY <1>0, <1>a, <1>b, <1>1, <1>3, <1>4, <2>1 DEF FrameInv, PoolInv, QueueInv
<1>6. HashInv' /\ HeldInv' /\ WorkerInv'
  BY <1>0, <1>a, <1>b DEF FrameInv, PoolInv, HashInv, HeldInv, WorkerInv
<1>7. EnqueueInv'
  BY <1>0, <1>a, <1>b, <1>4 DEF FrameInv, WTypes, Mid, PoolInv, EnqueueInv
<1>8. PoolInv' /\ disp' \in 0 .. N + 1
  BY <1>0, <1>a, <1>5, <1>6, <1>7 DEF PoolInv
<1>9. pending' \in Seq(Frames) /\ wk' \in WkType
  BY <1>a DEF FrameInv, WTypes
<1>. QED BY <1>a, <1>b, <1>2, <1>4, <1>8, <1>9, PoolStep

(* What an assignment to one worker does. *)
LEMMA WkSet ==
  ASSUME FrameInv, NEW w \in Workers, NEW r \in [at : Ats, f : 0 .. N, p : 0 .. N], wk' = [wk EXCEPT ![w] = r]
  PROVE  wk' \in WkType /\ wk'[w] = r /\ \A x \in Workers : x # w => wk'[x] = wk[x]
BY DEF FrameInv, WTypes, WkType

LEMMA WkGoes ==
  ASSUME FrameInv, NEW w \in Workers, NEW a \in Ats, Goes(w, a)
  PROVE  /\ wk' \in WkType /\ wk'[w].at = a /\ wk'[w].f = wk[w].f /\ wk'[w].p = wk[w].p
         /\ \A x \in Workers : x # w => wk'[x] = wk[x]
<1>. DEFINE r == [wk[w] EXCEPT !.at = a]
<1>1. wk \in WkType
  BY DEF FrameInv, WTypes
<1>2. wk[w] \in [at : Ats, f : 0 .. N, p : 0 .. N]
  BY <1>1 DEF WkType
<1>3. r \in [at : Ats, f : 0 .. N, p : 0 .. N] /\ r.at = a /\ r.f = wk[w].f /\ r.p = wk[w].p
  BY <1>2
<1>4. wk' = [wk EXCEPT ![w] = r]
  BY DEF Goes
<1>. HIDE DEF r
<1>. QED BY <1>3, <1>4, WkSet

LEMMA WorkerTakeStep ==
  ASSUME FrameInv, NEW w \in Workers, WorkerTake(w)
  PROVE  FrameInv'
<1>a. /\ wk[w].at = "idle"
      /\ UNCHANGED <<nodes, par, pc, k, stack, todo, hash, pend, events, built, submitted, parent, pending, disp>>
  BY DEF WorkerTake, storeVars, mainVars, frameVars
<1>b. par
  BY <1>a DEF FrameInv, SeqInv
<1>0. /\ N \in Nat /\ N' = N /\ Frames' = Frames /\ Gone' = Gone /\ WkType' = WkType
      /\ (\A i : Leaf(i)' = Leaf(i)) /\ k \in Int /\ Frames \in SUBSET Int /\ 0 \notin Frames /\ Frames = 1 .. N
  BY <1>a, SameNodes, Basics
<1>1. CASE ready = <<>> /\ Goes(w, "gone") /\ UNCHANGED ready
  <2>1. /\ wk' \in WkType /\ wk'[w].at = "gone" /\ wk'[w].f = wk[w].f /\ wk'[w].p = wk[w].p
        /\ \A x \in Workers : x # w => wk'[x] = wk[x]
    BY <1>1, WkGoes DEF Ats
  <2>2. \A x \in Workers : wk'[x].f = wk[x].f /\ wk'[x].p = wk[x].p /\ Nearly(wk[x].at, wk'[x].at)
    BY <1>a, <2>1 DEF Nearly
  <2>. QED BY <1>a, <1>1, <2>1, <2>2, CalmStep
<1>2. CASE /\ ready # <<>> /\ ready' = Tail(ready)
           /\ wk' = [wk EXCEPT ![w] = [at |-> "hash", f |-> Head(ready), p |-> 0]]
  <2>0. PICK h \in Frames : h = Head(ready)
    BY <1>2 DEF FrameInv, WTypes
  <2>1. /\ h \in Waiting(ready) /\ Waiting(ready') = Waiting(ready) \ {h} /\ Distinct(ready')
        /\ ready' \in Seq(Frames)
    BY <1>b, <1>2, <2>0, WaitTail DEF FrameInv, WTypes, PoolInv, QueueInv
  <2>2. /\ wk' \in WkType /\ wk'[w].at = "hash" /\ wk'[w].f = h /\ wk'[w].p = 0
        /\ \A x \in Workers : x # w => wk'[x] = wk[x]
    <3>. DEFINE r == [at |-> "hash", f |-> h, p |-> 0]
    <3>1. r \in [at : Ats, f : 0 .. N, p : 0 .. N] /\ r.at = "hash" /\ r.f = h /\ r.p = 0
      BY <1>0 DEF Ats
    <3>2. wk' = [wk EXCEPT ![w] = r]
      BY <1>2, <2>0
    <3>. HIDE DEF r
    <3>. QED BY <3>1, <3>2, WkSet
  <2>3. Queued(h) /\ submitted[h] /\ hash[h] = "none" /\ ~Held(h) /\ h \notin Waiting(pending) /\ disp # h /\ h # 0
    <3>1. Queued(h) /\ h # 0
      BY <1>0, <2>1 DEF Queued
    <3>. QED BY <1>b, <2>1, <3>1 DEF FrameInv, PoolInv, QueueInv
  <2>4. wk[w].f = 0
    BY <1>a, <1>b DEF FrameInv, PoolInv, WorkerInv
  <2>5. Waiting(ready)' = Waiting(ready) \ {h} /\ Waiting(pending)' = Waiting(pending)
    BY <1>a, <2>1 DEF Waiting
  <2>6. Distinct(ready)' /\ Distinct(pending)' = Distinct(pending)
    BY <1>a, <2>1 DEF Distinct
  <2>7. \A f \in Frames : /\ Done(f)' <=> Done(f)
                          /\ Open(f)' <=> Open(f)
                          /\ Held(f)' <=> Held(f) \/ f = h
                          /\ Queued(f)' <=> Queued(f) /\ f # h
    <3>1. \A f \in Frames : wk[w].f # f
      BY <1>0, <2>4
    <3>2. ASSUME NEW f \in Frames PROVE Done(f)' <=> Done(f)
      BY <1>a, <2>2, <2>3, <3>1 DEF Done, Late
    <3>3. ASSUME NEW f \in Frames PROVE Open(f)' <=> Open(f)
      BY <1>a, <2>2, <3>1 DEF Open
    <3>4. ASSUME NEW f \in Frames PROVE Held(f)' <=> Held(f) \/ f = h
      BY <2>2, <3>1 DEF Held
    <3>5. ASSUME NEW f \in Frames PROVE Queued(f)' <=> Queued(f) /\ f # h
      BY <1>a, <2>3, <2>5 DEF Queued
    <3>. QED BY <3>2, <3>3, <3>4, <3>5
  <2>8. QueueInv'
    BY <1>0, <1>a, <1>b, <2>5, <2>6, <2>7 DEF FrameInv, PoolInv, QueueInv
  <2>9. HashInv'
    BY <1>0, <1>a, <1>b DEF FrameInv, PoolInv, HashInv
  <2>10. HeldInv'
    <3>1. \A x \in Workers : wk[x].f # h
      BY <2>3 DEF Held
    <3>. QED BY <1>b, <2>2, <3>1 DEF FrameInv, PoolInv, HeldInv
  <2>11. WorkerInv'
    BY <1>a, <1>b, <2>2, <2>3 DEF FrameInv, PoolInv, WorkerInv
  <2>12. EnqueueInv'
    <3>. SUFFICES ASSUME pc = "enqueue" PROVE submitted[k] /\ hash[k] = "none" /\ ~Queued(k)' /\ ~Held(k)'
      BY <1>a DEF EnqueueInv, Queued, Held
    <3>1. k \in Frames /\ submitted[k] /\ hash[k] = "none" /\ ~Queued(k) /\ ~Held(k)
      BY <1>b DEF FrameInv, WTypes, Mid, PoolInv, EnqueueInv
    <3>2. PICK x \in Frames : x = k /\ x = k'
      BY <1>a, <3>1
    <3>3. ~Queued(x)' /\ ~Held(x)'
      BY <2>3, <2>7, <3>1, <3>2
    <3>4. (Queued(k)' <=> Queued(x)') /\ (Held(k)' <=> Held(x)')
      BY <3>2 DEF Queued, Held
    <3>. QED BY <3>1, <3>3, <3>4
  <2>13. PoolInv'
    BY <2>8, <2>9, <2>10, <2>11, <2>12 DEF PoolInv
  <2>14. pending' \in Seq(Frames) /\ disp' \in 0 .. N + 1
    BY <1>a DEF FrameInv, WTypes
  <2>. QED BY <1>a, <1>b, <2>1, <2>2, <2>7, <2>13, <2>14, PoolStep
<1>. QED BY <1>1, <1>2 DEF WorkerTake

(* A step of one worker that keeps its frame: the queues and who holds     *)
(* what are the same.                                                      *)
LEMMA KeepsFrame ==
  ASSUME FrameInv, par, NEW w \in Workers,
         UNCHANGED <<nodes, par, pc, k, stack, todo, parent, ready, disp>>,
         wk' \in WkType, wk'[w].f = wk[w].f, \A x \in Workers : x # w => wk'[x] = wk[x]
  PROVE  /\ N \in Nat /\ N' = N /\ Frames' = Frames /\ Gone' = Gone /\ WkType' = WkType
         /\ (\A i : Leaf(i)' = Leaf(i)) /\ k \in Int /\ Frames \in SUBSET Int /\ 0 \notin Frames /\ Frames = 1 .. N
         /\ StackInv'
         /\ \A f : Held(f)' <=> Held(f)
         /\ \A f : (Begun(f)' <=> Begun(f)) /\ (Linked(f)' <=> Linked(f))
         /\ HeldInv'
<1>1. /\ N \in Nat /\ N' = N /\ Frames' = Frames /\ Gone' = Gone /\ WkType' = WkType
      /\ (\A i : Leaf(i)' = Leaf(i)) /\ k \in Int /\ Frames \in SUBSET Int /\ 0 \notin Frames /\ Frames = 1 .. N
  BY SameNodes, Basics
<1>2. StackInv'
  BY <1>1 DEF FrameInv, StackInv, Waiting, Rising
<1>3. \A x \in Workers : wk'[x].f = wk[x].f
  OBVIOUS
<1>4. \A f : Held(f)' <=> Held(f)
  BY <1>3 DEF Held
<1>5. \A f : (Begun(f)' <=> Begun(f)) /\ (Linked(f)' <=> Linked(f))
  BY DEF Begun, Linked, Waiting
<1>6. HeldInv'
  BY <1>3 DEF FrameInv, PoolInv, HeldInv
<1>. QED BY <1>1, <1>2, <1>4, <1>5, <1>6

LEMMA HashFrameStep ==
  ASSUME FrameInv, NEW w \in Workers, HashFrame(w)
  PROVE  FrameInv'
<1>a. /\ wk[w].at = "hash" /\ Goes(w, "root")
      /\ UNCHANGED <<nodes, par, pc, k, stack, todo, pend, events, built, submitted, parent, pending, ready, disp>>
  BY DEF HashFrame, storeVars, mainVars, queueVars
<1>b. par
  BY <1>a DEF FrameInv, SeqInv
<1>c. PICK h \in Frames : h = wk[w].f /\ submitted[h] /\ Held(h) /\ hash[h] = "none" /\ ~Queued(h)
  <2>1. wk[w].f \in Frames /\ submitted[wk[w].f] /\ Held(wk[w].f) /\ wk[w].f # 0
    BY <1>a, <1>b, Holding
  <2>2. hash[wk[w].f] = "none" /\ ~Queued(wk[w].f)
    BY <1>a, <1>b, <2>1 DEF FrameInv, PoolInv, WorkerInv, QueueInv
  <2>. QED BY <2>1, <2>2
<1>d. hash' = [hash EXCEPT ![h] = "right"]
  <2>1. \A c \in Children(h) : hash[c] = "right"
    BY <1>b, <1>c, ChildrenDone DEF Children
  <2>. QED BY <1>c, <2>1 DEF HashFrame
<1>e. /\ wk' \in WkType /\ wk'[w].at = "root" /\ wk'[w].f = wk[w].f /\ wk'[w].p = wk[w].p
      /\ \A x \in Workers : x # w => wk'[x] = wk[x]
  BY <1>a, WkGoes DEF Ats
<1>0. /\ N \in Nat /\ N' = N /\ Frames' = Frames /\ Gone' = Gone /\ WkType' = WkType
      /\ (\A i : Leaf(i)' = Leaf(i)) /\ k \in Int /\ Frames \in SUBSET Int /\ 0 \notin Frames /\ Frames = 1 .. N
      /\ StackInv'
      /\ \A f : Held(f)' <=> Held(f)
      /\ \A f : (Begun(f)' <=> Begun(f)) /\ (Linked(f)' <=> Linked(f))
      /\ HeldInv'
  BY <1>a, <1>b, <1>e, KeepsFrame
<1>1. hash' \in [Frames -> {"none", "right", "wrong"}] /\ hash'[h] = "right" /\ \A f \in Frames : f # h => hash'[f] = hash[f]
  BY <1>d DEF FrameInv, WTypes
<1>2. \A x \in Workers : wk[x].f = h => x = w
  BY <1>0, <1>b, <1>c DEF FrameInv, PoolInv, HeldInv
<1>3. \A f \in Frames : /\ Done(f)' <=> Done(f)
                        /\ Open(f)' <=> Open(f)
                        /\ Queued(f)' <=> Queued(f)
  <2>1. ASSUME NEW f \in Frames PROVE Done(f)' <=> Done(f)
    <3>1. CASE f = h
      BY <1>a, <1>c, <1>e, <3>1 DEF Done, Late
    <3>2. CASE f # h
      BY <1>1, <1>c, <1>e, <3>2 DEF Done
    <3>. QED BY <3>1, <3>2
  <2>2. \A f \in Frames : Open(f)' <=> Open(f)
    BY <1>a, <1>e DEF Open
  <2>3. \A f \in Frames : Queued(f)' <=> Queued(f)
    BY <1>a DEF Queued, Waiting
  <2>. QED BY <2>1, <2>2, <2>3
<1>4. WTypes'
  BY <1>0, <1>1, <1>a, <1>e DEF FrameInv, WTypes
<1>5. TodoInv'
  BY <1>0, <1>a DEF FrameInv, TodoInv, Waiting, Distinct
<1>6. TreeInv'
  <2>1. ParentInv'
    BY <1>0, <1>a, <1>b DEF FrameInv, TreeInv, ParentInv
  <2>2. PendInv'
    <3>. SUFFICES ASSUME NEW p \in Frames, Begun(p)', ~Leaf(p)
                  PROVE \E a, b \in Frames : Pair(p, a, b)' /\ pend'[p] = Bit(Open(a)') + Bit(Open(b)')
      BY <1>0 DEF PendInv, Bit
    <3>. QED BY <1>0, <1>a, <1>b, <1>3, PendSame
  <2>3. BuiltInv' /\ SubmittedInv'
    BY <1>0, <1>a, <1>b DEF FrameInv, TreeInv, BuiltInv, SubmittedInv
  <2>4. EventsInv'
    BY <1>0, <1>a, <1>b, <1>3 DEF FrameInv, TreeInv, EventsInv, Bit
  <2>. QED BY <2>1, <2>2, <2>3, <2>4 DEF TreeInv
<1>7. PoolInv'
  <2>1. QueueInv'
    <3>1. Waiting(pending)' = Waiting(pending) /\ Waiting(ready)' = Waiting(ready)
          /\ Distinct(pending)' = Distinct(pending) /\ Distinct(ready)' = Distinct(ready)
      BY <1>a DEF Waiting, Distinct
    <3>2. \A f \in Frames : Queued(f) => hash'[f] = "none"
      BY <1>b, <1>c, <1>1 DEF FrameInv, PoolInv, QueueInv
    <3>. QED BY <1>0, <1>a, <1>b, <1>3, <3>1, <3>2 DEF FrameInv, PoolInv, QueueInv
  <2>2. HashInv'
    BY <1>0, <1>a, <1>b, <1>c, <1>1 DEF FrameInv, PoolInv, HashInv
  <2>3. EnqueueInv'
    <3>1. pc = "enqueue" => k # h /\ k \in Frames
      BY <1>b, <1>c DEF FrameInv, PoolInv, EnqueueInv, WTypes, Mid
    <3>. QED BY <1>0, <1>a, <1>b, <1>1, <1>3, <3>1 DEF FrameInv, PoolInv, EnqueueInv
  <2>4. WorkerInv'
    <3>1. \A x \in Workers : x # w /\ wk[x].f # 0 => wk[x].f \in Frames /\ wk[x].f # h
      <4>1. \A x \in Workers : wk[x].f \in 0 .. N
        BY DEF FrameInv, WTypes, WkType
      <4>. QED BY <1>0, <1>2, <4>1
    <3>2. \A x \in Workers : x # w /\ wk[x].f # 0 => hash'[wk[x].f] = hash[wk[x].f]
      BY <1>1, <3>1
    <3>. QED BY <1>0, <1>a, <1>b, <1>c, <1>e, <1>1, <3>2 DEF FrameInv, PoolInv, WorkerInv
  <2>. QED BY <1>0, <2>1, <2>2, <2>3, <2>4 DEF PoolInv
<1>. QED BY <1>0, <1>a, <1>b, <1>4, <1>5, <1>6, <1>7 DEF FrameInv

LEMMA HashDoneStep ==
  ASSUME FrameInv, NEW w \in Workers, HashDone(w)
  PROVE  FrameInv'
<1>a. /\ wk[w].at = "event" /\ events' = [events EXCEPT ![wk[w].f] = @ + 1]
      /\ UNCHANGED <<nodes, par, pc, k, stack, todo, hash, pend, built, submitted, parent, pending, ready, disp>>
  BY DEF HashDone, storeVars, mainVars, queueVars
<1>b. par
  BY <1>a DEF FrameInv, SeqInv
<1>c. PICK h \in Frames : h = wk[w].f /\ submitted[h] /\ Held(h) /\ hash[h] # "none"
  <2>1. wk[w].f \in Frames /\ submitted[wk[w].f] /\ Held(wk[w].f) /\ wk[w].f # 0
    BY <1>a, <1>b, Holding
  <2>2. hash[wk[w].f] # "none"
    BY <1>a, <1>b, <2>1 DEF FrameInv, PoolInv, WorkerInv
  <2>. QED BY <2>1, <2>2
<1>1. ~Done(h) /\ events[h] = Bit(Linked(h)) /\ events[h] \in Int
  <2>1. ~Done(h)
    BY <1>a, <1>c DEF Done, Late
  <2>. QED BY <1>b, <2>1 DEF FrameInv, TreeInv, EventsInv, Bit
<1>2. /\ events' \in [Frames -> Int] /\ events'[h] = events[h] + 1
      /\ \A f \in Frames : f # h => events'[f] = events[f]
  <2>1. events \in [Frames -> Int]
    BY DEF FrameInv, WTypes
  <2>. QED BY <1>a, <1>c, <1>1, <2>1
<1>3. events'[h] = 2 <=> Linked(h)
  BY <1>1, <1>2 DEF Bit
<1>e. /\ wk' \in WkType /\ wk'[w].f = wk[w].f
      /\ wk'[w].at = (IF Linked(h) THEN "dec" ELSE "done") /\ (Linked(h) => wk'[w].p = parent[h])
      /\ \A x \in Workers : x # w => wk'[x] = wk[x]
  <2>. DEFINE a == IF Linked(h) THEN "dec" ELSE "done"
              q == IF Linked(h) THEN parent[h] ELSE 0
              r == [wk[w] EXCEPT !.at = a, !.p = q]
  <2>1. wk[w] \in [at : Ats, f : 0 .. N, p : 0 .. N]
    BY <1>b, Holding
  <2>2. a \in Ats /\ q \in 0 .. N
    BY Basics DEF FrameInv, WTypes, Ats
  <2>3. wk' = [wk EXCEPT ![w] = r]
    BY <1>c, <1>3 DEF HashDone
  <2>. HIDE DEF a, q
  <2>4. r \in [at : Ats, f : 0 .. N, p : 0 .. N] /\ r.at = a /\ r.f = wk[w].f /\ r.p = q
    BY <2>1, <2>2
  <2>. HIDE DEF r
  <2>5. wk' \in WkType /\ wk'[w] = r /\ \A x \in Workers : x # w => wk'[x] = wk[x]
    BY <2>3, <2>4, WkSet
  <2>. QED BY <2>4, <2>5 DEF a, q
<1>0. /\ N \in Nat /\ N' = N /\ Frames' = Frames /\ Gone' = Gone /\ WkType' = WkType
      /\ (\A i : Leaf(i)' = Leaf(i)) /\ k \in Int /\ Frames \in SUBSET Int /\ 0 \notin Frames /\ Frames = 1 .. N
      /\ StackInv'
      /\ \A f : Held(f)' <=> Held(f)
      /\ \A f : (Begun(f)' <=> Begun(f)) /\ (Linked(f)' <=> Linked(f))
      /\ HeldInv'
  BY <1>a, <1>b, <1>e, KeepsFrame
<1>4. \A x \in Workers : wk[x].f = h => x = w
  BY <1>0, <1>b, <1>c DEF FrameInv, PoolInv, HeldInv
<1>5. \A f \in Frames : /\ Done(f)' <=> Done(f) \/ f = h
                        /\ Open(f)' <=> Open(f)
                        /\ Queued(f)' <=> Queued(f)
  <2>1. ASSUME NEW f \in Frames PROVE Done(f)' <=> Done(f) \/ f = h
    <3>1. CASE f = h
      <4>1. wk'[w].at \in Late
        BY <1>e DEF Late
      <4>. QED BY <1>a, <1>c, <1>e, <1>4, <3>1, <4>1 DEF Done
    <3>2. CASE f # h
      BY <1>a, <1>c, <1>e, <3>2 DEF Done
    <3>. QED BY <3>1, <3>2
  <2>2. ASSUME NEW f \in Frames PROVE Open(f)' <=> Open(f)
    <3>1. CASE f = h
      <4>1. Open(h)
        BY <1>1 DEF Open, Bit
      <4>2. CASE Linked(h)
        BY <1>c, <1>e, <3>1, <4>1, <4>2 DEF Open
      <4>3. CASE ~Linked(h)
        <5>1. events'[h] < 2
          BY <1>1, <1>2, <4>3 DEF Bit
        <5>. QED BY <3>1, <4>1, <5>1 DEF Open
      <4>. QED BY <4>2, <4>3
    <3>2. CASE f # h
      BY <1>c, <1>e, <1>2, <3>2 DEF Open
    <3>. QED BY <3>1, <3>2
  <2>3. \A f \in Frames : Queued(f)' <=> Queued(f)
    BY <1>a DEF Queued, Waiting
  <2>. QED BY <2>1, <2>2, <2>3
<1>6. WTypes'
  BY <1>0, <1>a, <1>2, <1>e DEF FrameInv, WTypes
<1>7. TodoInv'
  BY <1>0, <1>a DEF FrameInv, TodoInv, Waiting, Distinct
<1>8. TreeInv'
  <2>1. ParentInv'
    BY <1>0, <1>a, <1>b DEF FrameInv, TreeInv, ParentInv
  <2>2. PendInv'
    <3>. SUFFICES ASSUME NEW p \in Frames, Begun(p)', ~Leaf(p)
                  PROVE \E a, b \in Frames : Pair(p, a, b)' /\ pend'[p] = Bit(Open(a)') + Bit(Open(b)')
      BY <1>0 DEF PendInv, Bit
    <3>. QED BY <1>0, <1>a, <1>b, <1>5, PendSame
  <2>3. BuiltInv' /\ SubmittedInv'
    BY <1>0, <1>a, <1>b DEF FrameInv, TreeInv, BuiltInv, SubmittedInv
  <2>4. EventsInv'
    <3>1. ASSUME NEW f \in Frames PROVE events'[f] = Bit(Linked(f)') + Bit(Done(f)')
      <4>1. events[f] = Bit(Linked(f)) + Bit(Done(f))
        BY <1>b DEF FrameInv, TreeInv, EventsInv
      <4>. QED BY <1>0, <1>1, <1>2, <1>5, <4>1 DEF Bit
    <3>. QED BY <1>0, <3>1 DEF EventsInv, Bit
  <2>. QED BY <2>1, <2>2, <2>3, <2>4 DEF TreeInv
<1>9. PoolInv'
  <2>1. QueueInv'
    <3>1. Waiting(pending)' = Waiting(pending) /\ Waiting(ready)' = Waiting(ready)
          /\ Distinct(pending)' = Distinct(pending) /\ Distinct(ready)' = Distinct(ready)
      BY <1>a DEF Waiting, Distinct
    <3>. QED BY <1>0, <1>a, <1>b, <1>5, <3>1 DEF FrameInv, PoolInv, QueueInv
  <2>2. HashInv'
    BY <1>0, <1>a, <1>b DEF FrameInv, PoolInv, HashInv
  <2>3. EnqueueInv'
    BY <1>0, <1>a, <1>b, <1>5 DEF FrameInv, PoolInv, EnqueueInv, WTypes, Mid
  <2>4. WorkerInv'
    <3>1. \A x \in Workers : x # w /\ wk[x].at \in {"dec", "built"} => events'[wk[x].f] = 2
      BY <1>b, <1>2, <1>4, Holding
    <3>2. Linked(h) => parent[h] # 0
      BY DEF Linked
    <3>. QED BY <1>0, <1>a, <1>b, <1>c, <1>e, <1>3, <3>1, <3>2 DEF FrameInv, PoolInv, WorkerInv
  <2>. QED BY <1>0, <2>1, <2>2, <2>3, <2>4 DEF PoolInv
<1>. QED BY <1>0, <1>a, <1>b, <1>6, <1>7, <1>8, <1>9 DEF FrameInv

LEMMA CountOffStep ==
  ASSUME FrameInv, NEW w \in Workers, CountOff(w)
  PROVE  FrameInv'
<1>a. /\ wk[w].at = "dec" /\ pend' = [pend EXCEPT ![wk[w].p] = @ - 1]
      /\ Goes(w, IF pend'[wk[w].p] = 0 THEN "built" ELSE "done")
      /\ UNCHANGED <<nodes, par, pc, k, stack, todo, hash, events, built, submitted, parent, pending, ready, disp>>
  BY DEF CountOff, storeVars, mainVars, queueVars
<1>b. par
  BY <1>a DEF FrameInv, SeqInv
<1>c. PICK h \in Frames, q \in Frames :
        h = wk[w].f /\ q = wk[w].p /\ parent[h] = q /\ events[h] = 2 /\ Begun(q) /\ ~Leaf(q)
  BY <1>a, <1>b, Holding
<1>e. /\ wk' \in WkType /\ wk'[w].at = (IF pend'[q] = 0 THEN "built" ELSE "done")
      /\ wk'[w].f = wk[w].f /\ wk'[w].p = wk[w].p
      /\ \A x \in Workers : x # w => wk'[x] = wk[x]
  BY <1>a, <1>c, WkGoes DEF Ats
<1>0. /\ N \in Nat /\ N' = N /\ Frames' = Frames /\ Gone' = Gone /\ WkType' = WkType
      /\ (\A i : Leaf(i)' = Leaf(i)) /\ k \in Int /\ Frames \in SUBSET Int /\ 0 \notin Frames /\ Frames = 1 .. N
      /\ StackInv'
      /\ \A f : Held(f)' <=> Held(f)
      /\ \A f : (Begun(f)' <=> Begun(f)) /\ (Linked(f)' <=> Linked(f))
      /\ HeldInv'
  BY <1>a, <1>b, <1>e, KeepsFrame
<1>1. pend' \in [Frames -> Int] /\ pend'[q] = pend[q] - 1 /\ \A p \in Frames : p # q => pend'[p] = pend[p]
  <2>1. pend \in [Frames -> Int]
    BY DEF FrameInv, WTypes
  <2>. QED BY <1>a, <1>c, <2>1
<1>2. \A x \in Workers : wk[x].f = h => x = w
  BY <1>0, <1>b, <1>c DEF FrameInv, PoolInv, HeldInv
<1>3. /\ \A f \in Frames : (Done(f)' <=> Done(f)) /\ (Queued(f)' <=> Queued(f))
      /\ Open(h) /\ ~Open(h)' /\ \A f \in Frames : f # h => (Open(f)' <=> Open(f))
  <2>1. \A f \in Frames : Done(f)' <=> Done(f)
    BY <1>a, <1>e DEF Done, Late
  <2>2. \A f \in Frames : Queued(f)' <=> Queued(f)
    BY <1>a DEF Queued, Waiting
  <2>3. Open(h)
    BY <1>a, <1>c DEF Open
  <2>4. ~Open(h)'
    BY <1>a, <1>c, <1>e, <1>2 DEF Open
  <2>5. \A f \in Frames : f # h => (Open(f)' <=> Open(f))
    BY <1>a, <1>c, <1>e DEF Open
  <2>. QED BY <2>1, <2>2, <2>3, <2>4, <2>5
<1>4. PICK a, b \in Frames : Pair(q, a, b) /\ pend[q] = Bit(Open(a)) + Bit(Open(b))
  BY <1>b, <1>c DEF FrameInv, TreeInv, PendInv
<1>5. h \in {a, b} /\ a # b /\ pend[q] # 0
  <2>1. h \in {a, b} /\ a # b
    BY <1>c, <1>4 DEF Pair
  <2>. QED BY <1>3, <1>4, <2>1 DEF Bit
<1>6. WTypes'
  BY <1>0, <1>a, <1>1, <1>e DEF FrameInv, WTypes
<1>7. TodoInv'
  BY <1>0, <1>a DEF FrameInv, TodoInv, Waiting, Distinct
<1>8. TreeInv'
  <2>1. ParentInv'
    BY <1>0, <1>a, <1>b DEF FrameInv, TreeInv, ParentInv
  <2>2. PendInv'
    <3>. SUFFICES ASSUME NEW p \in Frames, Begun(p)', ~Leaf(p)
                  PROVE \E c, d \in Frames : Pair(p, c, d)' /\ pend'[p] = Bit(Open(c)') + Bit(Open(d)')
      BY <1>0 DEF PendInv, Bit
    <3>1. CASE p = q
      <4>1. Pair(q, a, b)'
        BY <1>0, <1>a, <1>4 DEF Pair
      <4>2. pend'[q] = Bit(Open(a)') + Bit(Open(b)')
        BY <1>1, <1>3, <1>4, <1>5 DEF Bit
      <4>. QED BY <3>1, <4>1, <4>2
    <3>2. CASE p # q
      BY <1>0, <1>a, <1>b, <1>c, <1>1, <1>3, <3>2, PendSame
    <3>. QED BY <3>1, <3>2
  <2>3. BuiltInv'
    BY <1>0, <1>a, <1>b DEF FrameInv, TreeInv, BuiltInv
  <2>4. SubmittedInv'
    <3>1. ~submitted[q]
      BY <1>b, <1>c, <1>5 DEF FrameInv, TreeInv, SubmittedInv
    <3>. QED BY <1>0, <1>a, <1>b, <1>1, <3>1 DEF FrameInv, TreeInv, SubmittedInv
  <2>5. EventsInv'
    BY <1>0, <1>a, <1>b, <1>3 DEF FrameInv, TreeInv, EventsInv, Bit
  <2>. QED BY <2>1, <2>2, <2>3, <2>4, <2>5 DEF TreeInv
<1>9. PoolInv'
  <2>1. QueueInv'
    <3>1. Waiting(pending)' = Waiting(pending) /\ Waiting(ready)' = Waiting(ready)
          /\ Distinct(pending)' = Distinct(pending) /\ Distinct(ready)' = Distinct(ready)
      BY <1>a DEF Waiting, Distinct
    <3>. QED BY <1>0, <1>a, <1>b, <1>3, <3>1 DEF FrameInv, PoolInv, QueueInv
  <2>2. HashInv'
    BY <1>0, <1>a, <1>b DEF FrameInv, PoolInv, HashInv
  <2>3. EnqueueInv'
    BY <1>0, <1>a, <1>b, <1>3 DEF FrameInv, PoolInv, EnqueueInv, WTypes, Mid
  <2>4. WorkerInv'
    <3>1. \A x \in Workers : wk[x].at = "built" => pend'[wk[x].p] = 0
      <4>. SUFFICES ASSUME NEW x \in Workers, wk[x].at = "built" PROVE pend'[wk[x].p] = 0
        OBVIOUS
      <4>1. wk[x].p \in Frames
        BY <1>b, Holding
      <4>2. pend[wk[x].p] = 0
        BY <1>b DEF FrameInv, PoolInv, WorkerInv
      <4>. QED BY <1>1, <1>5, <4>1, <4>2
    <3>. QED BY <1>0, <1>a, <1>b, <1>c, <1>e, <3>1 DEF FrameInv, PoolInv, WorkerInv
  <2>. QED BY <1>0, <2>1, <2>2, <2>3, <2>4 DEF PoolInv
<1>. QED BY <1>0, <1>a, <1>b, <1>6, <1>7, <1>8, <1>9 DEF FrameInv

LEMMA PromoteStep ==
  ASSUME FrameInv, NEW w \in Workers, Promote(w)
  PROVE  FrameInv'
<1>a. /\ wk[w].at = "built" /\ Goes(w, "done")
      /\ UNCHANGED <<nodes, par, pc, k, stack, todo, hash, pend, events, built, parent, ready, disp>>
  BY DEF Promote, storeVars, mainVars
<1>b. par
  BY <1>a DEF FrameInv, SeqInv
<1>c. PICK q \in Frames : q = wk[w].p /\ Begun(q) /\ ~Leaf(q) /\ pend[q] = 0
  <2>1. wk[w].p \in Frames /\ Begun(wk[w].p) /\ ~Leaf(wk[w].p)
    BY <1>a, <1>b, Holding
  <2>2. pend[wk[w].p] = 0
    BY <1>a, <1>b DEF FrameInv, PoolInv, WorkerInv
  <2>. QED BY <2>1, <2>2
<1>e. /\ wk' \in WkType /\ wk'[w].at = "done" /\ wk'[w].f = wk[w].f /\ wk'[w].p = wk[w].p
      /\ \A x \in Workers : x # w => wk'[x] = wk[x]
  BY <1>a, WkGoes DEF Ats
<1>0. /\ N \in Nat /\ N' = N /\ Frames' = Frames /\ Gone' = Gone /\ WkType' = WkType
      /\ (\A i : Leaf(i)' = Leaf(i)) /\ k \in Int /\ Frames \in SUBSET Int /\ 0 \notin Frames /\ Frames = 1 .. N
      /\ StackInv'
      /\ \A f : Held(f)' <=> Held(f)
      /\ \A f : (Begun(f)' <=> Begun(f)) /\ (Linked(f)' <=> Linked(f))
      /\ HeldInv'
  BY <1>a, <1>b, <1>e, KeepsFrame
<1>1. \A f \in Frames : (Done(f)' <=> Done(f)) /\ (Open(f)' <=> Open(f))
  BY <1>a, <1>e DEF Done, Open, Late
<1>2. WorkerInv' <=> \A x \in Workers : wk[x].f # 0 => submitted'[wk[x].f]
  BY <1>a, <1>b, <1>e DEF FrameInv, PoolInv, WorkerInv
<1>3. CASE UNCHANGED <<submitted, pending>>
  <2>1. \A f : Queued(f)' <=> Queued(f)
    BY <1>a, <1>3 DEF Queued, Waiting
  <2>2. Waiting(pending)' = Waiting(pending) /\ Waiting(ready)' = Waiting(ready)
        /\ Distinct(pending)' = Distinct(pending) /\ Distinct(ready)' = Distinct(ready)
    BY <1>a, <1>3 DEF Waiting, Distinct
  <2>3. QueueInv'
    BY <1>0, <1>a, <1>b, <1>3, <2>1, <2>2 DEF FrameInv, PoolInv, QueueInv
  <2>4. HashInv' /\ WorkerInv'
    BY <1>0, <1>a, <1>b, <1>2, <1>3 DEF FrameInv, PoolInv, HashInv, WorkerInv
  <2>5. EnqueueInv'
    BY <1>0, <1>a, <1>b, <1>3, <2>1 DEF FrameInv, PoolInv, EnqueueInv
  <2>6. PoolInv'
    BY <1>0, <2>3, <2>4, <2>5 DEF PoolInv
  <2>7. pending' \in Seq(Frames) /\ ready' \in Seq(Frames) /\ disp' \in 0 .. N + 1
    BY <1>a, <1>3 DEF FrameInv, WTypes
  <2>. QED BY <1>a, <1>b, <1>e, <1>1, <1>3, <2>6, <2>7, PoolStep
<1>4. CASE built[q] /\ ~submitted[q] /\ submitted' = [submitted EXCEPT ![q] = TRUE] /\ pending' = Append(pending, q)
  <2>1. ~Queued(q) /\ ~Held(q) /\ hash[q] = "none"
    <3>1. ~Queued(q) /\ hash[q] = "none"
      BY <1>b, <1>4 DEF FrameInv, PoolInv, QueueInv, HashInv
    <3>2. ~Held(q)
      BY <1>0, <1>b, <1>4 DEF FrameInv, PoolInv, WorkerInv, Held
    <3>. QED BY <3>1, <3>2
  <2>2. /\ submitted' \in [Frames -> BOOLEAN] /\ submitted'[q]
        /\ \A f \in Frames : f # q => submitted'[f] = submitted[f]
    BY <1>4 DEF FrameInv, WTypes
  <2>3. Waiting(pending') = Waiting(pending) \cup {q} /\ pending' \in Seq(Frames) /\ Distinct(pending')
    BY <1>b, <1>4, <2>1, WaitAppended DEF FrameInv, WTypes, PoolInv, QueueInv, Queued
  <2>4. Waiting(pending)' = Waiting(pending) \cup {q} /\ Waiting(ready)' = Waiting(ready)
    BY <1>a, <2>3 DEF Waiting
  <2>5. Distinct(pending)' /\ Distinct(ready)' = Distinct(ready)
    BY <1>a, <2>3 DEF Distinct
  <2>6. \A f \in Frames : Queued(f)' <=> Queued(f) \/ f = q
    BY <1>a, <2>4 DEF Queued
  <2>7. WTypes'
    BY <1>0, <1>a, <1>e, <2>2, <2>3 DEF FrameInv, WTypes
  <2>8. TodoInv'
    BY <1>0, <1>a DEF FrameInv, TodoInv, Waiting, Distinct
  <2>9. TreeInv'
    <3>1. ParentInv'
      BY <1>0, <1>a, <1>b DEF FrameInv, TreeInv, ParentInv
    <3>2. PendInv'
      <4>. SUFFICES ASSUME NEW p \in Frames, Begun(p)', ~Leaf(p)
                    PROVE \E a, b \in Frames : Pair(p, a, b)' /\ pend'[p] = Bit(Open(a)') + Bit(Open(b)')
        BY <1>0 DEF PendInv, Bit
      <4>. QED BY <1>0, <1>a, <1>b, <1>1, PendSame
    <3>3. BuiltInv'
      BY <1>0, <1>a, <1>b DEF FrameInv, TreeInv, BuiltInv
    <3>4. SubmittedInv'
      BY <1>0, <1>a, <1>b, <1>c, <1>4, <2>2 DEF FrameInv, TreeInv, SubmittedInv
    <3>5. EventsInv'
      BY <1>0, <1>a, <1>b, <1>1 DEF FrameInv, TreeInv, EventsInv, Bit
    <3>. QED BY <3>1, <3>2, <3>3, <3>4, <3>5 DEF TreeInv
  <2>10. PoolInv'
    <3>1. QueueInv'
      <4>1. q \notin Waiting(ready) /\ disp # q
        BY <2>1 DEF Queued
      <4>2. \A f \in Waiting(pending)' : f \notin Waiting(ready) /\ disp # f
        BY <1>b, <2>4, <4>1 DEF FrameInv, PoolInv, QueueInv
      <4>3. \A f \in Frames : Queued(f)' => submitted'[f] /\ hash[f] = "none" /\ ~Held(f)
        BY <1>b, <2>1, <2>2, <2>6 DEF FrameInv, PoolInv, QueueInv
      <4>4. Distinct(ready) /\ \A f \in Waiting(ready) : disp # f
        BY <1>b DEF FrameInv, PoolInv, QueueInv
      <4>. QED BY <1>0, <1>a, <2>4, <2>5, <4>2, <4>3, <4>4 DEF QueueInv
    <3>2. HashInv'
      BY <1>0, <1>a, <1>b, <2>2 DEF FrameInv, PoolInv, HashInv
    <3>3. EnqueueInv'
      <4>. SUFFICES ASSUME pc = "enqueue" PROVE submitted'[k] /\ hash[k] = "none" /\ ~Queued(k)' /\ ~Held(k)'
        BY <1>a DEF EnqueueInv, Queued, Held
      <4>1. k \in Frames /\ submitted[k] /\ hash[k] = "none" /\ ~Queued(k) /\ ~Held(k)
        BY <1>b DEF FrameInv, WTypes, Mid, PoolInv, EnqueueInv
      <4>2. PICK x \in Frames : x = k /\ x = k'
        BY <1>a, <4>1
      <4>3. ~Queued(x)' /\ ~Held(x)' /\ submitted'[x]
        BY <1>0, <1>4, <2>2, <2>6, <4>1, <4>2
      <4>4. (Queued(k)' <=> Queued(x)') /\ (Held(k)' <=> Held(x)')
        BY <4>2 DEF Queued, Held
      <4>. QED BY <4>1, <4>2, <4>3, <4>4
    <3>4. WorkerInv'
      <4>1. \A x \in Workers : wk[x].f # 0 => wk[x].f \in Frames /\ submitted[wk[x].f]
        <5>1. \A x \in Workers : wk[x].f \in 0 .. N
          BY DEF FrameInv, WTypes, WkType
        <5>2. \A x \in Workers : wk[x].f # 0 => submitted[wk[x].f]
          BY <1>b DEF FrameInv, PoolInv, WorkerInv
        <5>. QED BY <1>0, <5>1, <5>2
      <4>. QED BY <1>2, <2>2, <4>1
    <3>. QED BY <1>0, <3>1, <3>2, <3>3, <3>4 DEF PoolInv
  <2>. QED BY <1>0, <1>a, <1>b, <2>7, <2>8, <2>9, <2>10 DEF FrameInv
<1>. QED BY <1>c, <1>3, <1>4 DEF Promote

LEMMA FrameDoneStep ==
  ASSUME FrameInv, NEW w \in Workers, FrameDone(w)
  PROVE  FrameInv'
<1>a. /\ wk[w].at = "done" /\ wk' = [wk EXCEPT ![w] = [at |-> "idle", f |-> 0, p |-> 0]]
      /\ UNCHANGED <<nodes, par, pc, k, stack, todo, hash, pend, events, built, submitted, parent, pending, ready, disp>>
  BY DEF FrameDone, storeVars, mainVars, frameVars
<1>b. par
  BY <1>a DEF FrameInv, SeqInv
<1>0. /\ N \in Nat /\ N' = N /\ Frames' = Frames /\ Gone' = Gone /\ WkType' = WkType
      /\ (\A i : Leaf(i)' = Leaf(i)) /\ k \in Int /\ Frames \in SUBSET Int /\ 0 \notin Frames /\ Frames = 1 .. N
  BY <1>a, SameNodes, Basics
<1>e. /\ wk' \in WkType /\ wk'[w].at = "idle" /\ wk'[w].f = 0
      /\ \A x \in Workers : x # w => wk'[x] = wk[x]
  <2>. DEFINE r == [at |-> "idle", f |-> 0, p |-> 0]
  <2>1. r \in [at : Ats, f : 0 .. N, p : 0 .. N] /\ r.at = "idle" /\ r.f = 0
    BY <1>0 DEF Ats
  <2>2. wk' = [wk EXCEPT ![w] = r]
    BY <1>a
  <2>. HIDE DEF r
  <2>. QED BY <2>1, <2>2, WkSet
<1>1. \A f \in Frames : /\ Done(f)' <=> Done(f)
                        /\ Open(f)' <=> Open(f)
                        /\ Queued(f)' <=> Queued(f)
                        /\ Held(f)' => Held(f)
  <2>1. \A f \in Frames : f # 0
    BY <1>0
  <2>2. \A f \in Frames : Done(f)' <=> Done(f)
    BY <1>a, <1>e, <2>1 DEF Done, Late
  <2>3. \A f \in Frames : Open(f)' <=> Open(f)
    BY <1>a, <1>e, <2>1 DEF Open
  <2>4. \A f \in Frames : Queued(f)' <=> Queued(f)
    BY <1>a DEF Queued, Waiting
  <2>5. \A f \in Frames : Held(f)' => Held(f)
    BY <1>e, <2>1 DEF Held
  <2>. QED BY <2>2, <2>3, <2>4, <2>5
<1>2. QueueInv'
  <2>1. Waiting(pending)' = Waiting(pending) /\ Waiting(ready)' = Waiting(ready)
        /\ Distinct(pending)' = Distinct(pending) /\ Distinct(ready)' = Distinct(ready)
    BY <1>a DEF Waiting, Distinct
  <2>. QED BY <1>0, <1>a, <1>b, <1>1, <2>1 DEF FrameInv, PoolInv, QueueInv
<1>3. HashInv' /\ HeldInv'
  BY <1>0, <1>a, <1>b, <1>e DEF FrameInv, PoolInv, HashInv, HeldInv
<1>4. EnqueueInv'
  <2>. SUFFICES ASSUME pc = "enqueue" PROVE submitted[k] /\ hash[k] = "none" /\ ~Queued(k)' /\ ~Held(k)'
    BY <1>a DEF EnqueueInv, Queued, Held
  <2>1. k \in Frames /\ submitted[k] /\ hash[k] = "none" /\ ~Queued(k) /\ ~Held(k)
    BY <1>b DEF FrameInv, WTypes, Mid, PoolInv, EnqueueInv
  <2>2. PICK x \in Frames : x = k /\ x = k'
    BY <1>a, <2>1
  <2>3. ~Queued(x)' /\ ~Held(x)'
    BY <1>1, <2>1, <2>2
  <2>4. (Queued(k)' <=> Queued(x)') /\ (Held(k)' <=> Held(x)')
    BY <2>2 DEF Queued, Held
  <2>. QED BY <2>1, <2>3, <2>4
<1>5. WorkerInv'
  BY <1>a, <1>b, <1>e DEF FrameInv, PoolInv, WorkerInv
<1>6. PoolInv'
  BY <1>2, <1>3, <1>4, <1>5 DEF PoolInv
<1>7. pending' \in Seq(Frames) /\ ready' \in Seq(Frames) /\ disp' \in 0 .. N + 1
  BY <1>a DEF FrameInv, WTypes
<1>. QED BY <1>a, <1>b, <1>e, <1>1, <1>6, <1>7, PoolStep

-----------------------------------------------------------------------------

LEMMA FrameStep ==
  ASSUME FrameInv, [Next]_vars
  PROVE  FrameInv'
<1>0. wk \in WkType
  BY DEF FrameInv, WTypes
<1>1. CASE Malformed \/ FastFails \/ FastRefused \/ SetFastSeq \/ StreamEnds \/ FinishStreaming \/ Join
           \/ FinalizeStore \/ Drain
           \/ Writer \/ Commit \/ UNCHANGED vars
  <2>1. UNCHANGED <<nodes, par, k, stack, todo, hash, pend, events, built, submitted, parent, pending, ready, disp, wk>>
    BY <1>1 DEF Malformed, FastFails, FastRefused, SetFastSeq, StreamEnds, FinishStreaming, Join, FinalizeStore,
               Drain, Writer, WriterSet,
               WriterExit, Commit, vars, storeVars, mainVars, frameVars, queueVars
  <2>2. pc' = pc \/ (pc \in Quiet /\ pc' \in Quiet)
    BY <1>1 DEF Malformed, FastFails, FastRefused, SetFastSeq, StreamEnds, FinishStreaming, Join, FinalizeStore,
               Drain, Writer, WriterSet,
               WriterExit, Commit, vars, Adding, Fails, Quiet
  <2>3. \A x \in Workers : wk'[x].f = wk[x].f /\ wk'[x].p = wk[x].p /\ Nearly(wk[x].at, wk'[x].at)
    BY <2>1 DEF Nearly
  <2>. QED BY <1>0, <2>1, <2>2, <2>3, CalmStep
<1>2. CASE DispExit
  <2>1. /\ UNCHANGED <<nodes, par, k, stack, todo, hash, pend, events, built, submitted, parent, pending, ready, wk, pc>>
        /\ disp = 0 /\ disp' = Gone
    BY <1>2 DEF DispExit, storeVars, mainVars, frameVars
  <2>2. \A x \in Workers : wk'[x].f = wk[x].f /\ wk'[x].p = wk[x].p /\ Nearly(wk[x].at, wk'[x].at)
    BY <2>1 DEF Nearly
  <2>. QED BY <1>0, <2>1, <2>2, CalmStep
<1>3. ASSUME NEW w \in Workers, KeepRoot(w) \/ PushWrite(w) PROVE FrameInv'
  <2>1. /\ UNCHANGED <<nodes, par, k, stack, todo, hash, pend, events, built, submitted, parent, pending, ready, disp, pc>>
        /\ \/ wk[w].at = "root" /\ Goes(w, "write")
           \/ wk[w].at = "write" /\ Goes(w, "event")
    BY <1>3 DEF KeepRoot, PushWrite, storeVars, mainVars, frameVars, queueVars
  <2>2. PICK a \in {"write", "event"} : Goes(w, a)
    BY <2>1
  <2>3. /\ wk' \in WkType /\ wk'[w].at = a /\ wk'[w].f = wk[w].f /\ wk'[w].p = wk[w].p
        /\ \A x \in Workers : x # w => wk'[x] = wk[x]
    BY <2>2, WkGoes DEF Ats
  <2>4. \A x \in Workers : wk'[x].f = wk[x].f /\ wk'[x].p = wk[x].p /\ Nearly(wk[x].at, wk'[x].at)
    BY <2>1, <2>2, <2>3 DEF Nearly
  <2>. QED BY <2>1, <2>3, <2>4, CalmStep
<1>. QED
  BY <1>1, <1>2, <1>3, AddSeqStep, AddLeafParStep, AddInnerParStep, LinkChildStep, MarkBuiltStep, CheckPendingStep,
     EnqueueStep, DispTakeStep, DispSendStep, WorkerTakeStep, HashFrameStep, HashDoneStep, CountOffStep, PromoteStep,
     FrameDoneStep DEF Next, Main, Dispatcher, Worker

(* For every stream, every number of workers and every capacity of the     *)
(* queues, a frame is in the pool at most once, is hashed once and only    *)
(* when both children's hashes are there (parFrame's events, pending and   *)
(* submitted in addInnerPar and processParFrame).                          *)
THEOREM HashedOnce == Spec => []HashedOnceChildrenFirst
<1>1. Init => FrameInv
  BY FrameInit
<1>2. FrameInv /\ [Next]_vars => FrameInv'
  BY FrameStep
<1>3. FrameInv => HashedOnceChildrenFirst
  BY FrameGives
<1>. QED BY <1>1, <1>2, <1>3, PTL DEF Spec

-----------------------------------------------------------------------------
(* The reference, unfolded: RootsAfter is defined on every prefix.         *)

LEMMA LeastOf ==
  ASSUME NEW S \in SUBSET Nat, S # {}
  PROVE  \E m \in S : \A n \in S : m <= n
<1>1. IsWellFoundedOn(OpToRel(<, Nat), Nat)
  BY NatLessThanWellFounded
<1>2. PICK m \in S : \A y \in S : <<y, m>> \notin OpToRel(<, Nat)
  BY <1>1, WFMin
<1>3. ASSUME NEW n \in S PROVE m <= n
  <2>1. ~(n < m)
    BY <1>2 DEF OpToRel
  <2>. QED BY <2>1
<1>. QED BY <1>3

RootStep(r, j) ==
  LET n == Len(r)
  IN  IF r = <<0>> THEN r
      ELSE IF Leaf(j) THEN Append(r, j)
      ELSE IF n >= 2 /\ nodes[r[n]].h < nodes[j].h /\ nodes[r[n - 1]].h < nodes[j].h
           THEN Append(SubSeq(r, 1, n - 2), j)
           ELSE <<0>>

LEMMA RootsUnfold ==
  ASSUME N \in Nat
  PROVE  /\ RootsAfter[0] = <<>>
         /\ \A j \in 1 .. N : RootsAfter[j] = RootStep(RootsAfter[j - 1], j)
<1>. DEFINE Good(n, r) == r = [j \in 0 .. n |-> IF j = 0 THEN <<>> ELSE RootStep(r[j - 1], j)]
            Bad == {n \in Nat : ~ \E r : Good(n, r)}
<1>1. RootsAfter = CHOOSE r : Good(N, r)
  BY DEF RootsAfter, RootStep
<1>2. Bad = {}
  <2>. SUFFICES ASSUME Bad # {} PROVE FALSE
    OBVIOUS
  <2>1. PICK m \in Bad : \A n \in Bad : m <= n
    <3>1. Bad \in SUBSET Nat
      OBVIOUS
    <3>. HIDE DEF Bad
    <3>. QED BY <3>1, LeastOf
  <2>2. CASE m = 0
    <3>. DEFINE r == [j \in 0 .. 0 |-> <<>>]
    <3>1. r = [j \in 0 .. 0 |-> IF j = 0 THEN <<>> ELSE RootStep(r[j - 1], j)]
      OBVIOUS
    <3>. QED BY <2>1, <2>2, <3>1
  <2>3. CASE m # 0
    <3>1. m - 1 \in Nat /\ m - 1 \notin Bad
      BY <2>1, <2>3
    <3>2. PICK s : Good(m - 1, s)
      BY <3>1
    <3>. DEFINE r == [j \in 0 .. m |-> IF j = m THEN RootStep(s[m - 1], m) ELSE s[j]]
    <3>3. \A j \in 0 .. m - 1 : s[j] = IF j = 0 THEN <<>> ELSE RootStep(s[j - 1], j)
      BY <3>2
    <3>4. \A j \in 0 .. m : r[j] = IF j = 0 THEN <<>> ELSE RootStep(r[j - 1], j)
      <4>. SUFFICES ASSUME NEW j \in 0 .. m PROVE r[j] = IF j = 0 THEN <<>> ELSE RootStep(r[j - 1], j)
        OBVIOUS
      <4>1. CASE j = m
        <5>1. r[j - 1] = s[m - 1] /\ r[j] = RootStep(s[m - 1], m)
          BY <2>3, <3>1, <4>1
        <5>. QED BY <2>3, <4>1, <5>1
      <4>2. CASE j # m
        <5>1. j \in 0 .. m - 1 /\ (j # 0 => j - 1 \in 0 .. m - 1)
          BY <4>2
        <5>2. r[j] = s[j] /\ (j # 0 => r[j - 1] = s[j - 1])
          BY <4>2, <5>1
        <5>. QED BY <3>3, <5>1, <5>2
      <4>. QED BY <4>1, <4>2
    <3>5. Good(m, r)
      <4>1. r = [j \in 0 .. m |-> r[j]]
        OBVIOUS
      <4>. QED BY <3>4, <4>1
    <3>. QED BY <2>1, <3>5
  <2>. QED BY <2>2, <2>3
<1>3. Good(N, RootsAfter)
  <2>1. \E r : Good(N, r)
    BY <1>2
  <2>. HIDE DEF Good
  <2>. QED BY <1>1, <2>1
<1>4. \A j \in 0 .. N : RootsAfter[j] = IF j = 0 THEN <<>> ELSE RootStep(RootsAfter[j - 1], j)
  <2>1. \A r : Good(N, r) => \A j \in 0 .. N : r[j] = IF j = 0 THEN <<>> ELSE RootStep(r[j - 1], j)
    OBVIOUS
  <2>. QED BY <1>3, <2>1
<1>. QED BY <1>4

-----------------------------------------------------------------------------
(* Nonces: the one-version cache and the map together count the nodes of   *)
(* each version.                                                           *)

Last == IF pc \in Mid THEN k ELSE k - 1
SameVersion(v, m) == {j \in 1 .. m : nodes[j].v = v}
NextOf(v) == IF v = cached.v THEN cached.c ELSE IF nonces[v] = 0 THEN 1 ELSE nonces[v]
NonceInv ==
  /\ nonces \in [Versions -> Nat] /\ nonceOf \in [Frames -> Nat]
  /\ cached \in [v : Versions \cup {0}, c : Nat]
  /\ \A i \in Frames : Begun(i) => nonceOf[i] = NonceRef(i)
  /\ \A v \in Versions : NextOf(v) = 1 + Cardinality(SameVersion(v, Last))

(* A step begins one more node, or none. *)
Begins == AddSeq \/ AddLeafPar \/ AddInnerPar
LEMMA Progress ==
  ASSUME FrameInv, [Next]_vars
  PROVE  /\ nodes' = nodes /\ par' = par
         /\ Begins => /\ k \in Frames /\ NextNonce /\ Last = k - 1 /\ Last' = k /\ Adding
                      /\ \A i \in Frames : Begun(i)' <=> Begun(i) \/ i = k
         /\ ~Begins => /\ UNCHANGED <<nonces, cached, nonceOf>> /\ Last' = Last
                       /\ \A i \in Frames : Begun(i)' <=> Begun(i)
<1>0. k \in Int /\ Frames \in SUBSET Int
  BY Basics
<1>1. CASE AddSeq
  <2>1. nodes' = nodes /\ par' = par /\ pc = "add" /\ k \in Frames /\ k' = k + 1 /\ pc' \in {"add", "fast", "finish"} /\ NextNonce
    BY <1>1, AddSeqPc DEF AddSeq, Adding, storeVars
  <2>2. Last = k - 1 /\ Last' = k
    BY <1>0, <2>1 DEF Last, Mid
  <2>3. \A i \in Frames : Begun(i)' <=> Begun(i) \/ i = k
    BY <1>0, <2>1 DEF Begun, Mid
  <2>. QED BY <1>1, <2>1, <2>2, <2>3 DEF Begins, Adding
<1>2. CASE AddLeafPar \/ AddInnerPar
  <2>1. nodes' = nodes /\ par' = par /\ pc = "add" /\ k \in Frames /\ k' = k /\ pc' \in {"enqueue", "link"} /\ NextNonce
    BY <1>2 DEF AddLeafPar, AddInnerPar, Adding, storeVars
  <2>2. Last = k - 1 /\ Last' = k
    BY <1>0, <2>1 DEF Last, Mid
  <2>3. \A i \in Frames : Begun(i)' <=> Begun(i) \/ i = k
    BY <1>0, <2>1 DEF Begun, Mid
  <2>. QED BY <1>2, <2>1, <2>2, <2>3 DEF Begins, Adding
<1>3. CASE CheckPending \/ Enqueue \/ LinkChild \/ MarkBuilt
  <2>1. /\ UNCHANGED <<nodes, par, nonces, cached, nonceOf>>
        /\ pc \in Mid /\ \/ pc' \in Mid /\ k' = k
                         \/ pc' = "add" /\ k' = k + 1
    BY <1>3 DEF CheckPending, Enqueue, LinkChild, MarkBuilt, storeVars, mainVars, Mid
  <2>2. Last' = Last
    BY <1>0, <2>1 DEF Last, Mid
  <2>3. \A i \in Frames : Begun(i)' <=> Begun(i)
    BY <1>0, <2>1 DEF Begun, Mid
  <2>4. ~Begins
    BY <2>1 DEF Begins, AddSeq, AddLeafPar, AddInnerPar, Adding, Mid
  <2>. QED BY <2>1, <2>2, <2>3, <2>4
<1>4. CASE ~Begins /\ ~(CheckPending \/ Enqueue \/ LinkChild \/ MarkBuilt)
  <2>1. /\ UNCHANGED <<nodes, par, nonces, cached, nonceOf, k>> /\ (pc' = pc \/ (pc \in Quiet /\ pc' \in Quiet))
    <3>1. CASE Malformed \/ FastFails \/ FastRefused \/ SetFastSeq \/ StreamEnds \/ FinishStreaming
               \/ Join \/ FinalizeStore \/ Drain
               \/ Writer \/ Commit \/ UNCHANGED vars
      <4>1. UNCHANGED <<nodes, par, nonces, cached, nonceOf, k>>
        BY <3>1 DEF Malformed, FastFails, FastRefused, SetFastSeq, StreamEnds, FinishStreaming, Join, FinalizeStore,
                   Drain, Writer, WriterSet,
               WriterExit, Commit, vars, storeVars, mainVars
      <4>2. pc' = pc \/ (pc \in Quiet /\ pc' \in Quiet)
        BY <3>1 DEF Malformed, FastFails, FastRefused, SetFastSeq, StreamEnds, FinishStreaming, Join, FinalizeStore,
                   Drain, Writer, WriterSet,
               WriterExit, Commit, vars, Adding, Fails, Quiet
      <4>. QED BY <4>1, <4>2
    <3>2. CASE Dispatcher \/ \E w \in Workers : Worker(w)
      BY <3>2 DEF Dispatcher, DispTake, DispSend, DispExit, Worker, WorkerTake, HashFrame, KeepRoot, PushWrite, HashDone,
               CountOff, Promote, FrameDone, storeVars, mainVars
    <3>. QED BY <1>4, <3>1, <3>2 DEF Next, Main, Begins
  <2>2. Last' = Last
    BY <1>0, <2>1 DEF Last, Mid, Quiet
  <2>3. \A i \in Frames : Begun(i)' <=> Begun(i)
    BY <1>0, <2>1 DEF Begun, Mid, Quiet
  <2>. QED BY <1>4, <2>1, <2>2, <2>3
<1>. QED BY <1>1, <1>2, <1>3, <1>4 DEF Begins

LEMMA CountNext ==
  ASSUME NEW v, NEW m \in Nat \ {0}
  PROVE  /\ Cardinality(SameVersion(v, m - 1)) \in Nat
         /\ Cardinality(SameVersion(v, m)) =
              Cardinality(SameVersion(v, m - 1)) + (IF nodes[m].v = v THEN 1 ELSE 0)
<1>1. IsFiniteSet(1 .. m - 1)
  BY FS_Interval
<1>2. SameVersion(v, m - 1) \subseteq 1 .. m - 1
  BY DEF SameVersion
<1>3. IsFiniteSet(SameVersion(v, m - 1))
  BY <1>1, <1>2, FS_Subset
<1>4. 1 .. m = (1 .. m - 1) \cup {m} /\ m \notin 1 .. m - 1
  OBVIOUS
<1>5. CASE nodes[m].v = v
  <2>1. SameVersion(v, m) = SameVersion(v, m - 1) \cup {m} /\ m \notin SameVersion(v, m - 1)
    BY <1>4, <1>5 DEF SameVersion
  <2>. QED BY <1>3, <1>5, <2>1, FS_AddElement, FS_CardinalityType
<1>6. CASE nodes[m].v # v
  <2>1. SameVersion(v, m) = SameVersion(v, m - 1)
    BY <1>4, <1>6 DEF SameVersion
  <2>. QED BY <1>3, <1>6, <2>1, FS_CardinalityType
<1>. QED BY <1>5, <1>6

LEMMA NodeVersions ==
  ASSUME nodes \in Seq([h : Nat, v : Nat \ {0}])
  PROVE  /\ \A i \in Frames : nodes[i].v \in Versions /\ nodes[i].v # 0 /\ nodes[i].h \in Nat
         /\ \A v \in Versions : v # 0
<1>1. ASSUME NEW R, NEW q \in Seq(R) PROVE \A i \in 1 .. Len(q) : q[i] \in R
  OBVIOUS
<1>2. \A i \in 1 .. Len(nodes) : nodes[i] \in [h : Nat, v : Nat \ {0}]
  BY <1>1
<1>3. \A i \in Frames : nodes[i].v # 0 /\ nodes[i].h \in Nat
  BY <1>2 DEF Frames, N
<1>. QED BY <1>3 DEF Versions

LEMMA NonceInit == Init => NonceInv
<1>. SUFFICES ASSUME Init PROVE NonceInv
  OBVIOUS
<1>1. nodes \in Seq([h : Nat, v : Nat \ {0}]) /\ N \in Nat /\ Frames = 1 .. N
  BY WaveConstants DEF Init, N, Frames
<1>2. \A i \in Frames : ~Begun(i)
  BY <1>1 DEF Init, Begun, Mid
<1>3. \A v \in Versions : v # 0
  BY <1>1, NodeVersions
<1>4. \A v : SameVersion(v, Last) = {}
  BY DEF Init, SameVersion, Last, Mid
<1>5. \A v \in Versions : NextOf(v) = 1
  BY <1>3 DEF Init, NextOf
<1>6. nonces \in [Versions -> Nat] /\ nonceOf \in [Frames -> Nat] /\ cached \in [v : Versions \cup {0}, c : Nat]
  BY DEF Init
<1>7. \A v : Cardinality(SameVersion(v, Last)) = 0
  BY <1>4, FS_EmptySet
<1>. QED BY <1>2, <1>5, <1>6, <1>7 DEF NonceInv

LEMMA NonceStep ==
  ASSUME FrameInv, NonceInv, [Next]_vars
  PROVE  NonceInv'
<1>0. /\ N \in Nat /\ Frames = 1 .. N /\ nodes' = nodes /\ Frames' = Frames /\ Versions' = Versions
      /\ \A v, m : SameVersion(v, m)' = SameVersion(v, m)
      /\ \A i : NonceRef(i)' = NonceRef(i)
  <2>1. nodes' = nodes
    BY Progress
  <2>. QED BY <2>1, Basics, SameNodes DEF Versions, SameVersion, NonceRef
<1>1. (\A i \in Frames : nodes[i].v \in Versions /\ nodes[i].v # 0) /\ \A v \in Versions : v # 0
  BY NodeVersions DEF FrameInv, WTypes
<1>2. CASE ~Begins
  <2>1. UNCHANGED <<nonces, cached, nonceOf>> /\ Last' = Last /\ \A i \in Frames : Begun(i)' <=> Begun(i)
    BY <1>2, Progress
  <2>2. \A v : SameVersion(v, Last)' = SameVersion(v, Last) /\ NextOf(v)' = NextOf(v)
    BY <1>0, <2>1 DEF NextOf, SameVersion
  <2>. QED BY <1>0, <2>1, <2>2 DEF NonceInv
<1>3. CASE Begins
  <2>. DEFINE u == nodes[k].v
              hit == u = cached.v
              saved == IF hit \/ cached.v = 0 THEN nonces ELSE [nonces EXCEPT ![cached.v] = cached.c]
              count == NextOf(u)
  <2>1. /\ k \in Frames /\ NextNonce /\ Last = k - 1 /\ Last' = k /\ k \in Nat \ {0}
        /\ \A i \in Frames : Begun(i)' <=> Begun(i) \/ i = k
    BY <1>0, <1>3, Progress
  <2>2. /\ nonces \in [Versions -> Nat] /\ nonceOf \in [Frames -> Nat] /\ cached.v \in Versions \cup {0} /\ cached.c \in Nat
        /\ cached \in [v : Versions \cup {0}, c : Nat]
    BY DEF NonceInv
  <2>3. u \in Versions /\ u # 0
    BY <1>1, <2>1
  <2>4. \A v \in Versions : NextOf(v) = 1 + Cardinality(SameVersion(v, k - 1)) /\ Cardinality(SameVersion(v, k - 1)) \in Nat
    BY <2>1, CountNext DEF NonceInv
  <2>5. count \in Nat /\ count = 1 + Cardinality(SameVersion(u, k - 1))
    BY <2>3, <2>4
  <2>6. saved \in [Versions -> Nat] /\ \A v \in Versions : saved[v] = IF v = cached.v /\ ~hit THEN cached.c ELSE nonces[v]
    <3>1. CASE hit \/ cached.v = 0
      <4>1. saved = nonces
        BY <3>1
      <4>2. \A v \in Versions : ~(v = cached.v /\ ~hit)
        BY <1>1, <3>1
      <4>. HIDE DEF saved, hit
      <4>. QED BY <2>2, <4>1, <4>2
    <3>2. CASE ~(hit \/ cached.v = 0)
      <4>1. saved = [nonces EXCEPT ![cached.v] = cached.c] /\ cached.v \in Versions /\ ~hit
        BY <2>2, <3>2
      <4>. HIDE DEF saved, hit
      <4>. QED BY <2>2, <4>1
    <3>. QED BY <3>1, <3>2
  <2>7. count = IF hit THEN cached.c ELSE IF saved[u] = 0 THEN 1 ELSE saved[u]
    BY <2>3, <2>6 DEF NextOf
  <2>8. cached' = [v |-> u, c |-> count + 1] /\ nonceOf' = [nonceOf EXCEPT ![k] = count + 1] /\ nonces' = saved
    BY <2>1, <2>7 DEF NextNonce
  <2>. HIDE DEF saved, count, u
  <2>9. cached' \in [v : Versions \cup {0}, c : Nat] /\ cached'.v = u /\ cached'.c = count + 1
    BY <2>3, <2>5, <2>8
  <2>10. nonceOf' \in [Frames -> Nat] /\ nonceOf'[k] = count + 1 /\ \A i \in Frames : i # k => nonceOf'[i] = nonceOf[i]
    BY <2>1, <2>2, <2>5, <2>8
  <2>11. count + 1 = 1 + Cardinality(SameVersion(u, k))
    <3>1. Cardinality(SameVersion(u, k)) = Cardinality(SameVersion(u, k - 1)) + 1
      BY <2>1, CountNext DEF u
    <3>. QED BY <2>3, <2>4, <2>5, <3>1
  <2>12. \A i \in Frames : Begun(i)' => nonceOf'[i] = NonceRef(i)
    <3>1. NonceRef(k) = 1 + Cardinality(SameVersion(u, k))
      BY DEF NonceRef, SameVersion, u
    <3>. QED BY <2>1, <2>10, <2>11, <3>1 DEF NonceInv
  <2>13. ASSUME NEW v \in Versions PROVE NextOf(v)' = 1 + Cardinality(SameVersion(v, k))
    <3>1. CASE v = u
      BY <2>9, <2>11, <3>1 DEF NextOf
    <3>2. CASE v # u
      <4>1. Cardinality(SameVersion(v, k)) = Cardinality(SameVersion(v, k - 1)) + 0
        BY <2>1, <3>2, CountNext DEF u
      <4>2. NextOf(v) = 1 + Cardinality(SameVersion(v, k)) /\ NextOf(v) \in Nat \ {0}
        BY <2>4, <4>1
      <4>3. NextOf(v)' = IF saved[v] = 0 THEN 1 ELSE saved[v]
        BY <2>8, <2>9, <3>2 DEF NextOf
      <4>4. CASE v = cached.v
        <5>1. saved[v] = cached.c /\ NextOf(v) = cached.c
          BY <2>6, <3>2, <4>4 DEF NextOf
        <5>. QED BY <4>2, <4>3, <5>1
      <4>5. CASE v # cached.v
        <5>1. saved[v] = nonces[v]
          BY <2>6, <4>5
        <5>. QED BY <4>2, <4>3, <4>5, <5>1 DEF NextOf
      <4>. QED BY <4>4, <4>5
    <3>. QED BY <3>1, <3>2
  <2>14. \A v \in Versions : SameVersion(v, Last)' = SameVersion(v, k)
    BY <1>0, <2>1 DEF SameVersion
  <2>. QED BY <1>0, <2>6, <2>8, <2>9, <2>10, <2>12, <2>13, <2>14 DEF NonceInv
<1>. QED BY <1>2, <1>3

-----------------------------------------------------------------------------
(* The stack, with the frame being built on top, is the reference's forest *)
(* of the nodes begun.                                                     *)

RefStack == IF pc \in Mid /\ ~(pc = "enqueue" /\ Leaf(k)) THEN Append(stack, k) ELSE stack
RootsInv ==
  /\ ~failed => RefStack = RootsAfter[Last]
  /\ ~failed /\ Last > 0 => Len(RefStack) > 0 /\ RefStack[Len(RefStack)] = Last
  /\ ~failed /\ pc \notin Busy => k = N + 1
  /\ par => \A f \in Frames : Begun(f) /\ parent[f] = 0 => f \in Waiting(RefStack)

LEMMA RootsInit == Init => RootsInv
<1>. SUFFICES ASSUME Init PROVE RootsInv
  OBVIOUS
<1>1. N \in Nat /\ Frames = 1 .. N
  BY WaveConstants DEF Init, N, Frames
<1>2. Last = 0 /\ RefStack = <<>> /\ k = 1 /\ pc = "add"
  BY DEF Init, Last, RefStack, Mid
<1>3. \A f \in Frames : ~Begun(f)
  BY <1>1, <1>2 DEF Begun, Mid
<1>. QED BY <1>1, <1>2, <1>3, RootsUnfold DEF RootsInv, Busy

LEMMA SameRoots ==
  ASSUME nodes' = nodes
  PROVE  RootsAfter' = RootsAfter
BY DEF RootsAfter, N, Leaf

(* What a step that begins no node leaves alone. *)
LEMMA RefSame ==
  ASSUME FrameInv, [Next]_vars, ~Begins
  PROVE  /\ RefStack' = RefStack /\ parent' = parent /\ (~failed' => ~failed)
         /\ ~failed' /\ pc' \notin Busy => (pc \notin Busy /\ k' = k) \/ k' = N + 1
<1>0. nodes' = nodes /\ \A i : Leaf(i)' = Leaf(i)
  BY Progress, SameNodes
<1>1. CASE CheckPending
  <2>1. pc = "check" /\ parent' = parent /\ failed' = failed /\ ~Leaf(k) /\ pc' \in {"enqueue", "add"}
    BY <1>1 DEF CheckPending, FrameInv, TodoInv
  <2>2. RefStack = Append(stack, k)
    BY <2>1 DEF RefStack, Mid
  <2>3. RefStack' = Append(stack, k)
    BY <1>0, <1>1, <2>1 DEF CheckPending, RefStack, Mid
  <2>. QED BY <2>1, <2>2, <2>3 DEF Mid, Busy
<1>2. CASE Enqueue
  <2>1. pc = "enqueue" /\ parent' = parent /\ failed' = failed /\ pc' = "add"
        /\ stack' = IF Leaf(k) THEN stack ELSE Append(stack, k)
    BY <1>2 DEF Enqueue, frameVars
  <2>2. RefStack = stack' /\ RefStack' = stack'
    BY <2>1 DEF RefStack, Mid
  <2>. QED BY <2>1, <2>2 DEF Mid, Busy
<1>3. CASE LinkChild \/ MarkBuilt
  <2>1. /\ pc \in {"link", "built"} /\ pc' \in {"link", "built", "check"} /\ UNCHANGED <<parent, failed, stack, k>>
    BY <1>3 DEF LinkChild, MarkBuilt, mainVars
  <2>2. RefStack' = RefStack
    BY <1>0, <2>1 DEF RefStack, Mid
  <2>. QED BY <2>1, <2>2 DEF Mid, Busy
<1>4. CASE Malformed \/ FastFails \/ FastRefused \/ SetFastSeq \/ StreamEnds \/ FinishStreaming \/ Join
           \/ FinalizeStore \/ Drain
  <2>1. pc \in Quiet /\ pc' \in Quiet /\ UNCHANGED <<parent, stack, k>> /\ (~failed' => ~failed)
    BY <1>4 DEF Malformed, FastFails, FastRefused, SetFastSeq, StreamEnds, FinishStreaming, Join, FinalizeStore,
               Drain, Adding, Fails,
               frameVars, mainVars, Quiet
  <2>2. RefStack' = RefStack
    BY <2>1 DEF RefStack, Mid, Quiet
  <2>3. ~failed' /\ pc' \notin Busy => (pc \notin Busy /\ k' = k) \/ k' = N + 1
    BY <1>4 DEF Malformed, FastFails, FastRefused, SetFastSeq, StreamEnds, FinishStreaming, Join, FinalizeStore,
               Drain, Fails, mainVars, Mid, Busy
  <2>. QED BY <2>1, <2>2, <2>3
<1>5. CASE Dispatcher \/ (\E w \in Workers : Worker(w)) \/ Writer \/ Commit \/ UNCHANGED vars
  <2>1. UNCHANGED <<parent, stack, k, pc, failed>>
    <3>1. CASE Dispatcher \/ Writer \/ Commit \/ UNCHANGED vars
      BY <3>1 DEF Dispatcher, DispTake, DispSend, DispExit, Writer, WriterSet, WriterExit, Commit, vars, frameVars, mainVars
    <3>2. CASE \E w \in Workers : Worker(w)
      BY <3>2 DEF Worker, WorkerTake, HashFrame, KeepRoot, PushWrite, HashDone,
               CountOff, Promote, FrameDone, frameVars, mainVars
    <3>. QED BY <1>5, <3>1, <3>2
  <2>2. RefStack' = RefStack
    BY <1>0, <2>1 DEF RefStack
  <2>. QED BY <2>1, <2>2
<1>. QED BY <1>1, <1>2, <1>3, <1>4, <1>5 DEF Next, Main, Begins

(* What a step that begins a node pushes. *)
LEMMA RefPush ==
  ASSUME FrameInv, Begins
  PROVE  /\ k \in Frames /\ RefStack = stack /\ stack \in Seq(Frames)
         /\ RefStack' = IF Leaf(k) THEN Append(stack, k) ELSE Append(Popped, k)
         /\ Leaf(k) \/ ClosesPair
         /\ pc = "add" /\ (pc' \in Busy \/ failed')
         /\ ~failed' => ~failed
         /\ par /\ Leaf(k) => parent' = parent
         /\ par /\ ~Leaf(k) => parent' = [parent EXCEPT ![Left] = k, ![Right] = k]
<1>1. k \in Frames /\ pc = "add" /\ Adding
  BY DEF Begins, AddSeq, AddLeafPar, AddInnerPar, Adding
<1>2. RefStack = stack /\ stack \in Seq(Frames)
  BY <1>1 DEF RefStack, Mid, FrameInv, WTypes
<1>3. CASE AddSeq
  <2>1. /\ stack' = (IF Leaf(k) THEN Append(stack, k) ELSE Append(Popped, k)) /\ (Leaf(k) \/ ClosesPair) /\ ~par
    BY <1>3 DEF AddSeq
  <2>2. (pc' = "finish" /\ failed' = TRUE) \/ (pc' \in {"add", "fast"} /\ failed' = failed)
    BY <1>3, AddSeqPc
  <2>3. RefStack' = stack'
    BY <2>2 DEF RefStack, Mid
  <2>. QED BY <1>1, <1>2, <2>1, <2>2, <2>3 DEF Busy
<1>4. CASE AddLeafPar
  <2>1. stack' = Append(stack, k) /\ Leaf(k) /\ Leaf(k)' /\ pc' = "enqueue" /\ failed' = failed /\ parent' = parent
    BY <1>4 DEF AddLeafPar, Leaf, storeVars
  <2>2. RefStack' = stack'
    BY <2>1 DEF RefStack
  <2>. QED BY <1>1, <1>2, <2>1, <2>2 DEF Mid, Busy
<1>5. CASE AddInnerPar
  <2>1. /\ stack' = Popped /\ ~Leaf(k) /\ pc' = "link" /\ failed' = failed /\ ClosesPair /\ k' = k
        /\ parent' = [parent EXCEPT ![Left] = k, ![Right] = k]
    BY <1>5 DEF AddInnerPar
  <2>2. RefStack' = Append(Popped, k)
    BY <2>1 DEF RefStack, Mid
  <2>. QED BY <1>1, <1>2, <2>1, <2>2 DEF Mid, Busy
<1>. QED BY <1>3, <1>4, <1>5 DEF Begins

LEMMA PushedLast ==
  ASSUME NEW S, NEW q \in Seq(S), NEW x \in S
  PROVE  /\ Len(Append(q, x)) > 0 /\ Append(q, x)[Len(Append(q, x))] = x
         /\ Waiting(Append(q, x)) = Waiting(q) \cup {x}
<1>1. Len(Append(q, x)) = Len(q) + 1 /\ Len(q) \in Nat /\ Append(q, x)[Len(q) + 1] = x
  OBVIOUS
<1>. QED BY <1>1, WaitAppended

LEMMA RootsNext ==
  ASSUME FrameInv, NEW j \in Frames, j = k, stack = RootsAfter[j - 1], Leaf(k) \/ ClosesPair
  PROVE  RootsAfter[j] = IF Leaf(k) THEN Append(stack, k) ELSE Append(Popped, k)
<1>1. N \in Nat /\ Frames = 1 .. N /\ 0 \notin Frames /\ stack \in Seq(Frames)
  BY Basics DEF FrameInv, WTypes
<1>2. RootsAfter[j] = RootStep(stack, j)
  BY <1>1, RootsUnfold
<1>3. stack # <<0>>
  <2>1. \A i \in 1 .. Len(stack) : stack[i] \in Frames
    BY <1>1
  <2>2. stack = <<0>> => Len(stack) = 1 /\ stack[1] = 0
    OBVIOUS
  <2>. QED BY <1>1, <2>1, <2>2
<1>4. ClosesPair => Len(stack) >= 2 /\ nodes[stack[Len(stack)]].h < nodes[k].h /\ nodes[stack[Len(stack) - 1]].h < nodes[k].h
  <2>1. Len(stack) \in Nat
    BY <1>1
  <2>2. ClosesPair => nodes[stack[Len(stack) - 0]].h < nodes[k].h /\ nodes[stack[Len(stack) - 1]].h < nodes[k].h
    BY DEF ClosesPair
  <2>. QED BY <2>1, <2>2 DEF ClosesPair
<1>. QED BY <1>2, <1>3, <1>4 DEF RootStep, Popped

LEMMA RootsStep ==
  ASSUME FrameInv, RootsInv, [Next]_vars
  PROVE  RootsInv'
<1>0. N \in Nat /\ Frames = 1 .. N /\ nodes' = nodes /\ Frames' = Frames /\ N' = N /\ RootsAfter' = RootsAfter
      /\ par' = par /\ 0 \notin Frames /\ Frames \in SUBSET Int
  BY Basics, Progress, SameNodes, SameRoots
<1>1. CASE ~Begins
  <2>1. /\ RefStack' = RefStack /\ parent' = parent /\ (~failed' => ~failed)
        /\ ~failed' /\ pc' \notin Busy => (pc \notin Busy /\ k' = k) \/ k' = N + 1
    BY <1>1, RefSame
  <2>2. Last' = Last /\ \A i \in Frames : Begun(i)' <=> Begun(i)
    BY <1>1, Progress
  <2>3. Waiting(RefStack)' = Waiting(RefStack)
    BY <2>1 DEF Waiting
  <2>4. (~failed => RefStack = RootsAfter[Last])' /\ (~failed /\ Last > 0 => Len(RefStack) > 0 /\ RefStack[Len(RefStack)] = Last)'
    BY <1>0, <2>1, <2>2 DEF RootsInv
  <2>5. (~failed /\ pc \notin Busy => k = N + 1)'
    BY <1>0, <2>1 DEF RootsInv
  <2>6. (par => \A f \in Frames : Begun(f) /\ parent[f] = 0 => f \in Waiting(RefStack))'
    BY <1>0, <2>1, <2>2, <2>3 DEF RootsInv
  <2>. QED BY <2>4, <2>5, <2>6 DEF RootsInv
<1>2. CASE Begins
  <2>1. /\ k \in Frames /\ RefStack = stack /\ stack \in Seq(Frames)
        /\ RefStack' = IF Leaf(k) THEN Append(stack, k) ELSE Append(Popped, k)
        /\ Leaf(k) \/ ClosesPair
        /\ pc' \in Busy \/ failed'
        /\ ~failed' => ~failed
        /\ par /\ Leaf(k) => parent' = parent
        /\ par /\ ~Leaf(k) => parent' = [parent EXCEPT ![Left] = k, ![Right] = k]
    BY <1>2, RefPush
  <2>2. Last = k - 1 /\ Last' = k /\ Adding /\ \A i \in Frames : Begun(i)' <=> Begun(i) \/ i = k
    BY <1>2, Progress
  <2>3. ClosesPair => /\ Popped \in Seq(Frames) /\ Waiting(stack) = Waiting(Popped) \cup {Left, Right}
                      /\ Left \in Frames /\ Right \in Frames
    BY <2>2, PopsPair
  <2>4. (~failed => RefStack = RootsAfter[Last])'
    BY <1>0, <2>1, <2>2, RootsNext DEF RootsInv
  <2>. DEFINE base == IF Leaf(k) THEN stack ELSE Popped
  <2>5. base \in Seq(Frames) /\ RefStack' = Append(base, k)
    BY <2>1, <2>3
  <2>6. Len(RefStack') > 0 /\ RefStack'[Len(RefStack')] = k /\ Waiting(RefStack') = Waiting(base) \cup {k}
    <3>. HIDE DEF base
    <3>1. /\ Len(Append(base, k)) > 0 /\ Append(base, k)[Len(Append(base, k))] = k
          /\ Waiting(Append(base, k)) = Waiting(base) \cup {k}
      BY <2>1, <2>5, PushedLast
    <3>. QED BY <2>5, <3>1
  <2>7. (~failed /\ Last > 0 => Len(RefStack) > 0 /\ RefStack[Len(RefStack)] = Last)'
    BY <2>2, <2>6
  <2>8. (~failed /\ pc \notin Busy => k = N + 1)'
    BY <2>1
  <2>9. ASSUME par, NEW f \in Frames, Begun(f)', parent'[f] = 0 PROVE f \in Waiting(RefStack')
    <3>1. CASE f = k
      BY <2>6, <3>1
    <3>2. CASE f # k
      <4>1. Begun(f)
        BY <2>2, <2>9, <3>2
      <4>2. CASE Leaf(k)
        BY <2>1, <2>6, <2>9, <4>1, <4>2 DEF RootsInv
      <4>3. CASE ~Leaf(k)
        <5>1. parent \in [Frames -> 0 .. N] /\ k # 0
          BY <1>0, <2>1 DEF FrameInv, WTypes
        <5>2. parent[f] = 0 /\ f # Left /\ f # Right
          BY <2>1, <2>3, <2>9, <4>3, <5>1
        <5>3. f \in Waiting(stack)
          BY <2>1, <2>9, <4>1, <5>2 DEF RootsInv
        <5>. QED BY <2>1, <2>3, <2>6, <4>3, <5>2, <5>3
      <4>. QED BY <4>2, <4>3
    <3>. QED BY <3>1, <3>2
  <2>10. Waiting(RefStack)' = Waiting(RefStack')
    BY DEF Waiting
  <2>11. (par => \A f \in Frames : Begun(f) /\ parent[f] = 0 => f \in Waiting(RefStack))'
    BY <1>0, <2>9, <2>10
  <2>. QED BY <2>4, <2>7, <2>8, <2>11 DEF RootsInv
<1>. QED BY <1>1, <1>2

-----------------------------------------------------------------------------
(* hashWg counts the frames submitted and not finished; a frame is only    *)
(* left unsubmitted while someone is still to look at it.                  *)

Closing == {"join", "write", "flush", "end"}
Finished(f) == hash[f] # "none" /\ ~Held(f)
Flight == {f \in Frames : submitted[f] /\ ~Finished(f)}
WgInv ==
  /\ hashWg = Cardinality(Flight)
  /\ pc \in Closing => Flight = {}
DueInv ==
  \A p \in Frames : Begun(p) =>
    /\ Leaf(p) => submitted[p]
    /\ ~Leaf(p) /\ ~built[p] => p = k /\ pc \in {"link", "built"}
    /\ ~Leaf(p) /\ pend[p] = 0 /\ ~submitted[p] =>
         (p = k /\ pc \in Mid) \/ \E w \in Workers : wk[w].at = "built" /\ wk[w].p = p
FlightInv == par => WgInv /\ DueInv

LEMMA FlightInit == Init => FlightInv
<1>. SUFFICES ASSUME Init PROVE FlightInv
  OBVIOUS
<1>1. N \in Nat /\ Frames = 1 .. N
  BY WaveConstants DEF Init, N, Frames
<1>2. \A f \in Frames : ~Begun(f)
  BY <1>1 DEF Init, Begun, Mid
<1>3. Flight = {}
  BY DEF Init, Flight
<1>. QED BY <1>2, <1>3, FS_EmptySet DEF Init, FlightInv, WgInv, DueInv, Closing

LEMMA FlightSize ==
  ASSUME FrameInv
  PROVE  IsFiniteSet(Flight) /\ Cardinality(Flight) \in Nat /\ (Cardinality(Flight) = 0 => Flight = {})
<1>1. IsFiniteSet(1 .. N)
  BY Basics, FS_Interval
<1>2. Flight \subseteq 1 .. N
  BY Basics DEF Flight
<1>. QED BY <1>1, <1>2, FS_Subset, FS_CardinalityType, FS_EmptySet

(* Nobody is submitted and nobody finishes. *)
LEMMA FlightKeep ==
  ASSUME FrameInv, WgInv, nodes' = nodes, submitted' = submitted, hashWg' = hashWg,
         \A f \in Frames : Finished(f)' <=> Finished(f),
         pc' \in Closing => pc \in Closing \/ hashWg = 0
  PROVE  WgInv'
<1>1. Flight' = Flight
  BY SameNodes DEF Flight
<1>2. hashWg = 0 => Flight = {}
  BY FlightSize DEF WgInv
<1>. QED BY <1>1, <1>2 DEF WgInv

LEMMA FlightPut ==
  ASSUME FrameInv, par, WgInv, nodes' = nodes, NEW x \in Frames, ~submitted[x],
         submitted' = [submitted EXCEPT ![x] = TRUE], hashWg' = hashWg + 1, hash' = hash,
         \A w \in Workers : wk'[w].f = wk[w].f,
         pc' \notin Closing
  PROVE  WgInv'
<1>1. hash[x] = "none" /\ submitted \in [Frames -> BOOLEAN]
  BY DEF FrameInv, PoolInv, HashInv, WTypes
<1>2. \A f \in Frames : Finished(f)' <=> Finished(f)
  BY DEF Finished, Held
<1>3. ~Finished(x) /\ x \notin Flight
  BY <1>1 DEF Finished, Flight
<1>4. \A f \in Frames : submitted'[f] <=> submitted[f] \/ f = x
  BY <1>1
<1>5. Flight' = Flight \cup {x}
  BY <1>2, <1>3, <1>4, SameNodes DEF Flight
<1>6. Cardinality(Flight \cup {x}) = Cardinality(Flight) + 1
  BY <1>3, FlightSize, FS_AddElement
<1>. QED BY <1>5, <1>6 DEF WgInv

(* Steps outside a node that leave the frames' counters alone.             *)
LEMMA DueCalm ==
  ASSUME FrameInv, DueInv, UNCHANGED <<nodes, k, submitted, built, pend>>,
         pc' = pc \/ (pc \in Quiet /\ pc' \in Quiet),
         \A w \in Workers : wk[w].at = "built" => wk'[w].at = "built" /\ wk'[w].p = wk[w].p
  PROVE  DueInv'
<1>0. Frames' = Frames /\ (\A i : Leaf(i)' = Leaf(i))
  BY SameNodes
<1>1. (pc' \in Mid <=> pc \in Mid) /\ (pc' \in {"link", "built"} <=> pc \in {"link", "built"})
  BY DEF Mid, Quiet
<1>2. \A p \in Frames : Begun(p)' <=> Begun(p)
  BY <1>1 DEF Begun
<1>. SUFFICES ASSUME NEW p \in Frames, Begun(p)
     PROVE  /\ Leaf(p) => submitted[p]
            /\ ~Leaf(p) /\ ~built[p] => p = k /\ pc' \in {"link", "built"}
            /\ ~Leaf(p) /\ pend[p] = 0 /\ ~submitted[p] =>
                 (p = k /\ pc' \in Mid) \/ \E w \in Workers : wk'[w].at = "built" /\ wk'[w].p = p
  BY <1>0, <1>2 DEF DueInv
<1>. QED BY <1>1 DEF DueInv

LEMMA FlightCalm ==
  ASSUME FrameInv, FlightInv, UNCHANGED <<nodes, par, k, submitted, built, pend, hashWg>>,
         pc' = pc \/ (pc \in Quiet /\ pc' \in Quiet),
         pc' \in Closing => pc \in Closing \/ hashWg = 0,
         par => \A f \in Frames : Finished(f)' <=> Finished(f),
         \A w \in Workers : wk[w].at = "built" => wk'[w].at = "built" /\ wk'[w].p = wk[w].p
  PROVE  FlightInv'
BY FlightKeep, DueCalm DEF FlightInv

(* The last frame of the stream is finished when the threads are joined.   *)
LEMMA AllFinished ==
  ASSUME FrameInv, FlightInv, par, pc \in Closing, NEW f \in Frames, Begun(f)
  PROVE  Finished(f)
<1>. DEFINE Bad == {g \in Frames : Begun(g) /\ ~Finished(g)}
<1>0. N \in Nat /\ Frames = 1 .. N /\ Frames \in SUBSET Int /\ 0 \notin Frames /\ k \in Int /\ Frames \in SUBSET Nat
  BY Basics
<1>1. pc \notin Mid
  BY DEF Closing, Mid
<1>2. \A g \in Frames : submitted[g] => Finished(g)
  BY DEF FlightInv, WgInv, Flight
<1>. SUFFICES ASSUME Bad # {} PROVE FALSE
  OBVIOUS
<1>3. PICK p \in Bad : \A g \in Bad : p <= g
  <2>1. Bad \in SUBSET Nat
    BY <1>0
  <2>. HIDE DEF Bad
  <2>. QED BY <2>1, LeastOf
<1>4. p \in Frames /\ Begun(p) /\ ~Finished(p) /\ ~submitted[p] /\ p # 0 /\ p \in Int
  BY <1>0, <1>2, <1>3
<1>5. ~Leaf(p)
  BY <1>4 DEF FlightInv, DueInv
<1>6. PICK a, b \in Frames : Pair(p, a, b) /\ pend[p] = Bit(Open(a)) + Bit(Open(b))
  BY <1>4, <1>5 DEF FrameInv, TreeInv, PendInv
<1>7. ASSUME NEW c \in Frames, parent[c] = p PROVE ~Open(c)
  <2>1. c < p /\ c \in Int
    BY <1>0, <1>4, <1>7 DEF FrameInv, TreeInv, ParentInv
  <2>2. Begun(c)
    BY <1>0, <1>4, <2>1 DEF Begun
  <2>3. Finished(c)
    <3>1. c \notin Bad
      BY <1>3, <1>4, <2>1
    <3>. QED BY <2>2, <3>1
  <2>4. Done(c) /\ \A w \in Workers : wk[w].f # c
    BY <2>3 DEF Finished, Held, Done
  <2>5. Linked(c)
    <3>1. todo = <<>>
      BY <1>1 DEF FrameInv, TodoInv, Mid
    <3>2. Waiting(todo) = {}
      BY <3>1, WaitIn DEF FrameInv, WTypes
    <3>. QED BY <1>4, <1>7, <3>2 DEF Linked
  <2>6. events[c] = 2
    BY <2>4, <2>5 DEF FrameInv, TreeInv, EventsInv, Bit
  <2>. QED BY <2>4, <2>6 DEF Open
<1>8. pend[p] = 0
  BY <1>6, <1>7 DEF Pair, Bit
<1>9. PICK w \in Workers : wk[w].at = "built" /\ wk[w].p = p
  BY <1>1, <1>4, <1>5, <1>8 DEF FlightInv, DueInv
<1>10. wk[w].f \in Frames /\ Held(wk[w].f) /\ submitted[wk[w].f]
  BY <1>9, Holding
<1>. QED BY <1>2, <1>10 DEF Finished

(* A worker takes a frame, hashes it and makes its event: it holds the     *)
(* frame throughout.                                                       *)
LEMMA FlightWorker ==
  ASSUME FrameInv, FlightInv, NEW w \in Workers,
         WorkerTake(w) \/ HashFrame(w) \/ KeepRoot(w) \/ PushWrite(w) \/ HashDone(w)
  PROVE  FlightInv'
<1>1. /\ UNCHANGED <<nodes, par, pc, k, submitted, built, pend, hashWg>> /\ par
      /\ wk[w].at \in {"idle", "hash", "root", "write", "event"}
  <2>1. UNCHANGED <<nodes, par, pc, k, submitted, built, pend, hashWg>>
    BY DEF WorkerTake, HashFrame, KeepRoot, PushWrite, HashDone, storeVars, mainVars, frameVars, queueVars
  <2>2. wk[w].at \in {"idle", "hash", "root", "write", "event"}
    BY DEF WorkerTake, HashFrame, KeepRoot, PushWrite, HashDone
  <2>3. par
    BY <2>2 DEF FrameInv, SeqInv
  <2>. QED BY <2>1, <2>2, <2>3
<1>0. N \in Nat /\ Frames = 1 .. N /\ 0 \notin Frames /\ wk \in WkType
  BY Basics DEF FrameInv, WTypes
<1>2. CASE WorkerTake(w)
  <2>1. hash' = hash
    BY <1>2 DEF WorkerTake, frameVars
  <2>2. CASE ready # <<>> /\ wk' = [wk EXCEPT ![w] = [at |-> "hash", f |-> Head(ready), p |-> 0]]
    <3>1. Head(ready) \in Frames /\ Head(ready) \in Waiting(ready)
      BY <1>1, <2>2, WaitTail DEF FrameInv, WTypes, PoolInv, QueueInv
    <3>2. hash[Head(ready)] = "none"
      BY <1>1, <3>1 DEF FrameInv, PoolInv, QueueInv, Queued
    <3>3. wk'[w].f = Head(ready) /\ wk[w].f = 0 /\ \A x \in Workers : x # w => wk'[x] = wk[x]
      <4>1. wk[w].f = 0
        BY <1>1, <1>2 DEF FrameInv, PoolInv, WorkerInv, WorkerTake
      <4>. QED BY <1>0, <2>2, <4>1 DEF WkType
    <3>4. \A f \in Frames : Finished(f)' <=> Finished(f)
      BY <1>0, <2>1, <3>2, <3>3 DEF Finished, Held
    <3>5. \A x \in Workers : wk[x].at = "built" => wk'[x].at = "built" /\ wk'[x].p = wk[x].p
      BY <1>1, <3>3
    <3>. QED BY <1>1, <3>4, <3>5, FlightCalm
  <2>3. CASE Goes(w, "gone")
    <3>1. wk'[w].f = wk[w].f /\ \A x \in Workers : x # w => wk'[x] = wk[x]
      BY <2>3, WkGoes DEF Ats
    <3>2. \A f \in Frames : Finished(f)' <=> Finished(f)
      BY <2>1, <3>1 DEF Finished, Held
    <3>3. \A x \in Workers : wk[x].at = "built" => wk'[x].at = "built" /\ wk'[x].p = wk[x].p
      BY <1>1, <3>1
    <3>. QED BY <1>1, <3>2, <3>3, FlightCalm
  <2>. QED BY <1>2, <2>2, <2>3 DEF WorkerTake
<1>3. CASE HashFrame(w) \/ KeepRoot(w) \/ PushWrite(w) \/ HashDone(w)
  <2>1. wk'[w].f = wk[w].f /\ \A x \in Workers : x # w => wk'[x] = wk[x]
    <3>1. CASE HashFrame(w) \/ KeepRoot(w) \/ PushWrite(w)
      <4>1. PICK a \in {"root", "write", "event"} : Goes(w, a)
        BY <3>1 DEF HashFrame, KeepRoot, PushWrite
      <4>. QED BY <4>1, WkGoes DEF Ats
    <3>2. CASE HashDone(w)
      BY <1>0, <3>2 DEF HashDone, WkType
    <3>. QED BY <1>3, <3>1, <3>2
  <2>2. wk[w].f \in Frames /\ Held(wk[w].f)
    BY <1>1, <1>3, Holding DEF HashFrame, KeepRoot, PushWrite, HashDone
  <2>3. \A f \in Frames : Held(f)' <=> Held(f)
    BY <2>1 DEF Held
  <2>4. \A f \in Frames : f # wk[w].f => hash'[f] = hash[f]
    BY <1>3, <2>2 DEF HashFrame, KeepRoot, PushWrite, HashDone, frameVars, FrameInv, WTypes
  <2>5. \A f \in Frames : Finished(f)' <=> Finished(f)
    BY <2>2, <2>3, <2>4 DEF Finished
  <2>6. \A x \in Workers : wk[x].at = "built" => wk'[x].at = "built" /\ wk'[x].p = wk[x].p
    BY <1>1, <2>1
  <2>. QED BY <1>1, <2>5, <2>6, FlightCalm
<1>. QED BY <1>2, <1>3

LEMMA FlightCountOff ==
  ASSUME FrameInv, FlightInv, NEW w \in Workers, CountOff(w)
  PROVE  FlightInv'
<1>1. /\ UNCHANGED <<nodes, par, pc, k, submitted, built, hashWg, hash>> /\ wk[w].at = "dec"
      /\ pend' = [pend EXCEPT ![wk[w].p] = @ - 1]
      /\ Goes(w, IF pend'[wk[w].p] = 0 THEN "built" ELSE "done")
  BY DEF CountOff, storeVars, mainVars, queueVars
<1>2. par /\ DueInv /\ WgInv
  <2>1. par
    BY <1>1 DEF FrameInv, SeqInv
  <2>. QED BY <2>1 DEF FlightInv
<1>3. PICK a \in {"built", "done"} : Goes(w, a) /\ (pend'[wk[w].p] = 0 => a = "built")
  BY <1>1
<1>4. /\ wk'[w].at = a /\ wk'[w].f = wk[w].f /\ wk'[w].p = wk[w].p /\ \A x \in Workers : x # w => wk'[x] = wk[x]
  BY <1>3, WkGoes DEF Ats
<1>5. wk[w].p \in Frames /\ pend \in [Frames -> Int]
  BY <1>1, <1>2, Holding DEF FrameInv, WTypes
<1>6. \A f \in Frames : Finished(f)' <=> Finished(f)
  BY <1>1, <1>4 DEF Finished, Held
<1>7. WgInv'
  BY <1>1, <1>2, <1>6, FlightKeep
<1>8. DueInv'
  <2>0. Frames' = Frames /\ (\A i : Leaf(i)' = Leaf(i)) /\ \A p \in Frames : Begun(p)' <=> Begun(p)
    BY <1>1, SameNodes DEF Begun
  <2>. SUFFICES ASSUME NEW p \in Frames, Begun(p), ~Leaf(p), pend'[p] = 0, ~submitted[p]
       PROVE  (p = k /\ pc \in Mid) \/ \E x \in Workers : wk'[x].at = "built" /\ wk'[x].p = p
    BY <1>1, <1>2, <2>0 DEF DueInv
  <2>1. CASE p = wk[w].p
    BY <1>3, <1>4, <2>1
  <2>2. CASE p # wk[w].p
    <3>1. pend[p] = 0
      BY <1>1, <1>5, <2>2
    <3>2. (p = k /\ pc \in Mid) \/ \E x \in Workers : wk[x].at = "built" /\ wk[x].p = p
      BY <1>2, <3>1 DEF DueInv
    <3>3. \A x \in Workers : wk[x].at = "built" => wk'[x] = wk[x]
      BY <1>1, <1>4
    <3>. QED BY <3>2, <3>3
  <2>. QED BY <2>1, <2>2
<1>. QED BY <1>7, <1>8 DEF FlightInv

LEMMA FlightPromote ==
  ASSUME FrameInv, FlightInv, NEW w \in Workers, Promote(w)
  PROVE  FlightInv'
<1>1. /\ UNCHANGED <<nodes, par, pc, k, built, hash, pend>> /\ wk[w].at = "built" /\ Goes(w, "done")
      /\ IF built[wk[w].p] /\ ~submitted[wk[w].p]
         THEN submitted' = [submitted EXCEPT ![wk[w].p] = TRUE] /\ hashWg' = hashWg + 1
         ELSE UNCHANGED <<submitted, hashWg>>
  BY DEF Promote, storeVars, mainVars
<1>2. par /\ DueInv /\ WgInv
  <2>1. par
    BY <1>1 DEF FrameInv, SeqInv
  <2>. QED BY <2>1 DEF FlightInv
<1>3. /\ wk'[w].f = wk[w].f /\ \A x \in Workers : x # w => wk'[x] = wk[x]
  BY <1>1, WkGoes DEF Ats
<1>4. /\ wk[w].p \in Frames /\ wk[w].f \in Frames /\ Held(wk[w].f) /\ submitted[wk[w].f] /\ submitted \in [Frames -> BOOLEAN]
      /\ Begun(wk[w].p) /\ ~Leaf(wk[w].p)
  BY <1>1, <1>2, Holding DEF FrameInv, WTypes
<1>5. pc \notin Closing
  BY <1>2, <1>4 DEF WgInv, Flight, Finished
<1>6. \A f \in Frames : Finished(f)' <=> Finished(f)
  BY <1>1, <1>3 DEF Finished, Held
<1>7. WgInv'
  <2>1. CASE built[wk[w].p] /\ ~submitted[wk[w].p]
    <3>1. submitted' = [submitted EXCEPT ![wk[w].p] = TRUE] /\ hashWg' = hashWg + 1
      BY <1>1, <2>1
    <3>2. \A x \in Workers : wk'[x].f = wk[x].f
      BY <1>3
    <3>. QED BY <1>1, <1>2, <1>4, <1>5, <2>1, <3>1, <3>2, FlightPut
  <2>2. CASE ~(built[wk[w].p] /\ ~submitted[wk[w].p])
    <3>1. UNCHANGED <<submitted, hashWg>>
      BY <1>1, <2>2
    <3>. QED BY <1>1, <1>2, <1>5, <1>6, <3>1, FlightKeep
  <2>. QED BY <2>1, <2>2
<1>8. DueInv'
  <2>0. Frames' = Frames /\ (\A i : Leaf(i)' = Leaf(i)) /\ \A p \in Frames : Begun(p)' <=> Begun(p)
    BY <1>1, SameNodes DEF Begun
  <2>1. \A p \in Frames : /\ submitted[p] => submitted'[p]
                          /\ p = wk[w].p /\ built[p] => submitted'[p]
    BY <1>1, <1>4
  <2>2. \A p \in Frames : Begun(p) => (Leaf(p) => submitted'[p]) /\ (~Leaf(p) /\ ~built[p] => p = k /\ pc \in {"link", "built"})
    BY <1>2, <2>1 DEF DueInv
  <2>3. ASSUME NEW p \in Frames, Begun(p), ~Leaf(p), pend[p] = 0, ~submitted'[p]
        PROVE  (p = k /\ pc \in Mid) \/ \E x \in Workers : wk'[x].at = "built" /\ wk'[x].p = p
    <3>1. CASE p = wk[w].p
      <4>1. ~built[p]
        BY <2>1, <2>3, <3>1
      <4>. QED BY <2>2, <2>3, <4>1 DEF Mid
    <3>2. CASE p # wk[w].p
      <4>1. (p = k /\ pc \in Mid) \/ \E x \in Workers : wk[x].at = "built" /\ wk[x].p = p
        BY <1>2, <2>1, <2>3 DEF DueInv
      <4>. QED BY <1>3, <3>2, <4>1
    <3>. QED BY <3>1, <3>2
  <2>. QED BY <1>1, <2>0, <2>2, <2>3 DEF DueInv
<1>. QED BY <1>7, <1>8 DEF FlightInv

LEMMA FlightFrameDone ==
  ASSUME FrameInv, FlightInv, NEW w \in Workers, FrameDone(w)
  PROVE  FlightInv'
<1>1. /\ UNCHANGED <<nodes, par, pc, k, built, hash, pend, submitted>> /\ wk[w].at = "done" /\ hashWg' = hashWg - 1
      /\ wk' = [wk EXCEPT ![w] = [at |-> "idle", f |-> 0, p |-> 0]]
  BY DEF FrameDone, storeVars, mainVars, frameVars
<1>2. par /\ DueInv /\ WgInv
  <2>1. par
    BY <1>1 DEF FrameInv, SeqInv
  <2>. QED BY <2>1 DEF FlightInv
<1>3. wk'[w].f = 0 /\ \A x \in Workers : x # w => wk'[x] = wk[x]
  BY <1>1 DEF FrameInv, WTypes, WkType
<1>4. PICK g \in Frames : g = wk[w].f /\ Held(g) /\ submitted[g] /\ hash[g] # "none"
  <2>1. wk[w].f \in Frames /\ Held(wk[w].f) /\ submitted[wk[w].f] /\ wk[w].f # 0
    BY <1>1, <1>2, Holding
  <2>2. hash[wk[w].f] # "none"
    BY <1>1, <1>2, <2>1 DEF FrameInv, PoolInv, WorkerInv
  <2>. QED BY <2>1, <2>2
<1>5. g \in Flight /\ 0 \notin Frames
  BY <1>4, Basics DEF Flight, Finished
<1>6. Finished(g)' /\ \A f \in Frames : f # g => (Finished(f)' <=> Finished(f))
  <2>1. \A x \in Workers : x # w => wk[x].f # g
    BY <1>2, <1>4, <1>5 DEF FrameInv, PoolInv, HeldInv
  <2>. QED BY <1>1, <1>3, <1>4, <1>5, <2>1 DEF Finished, Held
<1>7. Flight' = Flight \ {g}
  BY <1>1, <1>4, <1>6, SameNodes DEF Flight
<1>8. Cardinality(Flight \ {g}) = Cardinality(Flight) - 1
  BY <1>5, FlightSize, FS_RemoveElement
<1>9. WgInv'
  BY <1>1, <1>2, <1>7, <1>8 DEF WgInv
<1>10. \A x \in Workers : wk[x].at = "built" => wk'[x].at = "built" /\ wk'[x].p = wk[x].p
  BY <1>1, <1>3
<1>11. DueInv'
  BY <1>1, <1>2, <1>10, DueCalm
<1>. QED BY <1>9, <1>11 DEF FlightInv

LEMMA FlightLeaf ==
  ASSUME FrameInv, FlightInv, AddLeafPar
  PROVE  FlightInv'
<1>1. /\ UNCHANGED <<nodes, par, k, built, hash, pend, wk>> /\ par /\ pc = "add" /\ pc' = "enqueue" /\ k \in Frames /\ Leaf(k)
      /\ submitted' = [submitted EXCEPT ![k] = TRUE] /\ hashWg' = hashWg + 1
  BY DEF AddLeafPar, Adding, storeVars
<1>2. DueInv /\ WgInv /\ k \in Int /\ Frames \in SUBSET Int
  BY <1>1, Basics DEF FlightInv
<1>3. ~Begun(k) /\ ~submitted[k] /\ submitted \in [Frames -> BOOLEAN]
  <2>1. ~Begun(k)
    BY <1>1, <1>2 DEF Begun, Mid
  <2>. QED BY <1>1, <2>1, Unborn DEF FrameInv, WTypes
<1>4. WgInv'
  BY <1>1, <1>2, <1>3, FlightPut DEF Closing
<1>5. DueInv'
  <2>0. Frames' = Frames /\ (\A i : Leaf(i)' = Leaf(i)) /\ \A p \in Frames : Begun(p)' <=> Begun(p) \/ p = k
    BY <1>1, <1>2, SameNodes DEF Begun, Mid
  <2>1. \A p \in Frames : submitted'[p] <=> submitted[p] \/ p = k
    BY <1>1, <1>3
  <2>2. pc \notin Mid /\ pc \notin {"link", "built"}
    BY <1>1 DEF Mid
  <2>. QED BY <1>1, <1>2, <2>0, <2>1, <2>2 DEF DueInv
<1>. QED BY <1>4, <1>5 DEF FlightInv

LEMMA FlightInner ==
  ASSUME FrameInv, FlightInv, AddInnerPar
  PROVE  FlightInv'
<1>1. /\ UNCHANGED <<nodes, par, k, built, hash, wk, submitted, hashWg>> /\ par /\ pc = "add" /\ pc' = "link" /\ k \in Frames
      /\ ~Leaf(k) /\ pend' = [pend EXCEPT ![k] = 2]
  BY DEF AddInnerPar, Adding, storeVars, queueVars
<1>2. DueInv /\ WgInv /\ k \in Int /\ Frames \in SUBSET Int /\ pend \in [Frames -> Int]
  BY <1>1, Basics DEF FlightInv, FrameInv, WTypes
<1>3. WgInv'
  <2>1. \A f \in Frames : Finished(f)' <=> Finished(f)
    BY <1>1 DEF Finished, Held
  <2>. QED BY <1>1, <1>2, <2>1, FlightKeep DEF Closing
<1>4. DueInv'
  <2>0. Frames' = Frames /\ (\A i : Leaf(i)' = Leaf(i)) /\ \A p \in Frames : Begun(p)' <=> Begun(p) \/ p = k
    BY <1>1, <1>2, SameNodes DEF Begun, Mid
  <2>1. \A p \in Frames : p # k => pend'[p] = pend[p]
    BY <1>1, <1>2
  <2>2. pc \notin Mid /\ pc \notin {"link", "built"} /\ pc' \in Mid
    BY <1>1 DEF Mid
  <2>. QED BY <1>1, <1>2, <2>0, <2>1, <2>2 DEF DueInv
<1>. QED BY <1>3, <1>4 DEF FlightInv

(* The steps inside an inner node. *)
LEMMA FlightInside ==
  ASSUME FrameInv, FlightInv, LinkChild \/ MarkBuilt
  PROVE  FlightInv'
<1>1. /\ UNCHANGED <<nodes, par, k, hash, wk, submitted, hashWg>>
      /\ pc \in {"link", "built"} /\ pc' \in {"link", "built", "check"}
      /\ \/ built' = built /\ pc' \in {"link", "built"} /\ (pend' = pend \/ pend' = [pend EXCEPT ![k] = @ - 1])
         \/ built' = [built EXCEPT ![k] = TRUE] /\ pend' = pend
  BY DEF LinkChild, MarkBuilt, storeVars, mainVars, queueVars
<1>2. /\ par /\ DueInv /\ WgInv /\ k \in Frames
      /\ pend \in [Frames -> Int] /\ built \in [Frames -> BOOLEAN]
  <2>1. par /\ k \in Frames
    BY <1>1 DEF FrameInv, TodoInv, WTypes, Mid
  <2>. QED BY <2>1 DEF FlightInv, FrameInv, WTypes
<1>3. WgInv'
  <2>1. \A f \in Frames : Finished(f)' <=> Finished(f)
    BY <1>1 DEF Finished, Held
  <2>. QED BY <1>1, <1>2, <2>1, FlightKeep DEF Closing
<1>4. DueInv'
  <2>0. Frames' = Frames /\ (\A i : Leaf(i)' = Leaf(i)) /\ \A p \in Frames : Begun(p)' <=> Begun(p)
    BY <1>1, SameNodes DEF Begun, Mid
  <2>1. \A p \in Frames : p # k => pend'[p] = pend[p] /\ built'[p] = built[p]
    BY <1>1, <1>2
  <2>2. pc \in Mid /\ pc' \in Mid /\ (built'[k] \/ pc' \in {"link", "built"})
    BY <1>1, <1>2 DEF Mid
  <2>. QED BY <1>1, <1>2, <2>0, <2>1, <2>2 DEF DueInv
<1>. QED BY <1>3, <1>4 DEF FlightInv

LEMMA FlightCheck ==
  ASSUME FrameInv, FlightInv, CheckPending
  PROVE  FlightInv'
<1>1. /\ UNCHANGED <<nodes, par, hash, wk, built, pend>> /\ pc = "check"
      /\ \/ /\ pend[k] = 0 /\ ~submitted[k] /\ submitted' = [submitted EXCEPT ![k] = TRUE] /\ hashWg' = hashWg + 1
            /\ pc' = "enqueue" /\ k' = k
         \/ ~(pend[k] = 0 /\ ~submitted[k]) /\ k' = k + 1 /\ pc' = "add" /\ UNCHANGED <<submitted, hashWg>>
  BY DEF CheckPending, storeVars
<1>2. /\ par /\ DueInv /\ WgInv /\ k \in Frames /\ k \in Int /\ Frames \in SUBSET Int
      /\ built[k] /\ ~Leaf(k) /\ submitted \in [Frames -> BOOLEAN]
  <2>1. par /\ k \in Frames /\ built[k] /\ ~Leaf(k)
    BY <1>1 DEF FrameInv, TodoInv, WTypes, Mid
  <2>. QED BY <2>1, Basics DEF FlightInv, FrameInv, WTypes
<1>3. \A f \in Frames : Finished(f)' <=> Finished(f)
  BY <1>1 DEF Finished, Held
<1>4. Frames' = Frames /\ (\A i : Leaf(i)' = Leaf(i)) /\ \A p \in Frames : Begun(p)' <=> Begun(p)
  BY <1>1, <1>2, SameNodes DEF Begun, Mid
<1>5. \A p \in Frames : Begun(p) /\ ~Leaf(p) => built[p]
  BY <1>1, <1>2 DEF DueInv
<1>6. CASE pend[k] = 0 /\ ~submitted[k]
  <2>1. submitted' = [submitted EXCEPT ![k] = TRUE] /\ hashWg' = hashWg + 1 /\ pc' = "enqueue" /\ k' = k
    BY <1>1, <1>6
  <2>2. WgInv'
    BY <1>1, <1>2, <1>6, <2>1, FlightPut DEF Closing
  <2>3. \A p \in Frames : submitted'[p] <=> submitted[p] \/ p = k
    BY <1>2, <2>1
  <2>4. DueInv'
    BY <1>1, <1>2, <1>4, <1>5, <2>1, <2>3 DEF DueInv
  <2>. QED BY <2>2, <2>4 DEF FlightInv
<1>7. CASE ~(pend[k] = 0 /\ ~submitted[k])
  <2>1. k' = k + 1 /\ pc' = "add" /\ UNCHANGED <<submitted, hashWg>>
    BY <1>1, <1>7
  <2>2. WgInv'
    BY <1>1, <1>2, <1>3, <2>1, FlightKeep DEF Closing
  <2>3. DueInv'
    BY <1>1, <1>2, <1>4, <1>5, <1>7, <2>1 DEF DueInv
  <2>. QED BY <2>2, <2>3 DEF FlightInv
<1>. QED BY <1>6, <1>7

LEMMA FlightEnqueue ==
  ASSUME FrameInv, FlightInv, Enqueue
  PROVE  FlightInv'
<1>1. /\ UNCHANGED <<nodes, par, hash, wk, built, pend, submitted, hashWg>> /\ pc = "enqueue" /\ k' = k + 1 /\ pc' = "add"
  BY DEF Enqueue, storeVars, frameVars
<1>2. par /\ DueInv /\ WgInv /\ k \in Frames /\ k \in Int /\ Frames \in SUBSET Int /\ submitted[k]
  <2>1. par /\ k \in Frames
    BY <1>1 DEF FrameInv, TodoInv, WTypes, Mid
  <2>. QED BY <1>1, <2>1, Basics DEF FlightInv, FrameInv, PoolInv, EnqueueInv
<1>3. \A f \in Frames : Finished(f)' <=> Finished(f)
  BY <1>1 DEF Finished, Held
<1>4. Frames' = Frames /\ (\A i : Leaf(i)' = Leaf(i)) /\ \A p \in Frames : Begun(p)' <=> Begun(p)
  BY <1>1, <1>2, SameNodes DEF Begun, Mid
<1>5. WgInv'
  BY <1>1, <1>2, <1>3, FlightKeep DEF Closing
<1>6. DueInv'
  BY <1>1, <1>2, <1>4 DEF DueInv
<1>. QED BY <1>5, <1>6 DEF FlightInv

LEMMA FlightStep ==
  ASSUME FrameInv, FlightInv, [Next]_vars
  PROVE  FlightInv'
<1>1. CASE AddSeq
  BY <1>1 DEF AddSeq, storeVars, FlightInv
<1>2. CASE Malformed \/ FastFails \/ FastRefused \/ SetFastSeq \/ StreamEnds \/ FinishStreaming \/ Join
           \/ FinalizeStore \/ Drain
           \/ Writer \/ Commit \/ Dispatcher \/ UNCHANGED vars
  <2>1. UNCHANGED <<nodes, par, k, hash, pend, built, submitted, hashWg, wk>>
    BY <1>2 DEF Malformed, FastFails, FastRefused, SetFastSeq, StreamEnds, FinishStreaming, Join, FinalizeStore,
               Drain, Writer, WriterSet,
               WriterExit, Commit, Dispatcher, DispTake, DispSend, DispExit, vars, storeVars, mainVars, frameVars, queueVars
  <2>2. pc' = pc \/ (pc \in Quiet /\ pc' \in Quiet)
    BY <1>2 DEF Malformed, FastFails, FastRefused, SetFastSeq, StreamEnds, FinishStreaming, Join, FinalizeStore,
               Drain, Writer, WriterSet,
               WriterExit, Commit, Dispatcher, DispTake, DispSend, DispExit, vars, Adding, Fails, Quiet
  <2>3. pc' \in Closing => pc \in Closing \/ hashWg = 0
    BY <1>2 DEF Malformed, FastFails, FastRefused, SetFastSeq, StreamEnds, FinishStreaming, Join, FinalizeStore,
               Drain, Writer, WriterSet,
               WriterExit, Commit, Dispatcher, DispTake, DispSend, DispExit, vars, Adding, Fails, Closing
  <2>4. \A f \in Frames : Finished(f)' <=> Finished(f)
    BY <2>1 DEF Finished, Held
  <2>. QED BY <2>1, <2>2, <2>3, <2>4, FlightCalm
<1>. QED
  BY <1>1, <1>2, FlightLeaf, FlightInner, FlightInside, FlightCheck, FlightEnqueue, FlightWorker, FlightCountOff,
     FlightPromote, FlightFrameDone DEF Next, Main, Worker

-----------------------------------------------------------------------------
(* The bytes kept for the root are those of the last frame.                *)

Past(f, S) == hash[f] # "none" /\ \A w \in Workers : wk[w].f = f => wk[w].at \notin S
UntilRoot  == {"hash", "root"}
UntilWrite == {"hash", "root", "write"}
RootInv ==
  /\ ~par => rootBytes = k - 1
  /\ par => (N > 0 /\ Past(N, UntilRoot) /\ Waiting(stack) \subseteq {N} => rootBytes = N)

(* A frame comes past the root test by KeepRoot, past the write queue by   *)
(* PushWrite.                                                              *)
LEMMA PastNew ==
  ASSUME FrameInv, par, [Next]_vars, NEW f \in Frames, NEW S \in {UntilRoot, UntilWrite}, Past(f, S)', ~Past(f, S)
  PROVE  \E w \in Workers : wk[w].f = f /\ (KeepRoot(w) \/ PushWrite(w)) /\ (S = UntilRoot => KeepRoot(w))
                            /\ (S = UntilWrite => PushWrite(w))
<1>0. f # 0 /\ wk \in WkType /\ hash \in [Frames -> {"none", "right", "wrong"}]
  BY Basics DEF FrameInv, WTypes
<1>1. CASE ~\E w \in Workers : Worker(w)
  <2>1. hash' = hash /\ wk' = wk
    <3>1. ~AddSeq
      BY DEF AddSeq
    <3>2. CASE Main
      BY <3>1, <3>2 DEF Main, Malformed, FastRefused, SetFastSeq, AddLeafPar, AddInnerPar, LinkChild, MarkBuilt,
                 CheckPending, Enqueue, StreamEnds,
             FinishStreaming, Join, FinalizeStore, Drain, frameVars
    <3>3. CASE FastFails \/ Dispatcher \/ Writer \/ Commit \/ UNCHANGED vars
      BY <3>3 DEF FastFails, Dispatcher, DispTake, DispSend, DispExit, Writer, WriterSet, WriterExit, Commit, vars, frameVars
    <3>. QED BY <1>1, <3>2, <3>3 DEF Next
  <2>. QED BY <2>1 DEF Past
<1>2. CASE \E w \in Workers : Worker(w)
  <2>1. PICK w \in Workers : Worker(w)
    BY <1>2
  <2>2. /\ \A x \in Workers : x # w => wk'[x] = wk[x]
        /\ \A g \in Frames : g # wk[w].f => hash'[g] = hash[g]
    <3>1. \A x \in Workers : x # w => wk'[x] = wk[x]
      BY <1>0, <2>1 DEF Worker, WorkerTake, HashFrame, KeepRoot, PushWrite, HashDone, CountOff, Promote, FrameDone,
             Goes, WkType
    <3>2. \A g \in Frames : g # wk[w].f => hash'[g] = hash[g]
      BY <1>0, <2>1 DEF Worker, WorkerTake, HashFrame, KeepRoot, PushWrite, HashDone, CountOff, Promote, FrameDone, frameVars
    <3>. QED BY <3>1, <3>2
  <2>3. wk[w].f = f
    BY <2>2 DEF Past
  <2>4. wk[w].at \in UntilWrite /\ (S = UntilRoot => wk[w].at \in UntilRoot)
    <3>1. hash[f] = "none" => wk[w].at = "hash"
      BY <1>0, <2>3 DEF FrameInv, PoolInv, WorkerInv
    <3>2. \A x \in Workers : wk[x].f = f => x = w
      BY <1>0, <2>3 DEF FrameInv, PoolInv, HeldInv
    <3>. QED BY <3>1, <3>2 DEF Past, UntilRoot, UntilWrite
  <2>5. CASE HashFrame(w)
    <3>1. wk'[w].at = "root" /\ wk'[w].f = f
      BY <2>3, <2>5, WkGoes DEF HashFrame, Ats
    <3>. QED BY <3>1 DEF Past, UntilRoot, UntilWrite
  <2>6. CASE KeepRoot(w)
    <3>1. wk'[w].at = "write" /\ wk'[w].f = f
      BY <2>3, <2>6, WkGoes DEF KeepRoot, Ats
    <3>2. S # UntilWrite
      BY <3>1 DEF Past, UntilWrite
    <3>. QED BY <2>3, <2>6, <3>2
  <2>7. CASE PushWrite(w)
    <3>1. S # UntilRoot
      BY <2>4, <2>7 DEF PushWrite, UntilRoot
    <3>. QED BY <2>3, <2>7, <3>1
  <2>. QED BY <2>1, <2>4, <2>5, <2>6, <2>7 DEF Worker, WorkerTake, HashDone, CountOff, Promote, FrameDone, UntilWrite
<1>. QED BY <1>1, <1>2

LEMMA RootInit == Init => RootInv
<1>. SUFFICES ASSUME Init PROVE RootInv
  OBVIOUS
<1>1. N \in Nat /\ Frames = 1 .. N
  BY WaveConstants DEF Init, N, Frames
<1>2. N > 0 => hash[N] = "none"
  BY <1>1 DEF Init
<1>3. rootBytes = k - 1
  BY DEF Init
<1>. QED BY <1>2, <1>3 DEF RootInv, Past

(* What the steps do to the stack and to the root's bytes.                 *)
LEMMA StackGrows ==
  ASSUME FrameInv, par, [Next]_vars
  PROVE  AddInnerPar \/ Waiting(stack) \subseteq Waiting(stack')
<1>1. CASE Main
  <2>1. AddInnerPar \/ stack' = stack \/ (stack' = Append(stack, k) /\ k \in Frames)
    <3>1. ~AddSeq
      BY DEF AddSeq
    <3>2. CheckPending \/ Enqueue => k \in Frames
      BY DEF CheckPending, Enqueue, FrameInv, WTypes, Mid
    <3>. QED BY <1>1, <3>1, <3>2 DEF Main, Malformed, FastRefused, SetFastSeq, AddLeafPar, Adding, LinkChild,
               MarkBuilt, CheckPending, Enqueue,
             StreamEnds, FinishStreaming, Join, FinalizeStore, Drain, mainVars
  <2>2. stack \in Seq(Frames)
    BY DEF FrameInv, WTypes
  <2>3. stack' = Append(stack, k) /\ k \in Frames => Waiting(stack') = Waiting(stack) \cup {k}
    BY <2>2, WaitAppended
  <2>. QED BY <2>1, <2>3
<1>2. CASE ~Main
  <2>1. stack' = stack
    <3>1. CASE FastFails \/ Dispatcher \/ Writer \/ Commit \/ UNCHANGED vars
      BY <3>1 DEF FastFails, Dispatcher, DispTake, DispSend, DispExit, Writer, WriterSet, WriterExit, Commit, vars, mainVars
    <3>2. CASE \E w \in Workers : Worker(w)
      BY <3>2 DEF Worker, WorkerTake, HashFrame, KeepRoot, PushWrite, HashDone, CountOff, Promote, FrameDone, mainVars
    <3>. QED BY <1>2, <3>1, <3>2 DEF Next
  <2>. QED BY <2>1
<1>. QED BY <1>1, <1>2

LEMMA RootSame ==
  ASSUME FrameInv, [Next]_vars, rootBytes' # rootBytes
  PROVE  AddSeq \/ \E w \in Workers : KeepRoot(w)
<1>1. CASE Main
  BY <1>1 DEF Main, Malformed, FastRefused, SetFastSeq, AddLeafPar, AddInnerPar, LinkChild, MarkBuilt, CheckPending,
             Enqueue, StreamEnds,
             FinishStreaming, Join, FinalizeStore, Drain, outVars
<1>2. CASE FastFails \/ Dispatcher \/ Writer \/ Commit \/ UNCHANGED vars
  BY <1>2 DEF FastFails, Dispatcher, DispTake, DispSend, DispExit, Writer, WriterSet, WriterExit, Commit, vars, outVars
<1>3. CASE \E w \in Workers : Worker(w)
  BY <1>3 DEF Worker, WorkerTake, HashFrame, PushWrite, HashDone, CountOff, Promote, FrameDone, outVars
<1>. QED BY <1>1, <1>2, <1>3 DEF Next

LEMMA RootInvStep ==
  ASSUME FrameInv, RootsInv, RootInv, [Next]_vars
  PROVE  RootInv'
<1>0. N \in Nat /\ Frames = 1 .. N /\ N' = N /\ par' = par /\ k \in Int /\ Frames \in SUBSET Int
  BY Basics, Progress, SameNodes
<1>1. CASE ~par
  <2>1. CASE AddSeq
    BY <1>0, <1>1, <2>1 DEF AddSeq, RootInv
  <2>2. CASE ~AddSeq
    <3>1. \A w \in Workers : ~KeepRoot(w)
      BY <1>1 DEF FrameInv, SeqInv, KeepRoot
    <3>2. rootBytes' = rootBytes
      BY <2>2, <3>1, RootSame
    <3>3. ~Begins /\ pc \notin Mid /\ pc' \notin Mid
      <4>1. ~Begins
        BY <1>1, <2>2 DEF Begins, AddLeafPar, AddInnerPar
      <4>2. SeqInv /\ SeqInv'
        BY <1>0, <1>1, FrameStep DEF FrameInv
      <4>. QED BY <4>1, <4>2 DEF SeqInv, Quiet, Mid
    <3>4. k' = k
      <4>1. k' \in Int
        BY FrameStep, <1>0 DEF FrameInv, WTypes
      <4>2. Last' = Last
        BY <3>3, Progress
      <4>3. Last = k - 1
        BY <3>3 DEF Last
      <4>4. Last' = k' - 1
        BY <3>3 DEF Last
      <4>5. k' - 1 = k - 1 /\ k \in Int
        BY <1>0, <4>2, <4>3, <4>4
      <4>6. \A a, b \in Int : a - 1 = b - 1 => a = b
        OBVIOUS
      <4>. QED BY <4>1, <4>5, <4>6
    <3>. QED BY <1>0, <1>1, <3>2, <3>4 DEF RootInv
  <2>. QED BY <2>1, <2>2
<1>2. CASE par
  <2>. SUFFICES ASSUME N > 0, Past(N, UntilRoot)', Waiting(stack') \subseteq {N} PROVE rootBytes' = N
    <3>1. Waiting(stack)' = Waiting(stack')
      BY DEF Waiting
    <3>2. PICK n \in Nat : n = N /\ n = N'
      BY <1>0
    <3>3. Past(N, UntilRoot)' <=> Past(n, UntilRoot)'
      BY <3>2 DEF Past
    <3>. QED BY <1>0, <1>2, <3>1, <3>2, <3>3 DEF RootInv
  <2>1. PICK n \in Frames : n = N /\ n = N'
    BY <1>0
  <2>2. Past(n, UntilRoot)'
    BY <2>1 DEF Past
  <2>3. parent[n] = 0
    <3>. SUFFICES ASSUME parent[n] # 0 PROVE FALSE
      OBVIOUS
    <3>1. n < parent[n] /\ parent[n] \in 0 .. N
      BY <1>2 DEF FrameInv, TreeInv, ParentInv, WTypes
    <3>. QED BY <1>0, <2>1, <3>1
  <2>4. CASE ~Past(n, UntilRoot)
    <3>1. PICK w \in Workers : wk[w].f = n /\ KeepRoot(w)
      BY <1>2, <2>2, <2>4, PastNew
    <3>. QED BY <2>1, <2>3, <3>1 DEF KeepRoot
  <2>5. CASE Past(n, UntilRoot)
    <3>1. Begun(n) /\ ~Adding
      <4>1. Begun(n)
        BY <1>2, <2>5 DEF FrameInv, PoolInv, HashInv, TreeInv, SubmittedInv, Past
      <4>2. Adding => ~Begun(n)
        BY <1>0, <2>1 DEF Adding, Begun, Mid
      <4>. QED BY <4>1, <4>2
    <3>2. Waiting(stack) \subseteq {N}
      BY <1>2, <3>1, StackGrows DEF AddInnerPar
    <3>3. rootBytes = N
      <4>1. Past(N, UntilRoot)
        BY <2>1, <2>5
      <4>. QED BY <1>2, <3>2, <4>1 DEF RootInv
    <3>4. ASSUME rootBytes' # rootBytes PROVE rootBytes' = N
      <4>1. PICK w \in Workers : KeepRoot(w)
        BY <1>2, <3>4, RootSame DEF AddSeq
      <4>2. rootBytes' = wk[w].f /\ parent[wk[w].f] = 0
        BY <3>4, <4>1 DEF KeepRoot
      <4>3. PICK g \in Frames : g = wk[w].f /\ submitted[g]
        BY <1>2, <4>1, Holding DEF KeepRoot
      <4>4. Begun(g) /\ g \in Waiting(RefStack)
        BY <1>2, <4>2, <4>3 DEF FrameInv, TreeInv, SubmittedInv, RootsInv
      <4>5. g \in Waiting(stack) \/ (g = k /\ pc \in Mid)
        <5>1. CASE RefStack = stack
          BY <4>4, <5>1
        <5>2. CASE RefStack = Append(stack, k) /\ pc \in Mid
          <6>1. stack \in Seq(Frames) /\ k \in Frames
            BY <5>2 DEF FrameInv, WTypes
          <6>2. Waiting(RefStack) = Waiting(stack) \cup {k}
            BY <5>2, <6>1, WaitAppended
          <6>. QED BY <4>4, <5>2, <6>2
        <5>. QED BY <5>1, <5>2 DEF RefStack
      <4>6. g = k /\ pc \in Mid => g = N
        <5>1. n <= k
          BY <1>0, <2>1, <3>1 DEF Begun
        <5>. QED BY <1>0, <2>1, <4>3, <5>1
      <4>. QED BY <3>2, <4>2, <4>3, <4>5, <4>6
    <3>. QED BY <3>3, <3>4
  <2>. QED BY <2>4, <2>5
<1>. QED BY <1>1, <1>2 DEF FrameInv, WTypes

-----------------------------------------------------------------------------
(* The entries on their way to the database.                               *)

Entry(i) == << <<nodes[i].v, NonceRef(i)>>, Value("right", i) >>
OutAll   == batch \cup db \cup UNION Waiting(bwCh)
(* The frame has left the write queue; sequentially, the main thread has   *)
(* set its entry.                                                          *)
Sent(i)  == IF par THEN Past(i, UntilWrite) /\ i \notin Waiting(writeQ) ELSE i < k
(* The main thread has set the f/ entry of a leaf. *)
FastSent(i) == Leaf(i) /\ ~fast /\ Begun(i) /\ ~(i = k - 1 /\ pc = "fast")
FastSet  == {FastEntry(i) : i \in {j \in Frames : Leaf(j)}}
RaceInv  == /\ raced => par /\ ~fast
            /\ pc = "fast" => ~par /\ ~fast /\ k - 1 \in Frames /\ Leaf(k - 1)
InRef    == batch \in SUBSET RefDB /\ db \in SUBSET RefDB /\ bwCh \in Seq(SUBSET RefDB)
OutTypes == ~raced => InRef
SentInv  == ~raced /\ ~bwErr =>
  \A i \in Frames : /\ Sent(i) /\ writer # "failed" => Entry(i) \in OutAll
                    /\ FastSent(i) => FastEntry(i) \in OutAll
QueuedInv ==
  /\ writeQ \in Seq(Frames)
  /\ par => \A i \in Waiting(writeQ) : hash[i] # "none"
  /\ ~par => writer = "gone" /\ writeQ = <<>>
  /\ pc \in {"flush", "end"} => writeQ = <<>>
FinalInv ==
  pc \in {"flush", "end"} /\ ~failed =>
    /\ batch = {} /\ WellFormed /\ k = N + 1
    /\ raced \/ bwErr \/ RefDB \subseteq OutAll \cup (IF fast THEN FastSet ELSE {})
ResultInv ==
  /\ result # "none" => pc = "end"
  /\ pc = "end" => bwCh = <<>>
  /\ result = "ok" => WellFormed /\ (raced \/ db = RefDB)
OutInv == RaceInv /\ OutTypes /\ SentInv /\ QueuedInv /\ FinalInv /\ ResultInv

LEMMA OutInit == Init => OutInv
<1>. SUFFICES ASSUME Init PROVE OutInv
  OBVIOUS
<1>1. N \in Nat /\ Frames = 1 .. N
  BY WaveConstants DEF Init, N, Frames
<1>2. OutTypes /\ RaceInv
  BY DEF Init, OutTypes, InRef, RaceInv
<1>3. SentInv
  <2>1. \A i \in Frames : ~Past(i, UntilWrite) /\ ~(i < k) /\ ~Begun(i)
    BY <1>1 DEF Init, Past, Begun, Mid
  <2>. QED BY <2>1 DEF SentInv, Sent, FastSent
<1>4. QueuedInv
  <2>1. writeQ = <<>> /\ writeQ \in Seq(Frames)
    BY DEF Init
  <2>2. Waiting(writeQ) = {}
    BY <2>1, WaitIn
  <2>. QED BY <2>1, <2>2 DEF Init, QueuedInv
<1>5. FinalInv /\ ResultInv
  BY DEF Init, FinalInv, ResultInv
<1>. QED BY <1>2, <1>3, <1>4, <1>5 DEF OutInv

LEMMA OutGives == OutInv => SameAsReference
BY DEF OutInv, ResultInv, RaceInv, SameAsReference

LEMMA WaitHead ==
  ASSUME NEW S, NEW q \in Seq(S), q # <<>>
  PROVE  Waiting(q) = Waiting(Tail(q)) \cup {Head(q)} /\ Tail(q) \in Seq(S) /\ Head(q) \in S
<1>1. Len(q) \in Nat \ {0} /\ Len(Tail(q)) = Len(q) - 1 /\ Head(q) = q[1] /\ Tail(q) \in Seq(S) /\ Head(q) \in S
  OBVIOUS
<1>2. \A i \in 1 .. Len(q) - 1 : Tail(q)[i] = q[i + 1]
  OBVIOUS
<1>3. ASSUME NEW i \in 1 .. Len(q) - 1 PROVE Tail(q)[i] \in Waiting(q)
  <2>1. i + 1 \in 1 .. Len(q) /\ Tail(q)[i] = q[i + 1]
    BY <1>1, <1>2
  <2>. QED BY <2>1 DEF Waiting
<1>4. ASSUME NEW i \in 1 .. Len(q), i # 1 PROVE q[i] \in Waiting(Tail(q))
  <2>1. i - 1 \in 1 .. Len(q) - 1 /\ Tail(q)[i - 1] = q[i]
    BY <1>1, <1>2, <1>4
  <2>. QED BY <1>1, <2>1 DEF Waiting
<1>5. 1 \in 1 .. Len(q)
  BY <1>1
<1>. QED BY <1>1, <1>3, <1>4, <1>5 DEF Waiting

(* set and flush lose no entry. *)
LEMMA SetAdds ==
  ASSUME InRef, NEW e \in RefDB, Set(e), nodes' = nodes, db' = db, RefDB' = RefDB
  PROVE  OutAll' = OutAll \cup {e} /\ batch' \in SUBSET RefDB /\ bwCh' \in Seq(SUBSET RefDB)
<1>1. batch \in SUBSET RefDB /\ bwCh \in Seq(SUBSET RefDB) /\ batch \cup {e} \in SUBSET RefDB
  BY DEF InRef
<1>2. Waiting(bwCh)' = Waiting(bwCh')
  BY DEF Waiting
<1>3. CASE Full(e)
  <2>1. batch' = {} /\ bwCh' = Append(bwCh, batch \cup {e})
    BY <1>3 DEF Set
  <2>2. Waiting(bwCh') = Waiting(bwCh) \cup {batch \cup {e}} /\ bwCh' \in Seq(SUBSET RefDB)
    <3>. DEFINE b == batch \cup {e}
                T == SUBSET RefDB
    <3>1. b \in T /\ bwCh \in Seq(T) /\ bwCh' = Append(bwCh, b)
      BY <1>1, <2>1
    <3>. HIDE DEF b, T
    <3>2. Waiting(Append(bwCh, b)) = Waiting(bwCh) \cup {b} /\ Append(bwCh, b) \in Seq(T)
      BY <3>1, WaitAppended
    <3>3. Waiting(bwCh') = Waiting(bwCh) \cup {b} /\ bwCh' \in Seq(T)
      BY <3>1, <3>2
    <3>. QED BY <3>3 DEF b, T
  <2>. QED BY <1>2, <2>1, <2>2 DEF OutAll
<1>4. CASE ~Full(e)
  <2>1. batch' = batch \cup {e} /\ bwCh' = bwCh
    BY <1>4 DEF Set
  <2>. QED BY <1>1, <1>2, <2>1 DEF OutAll
<1>. QED BY <1>3, <1>4

LEMMA SameRef ==
  ASSUME nodes' = nodes
  PROVE  /\ RefDB' = RefDB /\ WellFormed' = WellFormed /\ FastSet' = FastSet
         /\ \A i : Entry(i)' = Entry(i) /\ FastEntry(i)' = FastEntry(i) /\ (Leaf(i)' <=> Leaf(i))
<1>1. N' = N /\ Frames' = Frames /\ RootsAfter' = RootsAfter
  BY SameNodes, SameRoots
<1>2. \A i : NonceRef(i)' = NonceRef(i) /\ Entry(i)' = Entry(i)
  BY DEF NonceRef, Entry, Value
<1>3. FastSet' = FastSet /\ \A i : FastEntry(i)' = FastEntry(i) /\ (Leaf(i)' <=> Leaf(i))
  BY <1>1 DEF FastSet, FastEntry, Value, Leaf, Frames, N
<1>4. RefDB' = RefDB
  BY <1>1, <1>3 DEF RefDB, NonceRef, Value, Marker, Frames, N, FastEntry, Leaf
<1>. QED BY <1>1, <1>2, <1>3, <1>4 DEF WellFormed

LEMMA RefHas == /\ \A i \in Frames : Entry(i) \in RefDB /\ (Leaf(i) => FastEntry(i) \in RefDB)
                /\ FastSet \subseteq RefDB
BY DEF Entry, RefDB, FastSet

(* A step that sets nothing: entries only move on, or are lost with bwErr. *)
LEMMA OutMoves ==
  ASSUME InRef, UNCHANGED <<nodes, batch>>,
         (UNCHANGED <<bwCh, db, bwErr>>) \/ Commit
  PROVE  /\ batch' \in SUBSET RefDB /\ db' \in SUBSET RefDB /\ bwCh' \in Seq(SUBSET RefDB)
         /\ (bwErr => bwErr') /\ (bwErr' \/ OutAll' = OutAll)
<1>2. Waiting(bwCh)' = Waiting(bwCh')
  BY DEF Waiting
<1>3. CASE UNCHANGED <<bwCh, db, bwErr>>
  BY <1>2, <1>3 DEF InRef, OutAll
<1>4. CASE Commit
  <2>1. bwCh # <<>> /\ bwCh' = Tail(bwCh)
    BY <1>4 DEF Commit
  <2>2. Waiting(bwCh) = Waiting(bwCh') \cup {Head(bwCh)} /\ bwCh' \in Seq(SUBSET RefDB) /\ Head(bwCh) \in SUBSET RefDB
    BY <2>1, WaitHead DEF InRef
  <2>3. CASE db' = db \cup Head(bwCh) /\ bwErr' = bwErr
    BY <1>2, <2>2, <2>3 DEF OutAll, InRef
  <2>4. CASE bwErr' = TRUE /\ db' = db
    BY <2>2, <2>4 DEF InRef
  <2>. QED BY <1>4, <2>3, <2>4 DEF Commit
<1>. QED BY <1>3, <1>4

(* The steps that set no entry, push none and ingest none. *)
LEMMA OutCalm ==
  ASSUME FrameInv, OutInv, [Next]_vars,
         ~AddSeq, ~SetFastSeq, ~FastRefused, ~AddLeafPar, ~FinalizeStore, ~Drain, ~WriterSet,
         \A w \in Workers : ~PushWrite(w)
  PROVE  OutInv'
<1>0. /\ N \in Nat /\ Frames = 1 .. N /\ Frames' = Frames /\ N' = N /\ nodes' = nodes /\ par' = par /\ par \in BOOLEAN
      /\ RefDB' = RefDB /\ WellFormed' = WellFormed /\ FastSet' = FastSet
      /\ \A i : Entry(i)' = Entry(i) /\ FastEntry(i)' = FastEntry(i) /\ (Leaf(i)' <=> Leaf(i))
  BY Basics, Progress, SameNodes, SameRef DEF FrameInv, WTypes
<1>1. /\ UNCHANGED <<fast, raced, batch, writeQ, result>> /\ ((UNCHANGED <<bwCh, db, bwErr>>) \/ Commit)
      /\ writer' = writer \/ (writer' = "gone" /\ writer # "failed" /\ par)
      /\ (~failed' => ~failed)
  <2>1. CASE Main
    BY <2>1 DEF Main, Malformed, AddInnerPar, LinkChild, MarkBuilt, CheckPending, Enqueue, StreamEnds,
             FinishStreaming, Join, storeVars, outVars, Adding, Fails
  <2>2. CASE FastFails \/ Dispatcher \/ UNCHANGED vars
    BY <2>2 DEF FastFails, Dispatcher, DispTake, DispSend, DispExit, vars, storeVars, outVars, Adding, Fails
  <2>3. CASE WriterExit \/ Commit
    <3>1. WriterExit => par
      BY DEF WriterExit, OutInv, QueuedInv
    <3>. QED BY <2>3, <3>1 DEF WriterExit, Commit, storeVars, outVars
  <2>4. CASE \E w \in Workers : Worker(w)
    BY <2>4 DEF Worker, WorkerTake, HashFrame, KeepRoot, HashDone, CountOff, Promote, FrameDone, storeVars, outVars
  <2>. QED BY <2>1, <2>2, <2>3, <2>4 DEF Next, Writer
<1>2. /\ pc \in {"fast", "flush", "end"} => UNCHANGED <<pc, k, failed>>
      /\ pc \notin {"fast", "flush", "end"} => pc' \notin {"fast", "flush", "end"}
  <2>1. CASE Main
    BY <2>1 DEF Main, Malformed, AddInnerPar, LinkChild, MarkBuilt, CheckPending, Enqueue, StreamEnds,
             FinishStreaming, Join, Adding, Fails
  <2>2. CASE FastFails \/ Dispatcher \/ Writer \/ Commit \/ UNCHANGED vars
    BY <2>2 DEF FastFails, Dispatcher, DispTake, DispSend, DispExit, Writer, WriterSet, WriterExit, Commit, vars, mainVars,
             Adding, Fails
  <2>3. CASE \E w \in Workers : Worker(w)
    BY <2>3 DEF Worker, WorkerTake, HashFrame, KeepRoot, PushWrite, HashDone, CountOff, Promote, FrameDone, mainVars
  <2>. QED BY <2>1, <2>2, <2>3 DEF Next
<1>3. RaceInv'
  BY <1>0, <1>1, <1>2 DEF OutInv, RaceInv
<1>4. ASSUME ~raced
      PROVE  InRef' /\ (bwErr => bwErr') /\ (bwErr' \/ OutAll' = OutAll)
  BY <1>0, <1>1, <1>4, OutMoves DEF OutInv, OutTypes, InRef
<1>5. OutTypes'
  BY <1>1, <1>4 DEF OutTypes
<1>6. SentInv'
  <2>. SUFFICES ASSUME ~raced, ~bwErr', NEW i \in Frames
       PROVE  /\ Sent(i)' /\ writer' # "failed" => Entry(i) \in OutAll'
              /\ FastSent(i)' => FastEntry(i) \in OutAll'
    BY <1>0, <1>1 DEF SentInv
  <2>0. ~bwErr /\ OutAll' = OutAll
    BY <1>4
  <2>1. ASSUME Sent(i)' PROVE Sent(i)
    <3>1. CASE par
      <4>1. Past(i, UntilWrite)' /\ i \notin Waiting(writeQ)
        BY <1>0, <1>1, <2>1, <3>1 DEF Sent, Waiting
      <4>2. Past(i, UntilWrite)
        <5>1. UntilWrite # UntilRoot
          BY DEF UntilWrite, UntilRoot
        <5>. QED BY <3>1, <4>1, <5>1, PastNew
      <4>. QED BY <3>1, <4>1, <4>2 DEF Sent
    <3>2. CASE ~par
      <4>1. i < k'
        BY <1>0, <2>1, <3>2 DEF Sent
      <4>2. Begun(i)' /\ ~Begins
        BY <1>0, <3>2, <4>1 DEF Begun, Begins, AddLeafPar, AddInnerPar
      <4>3. Begun(i)
        BY <4>2, Progress
      <4>4. pc \notin Mid
        BY <3>2 DEF FrameInv, TodoInv
      <4>. QED BY <3>2, <4>3, <4>4 DEF Begun, Sent
    <3>. QED BY <3>1, <3>2
  <2>2. ASSUME FastSent(i)' PROVE FastSent(i)
    <3>1. Leaf(i) /\ ~fast /\ Begun(i)' /\ ~(i = k' - 1 /\ pc' = "fast")
      BY <1>0, <1>1, <2>2 DEF FastSent
    <3>2. Begun(i)
      <4>1. CASE ~Begins
        BY <3>1, <4>1, Progress
      <4>2. CASE Begins
        <5>1. ~Leaf(k) /\ (Begun(i)' <=> Begun(i) \/ i = k)
          BY <4>2, Progress DEF Begins, AddInnerPar
        <5>. QED BY <3>1, <5>1
      <4>. QED BY <4>1, <4>2
    <3>3. ~(i = k - 1 /\ pc = "fast")
      BY <1>2, <3>1
    <3>. QED BY <3>1, <3>2, <3>3 DEF FastSent
  <2>3. writer' # "failed" => writer # "failed"
    BY <1>1
  <2>. QED BY <2>0, <2>1, <2>2, <2>3 DEF OutInv, SentInv
<1>7. QueuedInv'
  <2>1. par => \A i \in Waiting(writeQ') : hash'[i] # "none"
    <3>. SUFFICES ASSUME par, NEW i \in Waiting(writeQ) PROVE hash'[i] # "none"
      BY <1>1
    <3>1. hash[i] # "none" /\ i \in Frames
      BY WaitIn DEF OutInv, QueuedInv
    <3>2. hash' = hash \/ \E w \in Workers : HashFrame(w)
      <4>1. CASE Main
        BY <4>1 DEF Main, Malformed, AddInnerPar, LinkChild, MarkBuilt, CheckPending, Enqueue, StreamEnds,
             FinishStreaming, Join, frameVars
      <4>2. CASE FastFails \/ Dispatcher \/ Writer \/ Commit \/ UNCHANGED vars
        BY <4>2 DEF FastFails, Dispatcher, DispTake, DispSend, DispExit, Writer, WriterSet, WriterExit, Commit, vars, frameVars
      <4>3. CASE \E w \in Workers : Worker(w)
        BY <4>3 DEF Worker, WorkerTake, KeepRoot, PushWrite, HashDone, CountOff, Promote, FrameDone, frameVars
      <4>. QED BY <4>1, <4>2, <4>3 DEF Next
    <3>. QED BY <3>1, <3>2 DEF HashFrame, FrameInv, WTypes
  <2>2. writeQ' \in Seq(Frames) /\ (~par => writer' = "gone" /\ writeQ' = <<>>)
    BY <1>1 DEF OutInv, QueuedInv
  <2>3. pc' \in {"flush", "end"} => writeQ' = <<>>
    BY <1>1, <1>2 DEF OutInv, QueuedInv
  <2>4. Waiting(writeQ)' = Waiting(writeQ')
    BY DEF Waiting
  <2>. QED BY <1>0, <2>1, <2>2, <2>3, <2>4 DEF QueuedInv
<1>8. FinalInv'
  <2>. SUFFICES ASSUME pc' \in {"flush", "end"}, ~failed'
       PROVE  /\ batch' = {} /\ WellFormed /\ k' = N + 1
              /\ raced \/ bwErr' \/ RefDB \subseteq OutAll' \cup (IF fast THEN FastSet ELSE {})
    BY <1>0, <1>1 DEF FinalInv
  <2>1. pc \in {"flush", "end"} /\ ~failed /\ k' = k
    BY <1>1, <1>2
  <2>2. /\ batch = {} /\ WellFormed /\ k = N + 1
        /\ raced \/ bwErr \/ RefDB \subseteq OutAll \cup (IF fast THEN FastSet ELSE {})
    BY <2>1 DEF OutInv, FinalInv
  <2>. QED BY <1>1, <1>4, <2>1, <2>2
<1>9. ResultInv'
  <2>1. (pc = "end" => pc' = "end") /\ (pc' = "end" => pc = "end")
    BY <1>2
  <2>2. ASSUME pc = "end" PROVE bwCh' = <<>> /\ db' = db
    <3>1. bwCh = <<>> /\ ~Commit
      BY <2>2 DEF OutInv, ResultInv, Commit
    <3>. QED BY <1>1, <3>1
  <2>. QED BY <1>0, <1>1, <2>1, <2>2 DEF OutInv, ResultInv
<1>. QED BY <1>3, <1>5, <1>6, <1>7, <1>8, <1>9 DEF OutInv

LEMMA OutAddSeq ==
  ASSUME FrameInv, NonceInv', OutInv, AddSeq
  PROVE  OutInv'
<1>0. /\ N \in Nat /\ Frames = 1 .. N /\ Frames' = Frames /\ UNCHANGED <<nodes, par, fast>> /\ ~par /\ k \in Int
      /\ k \in Frames /\ k' = k + 1 /\ pc = "add" /\ UNCHANGED <<writeQ, writer, bwErr, db, raced, result>>
      /\ RefDB' = RefDB
      /\ \A i : Entry(i)' = Entry(i) /\ FastEntry(i)' = FastEntry(i) /\ (Leaf(i)' <=> Leaf(i))
  <2>1. /\ UNCHANGED <<nodes, par, fast>> /\ ~par /\ k \in Frames /\ k' = k + 1 /\ pc = "add"
        /\ UNCHANGED <<writeQ, writer, bwErr, db, raced, result>>
    BY DEF AddSeq, Adding, storeVars
  <2>. QED BY <2>1, Basics, SameNodes, SameRef
<1>a. /\ pc' \in {"add", "fast", "finish"} /\ (pc' = "finish" => bwErr)
      /\ pc' # "finish" => (pc' = "fast" <=> Leaf(k) /\ ~fast)
  BY AddSeqPc
<1>b. ~raced /\ InRef
  BY <1>0 DEF OutInv, RaceInv, OutTypes
<1>1. Set(Entry(k))
  <2>1. hash' = [hash EXCEPT ![k] = "right"] /\ hash \in [Frames -> {"none", "right", "wrong"}]
    BY AddSeqHash DEF FrameInv, WTypes
  <2>2. nonceOf'[k] = NonceRef(k)
    <3>1. PICK i \in Frames : i = k
      BY <1>0
    <3>2. Begun(i)'
      BY <1>0, <3>1 DEF Begun
    <3>3. nonceOf'[i] = NonceRef(i)'
      BY <1>0, <3>2 DEF NonceInv
    <3>4. NonceRef(i)' = NonceRef(i)
      BY <1>0 DEF NonceRef
    <3>. QED BY <3>1, <3>3, <3>4
  <2>3. PICK h \in {"right", "wrong"} : hash' = [hash EXCEPT ![k] = h] /\ Set(<< <<nodes[k].v, nonceOf'[k]>>, Value(h, k) >>)
    BY DEF AddSeq
  <2>4. h = "right"
    BY <1>0, <2>1, <2>3
  <2>. QED BY <2>2, <2>3, <2>4 DEF Entry
<1>2. OutAll' = OutAll \cup {Entry(k)} /\ batch' \in SUBSET RefDB /\ bwCh' \in Seq(SUBSET RefDB)
  <2>1. PICK e \in RefDB : e = Entry(k) /\ Set(e)
    BY <1>0, <1>1, RefHas
  <2>. QED BY <1>0, <1>b, <2>1, SetAdds
<1>3. OutTypes' /\ RaceInv'
  <2>1. InRef'
    BY <1>0, <1>b, <1>2 DEF InRef
  <2>2. pc' = "fast" => ~par /\ ~fast /\ k' - 1 \in Frames /\ Leaf(k' - 1)
    BY <1>0, <1>a
  <2>. QED BY <1>0, <1>b, <2>1, <2>2 DEF OutTypes, RaceInv
<1>4. SentInv'
  <2>. SUFFICES ASSUME NEW i \in Frames, ~bwErr
       PROVE  /\ i < k + 1 /\ writer # "failed" => Entry(i) \in OutAll'
              /\ FastSent(i)' => FastEntry(i) \in OutAll'
    BY <1>0 DEF SentInv, Sent
  <2>1. ASSUME i < k + 1, writer # "failed" PROVE Entry(i) \in OutAll'
    <3>1. CASE i = k
      BY <1>2, <3>1
    <3>2. CASE i < k
      BY <1>0, <1>b, <1>2, <2>1, <3>2 DEF OutInv, SentInv, Sent
    <3>. QED BY <1>0, <2>1, <3>1, <3>2
  <2>2. ASSUME FastSent(i)' PROVE FastEntry(i) \in OutAll'
    <3>1. Leaf(i) /\ ~fast /\ Begun(i)' /\ ~(i = k' - 1 /\ pc' = "fast")
      BY <1>0, <2>2 DEF FastSent
    <3>2. i # k
      BY <1>0, <1>a, <3>1
    <3>3. i < k
      BY <1>0, <1>a, <3>1, <3>2 DEF Begun, Mid
    <3>4. FastSent(i)
      BY <1>0, <3>1, <3>3 DEF FastSent, Begun
    <3>. QED BY <1>b, <1>2, <3>4 DEF OutInv, SentInv
  <2>. QED BY <2>1, <2>2
<1>5. QueuedInv' /\ FinalInv'
  BY <1>0, <1>a DEF OutInv, QueuedInv, FinalInv
<1>6. ResultInv'
  BY <1>0, <1>a DEF OutInv, ResultInv
<1>. QED BY <1>3, <1>4, <1>5, <1>6 DEF OutInv

LEMMA OutPush ==
  ASSUME FrameInv, FlightInv, OutInv, [Next]_vars, NEW w \in Workers, PushWrite(w)
  PROVE  OutInv'
<1>0. /\ N \in Nat /\ Frames = 1 .. N /\ Frames' = Frames /\ UNCHANGED <<nodes, par, fast, raced, pc, k, hash, writer, batch, bwCh, bwErr, db, failed, result>>
      /\ N' = N /\ RefDB' = RefDB /\ WellFormed' = WellFormed /\ FastSet' = FastSet
      /\ \A i : Entry(i)' = Entry(i) /\ FastEntry(i)' = FastEntry(i) /\ (Leaf(i)' <=> Leaf(i))
  <2>1. UNCHANGED <<nodes, par, fast, raced, pc, k, hash, writer, batch, bwCh, bwErr, db, failed, result>>
    BY DEF PushWrite, storeVars, mainVars, frameVars, outVars
  <2>. QED BY <2>1, Basics, SameNodes, SameRef
<1>1. par /\ wk[w].at = "write" /\ writeQ' = Append(writeQ, wk[w].f)
  <2>1. wk[w].at = "write" /\ writeQ' = Append(writeQ, wk[w].f)
    BY DEF PushWrite
  <2>. QED BY <2>1 DEF FrameInv, SeqInv
<1>2. PICK g \in Frames : g = wk[w].f /\ Held(g) /\ submitted[g] /\ hash[g] # "none"
  <2>1. wk[w].f \in Frames /\ Held(wk[w].f) /\ submitted[wk[w].f] /\ wk[w].f # 0
    BY <1>1, Holding
  <2>2. hash[wk[w].f] # "none"
    BY <1>1, <2>1 DEF FrameInv, PoolInv, WorkerInv
  <2>. QED BY <2>1, <2>2
<1>3. pc \notin Closing
  BY <1>1, <1>2 DEF FlightInv, WgInv, Flight, Finished
<1>4. Waiting(writeQ') = Waiting(writeQ) \cup {g} /\ writeQ' \in Seq(Frames)
  BY <1>1, <1>2, WaitAppended DEF OutInv, QueuedInv
<1>5. Waiting(writeQ)' = Waiting(writeQ') /\ OutAll' = OutAll
  BY <1>0 DEF Waiting, OutAll
<1>6. OutTypes' /\ RaceInv'
  BY <1>0 DEF OutInv, OutTypes, InRef, RaceInv
<1>7. SentInv'
  <2>0. \A i \in Frames : FastSent(i)' <=> FastSent(i)
    BY <1>0 DEF FastSent, Begun
  <2>. SUFFICES ASSUME NEW i \in Frames, Sent(i)', ~raced, ~bwErr, writer # "failed" PROVE Entry(i) \in OutAll
    BY <1>0, <1>5, <2>0 DEF OutInv, SentInv
  <2>1. Past(i, UntilWrite)' /\ i \notin Waiting(writeQ) /\ i # g
    BY <1>0, <1>1, <1>4, <1>5 DEF Sent
  <2>2. Past(i, UntilWrite)
    <3>1. wk'[w].f = wk[w].f /\ \A x \in Workers : x # w => wk'[x] = wk[x]
      BY WkGoes DEF PushWrite, Ats
    <3>. QED BY <1>0, <1>2, <2>1, <3>1 DEF Past
  <2>. QED BY <1>1, <2>1, <2>2 DEF Sent, OutInv, SentInv
<1>8. QueuedInv'
  <2>1. \A i \in Waiting(writeQ') : hash'[i] # "none"
    BY <1>0, <1>1, <1>2, <1>4 DEF OutInv, QueuedInv
  <2>. QED BY <1>0, <1>1, <1>3, <1>4, <1>5, <2>1 DEF QueuedInv, Closing
<1>9. FinalInv' /\ ResultInv'
  BY <1>0, <1>3, <1>5 DEF OutInv, FinalInv, ResultInv, Closing
<1>. QED BY <1>6, <1>7, <1>8, <1>9 DEF OutInv

LEMMA OutWriter ==
  ASSUME FrameInv, NonceInv, OutInv, WriterSet
  PROVE  OutInv'
<1>0. /\ N \in Nat /\ Frames = 1 .. N /\ Frames' = Frames /\ UNCHANGED <<nodes, par, fast, raced, pc, k, hash, wk, bwErr, db, failed, result>>
      /\ writer \in {"run", "failed"} /\ writeQ # <<>> /\ writeQ' = Tail(writeQ)
      /\ N' = N /\ RefDB' = RefDB /\ WellFormed' = WellFormed /\ FastSet' = FastSet
      /\ \A i : Entry(i)' = Entry(i) /\ FastEntry(i)' = FastEntry(i) /\ (Leaf(i)' <=> Leaf(i))
  <2>1. /\ UNCHANGED <<nodes, par, fast, raced, pc, k, hash, wk, bwErr, db, failed, result>>
        /\ writer \in {"run", "failed"} /\ writeQ # <<>> /\ writeQ' = Tail(writeQ)
    BY DEF WriterSet, storeVars, mainVars, frameVars
  <2>. QED BY <2>1, Basics, SameNodes, SameRef
<1>1. par /\ pc \notin {"flush", "end"}
  BY <1>0 DEF OutInv, QueuedInv
<1>2. Waiting(writeQ) = Waiting(writeQ') \cup {Head(writeQ)} /\ writeQ' \in Seq(Frames) /\ Head(writeQ) \in Frames
  BY <1>0, WaitHead DEF OutInv, QueuedInv
<1>3. PICK g \in Frames : g = Head(writeQ) /\ g \in Waiting(writeQ)
  BY <1>2
<1>4. << Key(g), Value(hash[g], g) >> = Entry(g)
  <2>1. hash[g] # "none"
    BY <1>1, <1>3 DEF OutInv, QueuedInv
  <2>2. hash[g] = "right" /\ Begun(g)
    BY <1>1, <2>1 DEF FrameInv, PoolInv, HashInv, TreeInv, SubmittedInv
  <2>3. nonceOf[g] = NonceRef(g)
    BY <2>2 DEF NonceInv
  <2>. QED BY <2>2, <2>3 DEF Key, Entry
<1>5. ASSUME ~raced
      PROVE  /\ InRef'
             /\ \/ writer' = "failed" /\ (writer = "failed" => OutAll' = OutAll)
                \/ writer = "run"
             /\ writer = "run" => OutAll' = OutAll \cup {Entry(g)}
  <2>0. InRef
    BY <1>5 DEF OutInv, OutTypes
  <2>1. CASE writer = "failed"
    <3>1. UNCHANGED <<batch, bwCh, writer>>
      BY <2>1 DEF WriterSet
    <3>. QED BY <1>0, <2>0, <2>1, <3>1 DEF InRef, OutAll, Waiting
  <2>2. CASE writer # "failed"
    <3>1. Set(Entry(g)) /\ writer = "run"
      BY <1>0, <1>3, <1>4, <2>2 DEF WriterSet
    <3>2. PICK e \in RefDB : e = Entry(g) /\ Set(e)
      BY <3>1, RefHas
    <3>3. OutAll' = OutAll \cup {e} /\ batch' \in SUBSET RefDB /\ bwCh' \in Seq(SUBSET RefDB)
      BY <1>0, <2>0, <3>2, SetAdds
    <3>. QED BY <1>0, <2>0, <3>1, <3>2, <3>3 DEF InRef
  <2>. QED BY <2>1, <2>2
<1>6. OutTypes' /\ RaceInv'
  BY <1>0, <1>5 DEF OutInv, OutTypes, RaceInv
<1>7. Waiting(writeQ)' = Waiting(writeQ')
  BY DEF Waiting
<1>8. SentInv'
  <2>0. ASSUME NEW i \in Frames, ~raced, ~bwErr, FastSent(i)' PROVE FastEntry(i) \in OutAll'
    <3>1. FastSent(i)
      BY <1>0, <2>0 DEF FastSent, Begun
    <3>2. FastEntry(i) \in OutAll
      BY <2>0, <3>1 DEF OutInv, SentInv
    <3>3. OutAll \subseteq OutAll'
      BY <1>0, <1>5, <2>0
    <3>. QED BY <3>2, <3>3
  <2>. SUFFICES ASSUME NEW i \in Frames, Sent(i)', ~raced, ~bwErr, writer' # "failed" PROVE Entry(i) \in OutAll'
    BY <1>0, <2>0 DEF SentInv
  <2>1. writer = "run" /\ OutAll' = OutAll \cup {Entry(g)}
    BY <1>5
  <2>2. Past(i, UntilWrite) /\ i \notin Waiting(writeQ')
    BY <1>0, <1>1, <1>7 DEF Sent, Past
  <2>3. CASE i = g
    BY <2>1, <2>3
  <2>4. CASE i # g
    <3>1. i \notin Waiting(writeQ)
      BY <1>2, <1>3, <2>2, <2>4
    <3>. QED BY <1>1, <2>1, <2>2, <3>1 DEF Sent, OutInv, SentInv
  <2>. QED BY <2>3, <2>4
<1>9. QueuedInv'
  BY <1>0, <1>1, <1>2, <1>7 DEF OutInv, QueuedInv
<1>10. FinalInv' /\ ResultInv'
  BY <1>0, <1>1 DEF OutInv, FinalInv, ResultInv
<1>. QED BY <1>6, <1>8, <1>9, <1>10 DEF OutInv

(* When the stream is through, finalize adds just what the reference has   *)
(* besides the nodes.                                                      *)
LEMMA FinalRoot ==
  ASSUME FrameInv, RootsInv, FlightInv, RootInv, pc = "write", ~failed, ~(Len(stack) > 1)
  PROVE  WellFormed /\ k = N + 1 /\ RefDB = {Entry(i) : i \in Frames} \cup FastSet \cup FinalEntries
<1>0. N \in Nat /\ Frames = 1 .. N /\ 0 \notin Frames /\ stack \in Seq(Frames) /\ Len(stack) \in Nat /\ par \in BOOLEAN
  BY Basics DEF FrameInv, WTypes
<1>1. k = N + 1 /\ Last = N /\ RefStack = stack
  <2>1. pc \notin Mid /\ pc \notin Busy
    BY DEF Mid, Busy
  <2>2. k = N + 1
    BY <2>1 DEF RootsInv
  <2>. QED BY <1>0, <2>1, <2>2 DEF Last, RefStack
<1>2. stack = RootsAfter[N] /\ (N > 0 => Len(stack) > 0 /\ stack[Len(stack)] = N)
  BY <1>1 DEF RootsInv
<1>3. WellFormed
  <2>1. \A i \in 1 .. Len(stack) : stack[i] \in Frames
    BY <1>0
  <2>2. stack = <<0>> => Len(stack) = 1 /\ stack[1] = 0
    OBVIOUS
  <2>3. stack # <<0>>
    BY <1>0, <2>1, <2>2
  <2>. QED BY <1>0, <1>2, <2>3 DEF WellFormed
<1>4. CASE N = 0
  <2>1. stack = <<>> /\ Frames = {}
    BY <1>0, <1>2, <1>4, RootsUnfold
  <2>2. FinalEntries = {Marker} \cup { << <<Height, 1>>, Value("empty", 0) >> }
    BY <2>1 DEF FinalEntries
  <2>3. RefDB = { << <<Height, 1>>, Value("empty", 0) >> } \cup {Marker} /\ FastSet = {}
    BY <1>4, <2>1 DEF RefDB, FastSet
  <2>. QED BY <1>1, <1>3, <2>1, <2>2, <2>3
<1>5. CASE N # 0
  <2>1. N > 0 /\ N \in Frames
    BY <1>0, <1>5
  <2>2. Len(stack) = 1 /\ stack[1] = N /\ stack # <<>>
    <3>0. Len(stack) > 0 /\ ~(Len(stack) > 1) /\ Len(stack) \in Nat
      BY <1>0, <1>2, <2>1
    <3>1. Len(stack) = 1
      BY <3>0
    <3>2. stack # <<>>
      BY <3>1
    <3>. QED BY <1>2, <2>1, <3>1, <3>2
  <2>3. rootBytes = N /\ hash[N] = "right"
    <3>1. CASE ~par
      <4>1. hash[N] = "right"
        BY <1>0, <1>1, <2>1, <3>1 DEF FrameInv, SeqInv
      <4>2. rootBytes = k - 1
        BY <3>1 DEF RootInv
      <4>. QED BY <1>0, <1>1, <4>1, <4>2
    <3>2. CASE par
      <4>1. Begun(N)
        BY <1>0, <1>1 DEF Begun
      <4>2. Finished(N)
        BY <2>1, <3>2, <4>1, AllFinished DEF Closing
      <4>3. hash[N] = "right"
        BY <2>1, <3>2, <4>2 DEF FrameInv, PoolInv, HashInv, Finished
      <4>4. Past(N, UntilRoot)
        BY <4>2 DEF Finished, Held, Past
      <4>5. Waiting(stack) \subseteq {N}
        BY <2>2 DEF Waiting
      <4>. QED BY <2>1, <3>2, <4>3, <4>4, <4>5 DEF RootInv
    <3>. QED BY <1>0, <3>1, <3>2
  <2>. DEFINE redirect == IF nodes[N].v = Height THEN {} ELSE { << <<Height, 1>>, Value("redirect", nodes[N].v) >> }
  <2>4. FinalEntries = {Marker} \cup ({ << <<nodes[N].v, 1>>, Value("right", N) >> } \cup redirect)
    BY <2>2, <2>3 DEF FinalEntries, RootEntries
  <2>5. RefDB = {Entry(i) : i \in Frames} \cup FastSet
                  \cup ({ << <<nodes[N].v, 1>>, Value("right", N) >> } \cup redirect) \cup {Marker}
    BY <1>5 DEF RefDB, Entry, FastSet
  <2>. HIDE DEF redirect
  <2>. QED BY <1>1, <1>3, <2>4, <2>5
<1>. QED BY <1>4, <1>5

LEMMA OutFinal ==
  ASSUME FrameInv, RootsInv, FlightInv, RootInv, OutInv, FinalizeStore
  PROVE  OutInv'
<1>0. /\ N \in Nat /\ Frames = 1 .. N /\ Frames' = Frames /\ pc = "write" /\ pc' = "flush"
      /\ UNCHANGED <<nodes, par, fast, raced, k, hash, wk, writeQ, writer, bwErr, db, result>> /\ par \in BOOLEAN
      /\ (par => writeQ = <<>>)
      /\ N' = N /\ RefDB' = RefDB /\ WellFormed' = WellFormed /\ FastSet' = FastSet
      /\ \A i : Entry(i)' = Entry(i) /\ FastEntry(i)' = FastEntry(i) /\ (Leaf(i)' <=> Leaf(i))
  <2>1. /\ UNCHANGED <<nodes, par, fast, raced, k, hash, wk, writeQ, writer, bwErr, db, result>> /\ pc = "write" /\ pc' = "flush"
        /\ (par => writeQ = <<>>)
    BY DEF FinalizeStore, storeVars, frameVars, mainVars
  <2>. QED BY <2>1, Basics, SameNodes, SameRef DEF FrameInv, WTypes
<1>1. Waiting(writeQ)' = Waiting(writeQ) /\ \A i \in Frames : Sent(i)' <=> Sent(i)
  BY <1>0 DEF Waiting, Sent, Past
<1>a. RaceInv' /\ \A i \in Frames : FastSent(i)' <=> Leaf(i) /\ ~fast /\ i < k
  BY <1>0 DEF OutInv, RaceInv, FastSent, Begun, Mid
<1>b. \A i \in Frames : FastSent(i) <=> Leaf(i) /\ ~fast /\ i < k
  BY <1>0 DEF FastSent, Begun, Mid
<1>2. writeQ = <<>>
  BY <1>0 DEF OutInv, QueuedInv
<1>3. QueuedInv'
  BY <1>0, <1>1, <1>2 DEF OutInv, QueuedInv
<1>4. ResultInv'
  BY <1>0 DEF OutInv, ResultInv
<1>5. CASE failed' = TRUE /\ UNCHANGED <<batch, bwCh>>
  <2>1. OutAll' = OutAll
    BY <1>0, <1>5 DEF OutAll, Waiting
  <2>2. OutTypes' /\ SentInv' /\ FinalInv'
    BY <1>0, <1>1, <1>5, <1>a, <1>b, <2>1 DEF OutInv, OutTypes, InRef, SentInv, FinalInv
  <2>. QED BY <1>3, <1>4, <1>a, <2>2 DEF OutInv
<1>6. CASE /\ ~(failed \/ (par /\ writer = "failed") \/ Len(stack) > 1)
           /\ bwCh' = Append(bwCh, batch \cup FinalEntries) /\ batch' = {} /\ failed' = failed
  <2>1. WellFormed /\ k = N + 1 /\ RefDB = {Entry(i) : i \in Frames} \cup FastSet \cup FinalEntries
    BY <1>0, <1>6, FinalRoot
  <2>2. ASSUME ~raced PROVE OutAll' = OutAll \cup FinalEntries /\ bwCh' \in Seq(SUBSET RefDB) /\ InRef
    <3>. DEFINE b == batch \cup FinalEntries
                T == SUBSET RefDB
    <3>0. InRef
      BY <2>2 DEF OutInv, OutTypes
    <3>1. b \in T /\ bwCh \in Seq(T) /\ bwCh' = Append(bwCh, b)
      BY <1>6, <2>1, <3>0 DEF InRef
    <3>. HIDE DEF b, T
    <3>2. Waiting(Append(bwCh, b)) = Waiting(bwCh) \cup {b} /\ Append(bwCh, b) \in Seq(T)
      BY <3>1, WaitAppended
    <3>3. Waiting(bwCh)' = Waiting(bwCh) \cup {b} /\ bwCh' \in Seq(T)
      BY <3>1, <3>2 DEF Waiting
    <3>. QED BY <1>0, <1>6, <3>0, <3>3 DEF OutAll, b, T
  <2>3. OutTypes'
    BY <1>0, <1>6, <2>2 DEF InRef, OutTypes
  <2>4. writer # "failed"
    BY <1>0, <1>6 DEF OutInv, QueuedInv
  <2>5. \A i \in Frames : Sent(i)
    <3>1. CASE ~par
      BY <1>0, <2>1, <3>1 DEF Sent
    <3>2. CASE par
      <4>1. \A i \in Frames : Begun(i)
        BY <1>0, <2>1 DEF Begun
      <4>2. \A i \in Frames : Finished(i)
        BY <1>0, <3>2, <4>1, AllFinished DEF Closing
      <4>3. Waiting(writeQ) = {}
        BY <1>2, WaitIn DEF OutInv, QueuedInv
      <4>. QED BY <3>2, <4>2, <4>3 DEF Sent, Finished, Held, Past
    <3>. QED BY <1>0, <3>1, <3>2
  <2>6. ASSUME ~raced, ~bwErr
        PROVE  \A i \in Frames : Entry(i) \in OutAll /\ (Leaf(i) /\ ~fast => FastEntry(i) \in OutAll)
    BY <1>0, <1>b, <2>1, <2>4, <2>5, <2>6 DEF OutInv, SentInv
  <2>7. SentInv'
    BY <1>0, <1>a, <2>2, <2>6 DEF SentInv
  <2>8. FinalInv'
    <3>1. ASSUME ~raced, ~bwErr PROVE RefDB \subseteq OutAll' \cup (IF fast THEN FastSet ELSE {})
      <4>1. ~fast => FastSet \subseteq OutAll
        BY <2>6, <3>1 DEF FastSet
      <4>2. {Entry(i) : i \in Frames} \subseteq OutAll
        BY <2>6, <3>1
      <4>. QED BY <2>1, <2>2, <3>1, <4>1, <4>2
    <3>. QED BY <1>0, <1>6, <2>1, <3>1 DEF FinalInv
  <2>. QED BY <1>3, <1>4, <1>a, <2>3, <2>7, <2>8 DEF OutInv
<1>. QED BY <1>5, <1>6 DEF FinalizeStore

(* The main thread sets an f/ entry: sequentially, *)
LEMMA OutFastSeq ==
  ASSUME FrameInv, OutInv, SetFastSeq
  PROVE  OutInv'
<1>0. /\ N \in Nat /\ Frames = 1 .. N /\ Frames' = Frames /\ k \in Int /\ pc = "fast" /\ pc' \in {"add", "finish"}
      /\ UNCHANGED <<nodes, par, fast, k, wk, hash, writeQ, writer, bwErr, db, raced, result>>
      /\ RefDB' = RefDB /\ Set(FastEntry(k - 1))
      /\ \A i : Entry(i)' = Entry(i) /\ FastEntry(i)' = FastEntry(i) /\ (Leaf(i)' <=> Leaf(i))
  <2>1. /\ UNCHANGED <<nodes, par, fast, k, wk, hash, writeQ, writer, bwErr, db, raced, result>> /\ pc = "fast"
        /\ pc' \in {"add", "finish"} /\ Set(FastEntry(k - 1))
    BY DEF SetFastSeq, Fails, storeVars, mainVars, frameVars
  <2>. QED BY <2>1, Basics, SameNodes, SameRef
<1>1. ~par /\ ~fast /\ k - 1 \in Frames /\ Leaf(k - 1) /\ ~raced /\ InRef
  BY <1>0 DEF OutInv, RaceInv, OutTypes
<1>2. OutAll' = OutAll \cup {FastEntry(k - 1)} /\ batch' \in SUBSET RefDB /\ bwCh' \in Seq(SUBSET RefDB)
  <2>1. PICK e \in RefDB : e = FastEntry(k - 1) /\ Set(e)
    BY <1>0, <1>1, RefHas
  <2>. QED BY <1>0, <1>1, <2>1, SetAdds
<1>3. OutTypes' /\ RaceInv'
  BY <1>0, <1>1, <1>2 DEF OutTypes, InRef, RaceInv
<1>4. SentInv'
  <2>. SUFFICES ASSUME NEW i \in Frames, ~bwErr
       PROVE  /\ i < k /\ writer # "failed" => Entry(i) \in OutAll'
              /\ FastSent(i)' => FastEntry(i) \in OutAll'
    BY <1>0, <1>1 DEF SentInv, Sent
  <2>1. i < k /\ writer # "failed" => Entry(i) \in OutAll'
    BY <1>1, <1>2 DEF OutInv, SentInv, Sent
  <2>2. ASSUME FastSent(i)', i # k - 1 PROVE FastEntry(i) \in OutAll'
    <3>1. FastSent(i)
      BY <1>0, <2>2 DEF FastSent, Begun, Mid
    <3>. QED BY <1>1, <1>2, <3>1 DEF OutInv, SentInv
  <2>. QED BY <1>2, <2>1, <2>2
<1>5. QueuedInv' /\ FinalInv' /\ ResultInv'
  BY <1>0, <1>1 DEF OutInv, QueuedInv, FinalInv, ResultInv
<1>. QED BY <1>3, <1>4, <1>5 DEF OutInv

(* wave-parallel, when an earlier commit has failed, *)
LEMMA OutRefused ==
  ASSUME FrameInv, OutInv, FastRefused
  PROVE  OutInv'
<1>0. /\ Frames' = Frames /\ pc = "add" /\ pc' = "finish" /\ k \in Frames /\ Leaf(k) /\ par /\ bwErr
      /\ UNCHANGED <<nodes, par, fast, hash, writeQ, writer, bwErr, db, raced, result>> /\ RefDB' = RefDB
      /\ Set(FastEntry(k))
  <2>1. /\ UNCHANGED <<nodes, par, fast, hash, writeQ, writer, bwErr, db, raced, result>> /\ pc = "add" /\ pc' = "finish"
        /\ k \in Frames /\ Leaf(k) /\ par /\ bwErr /\ Set(FastEntry(k))
    BY DEF FastRefused, Adding, Fails, SetErr, storeVars, frameVars
  <2>. QED BY <2>1, SameNodes, SameRef
<1>1. ASSUME ~raced PROVE InRef'
  <2>1. PICK e \in RefDB : e = FastEntry(k) /\ Set(e)
    BY <1>0, RefHas
  <2>2. InRef
    BY <1>1 DEF OutInv, OutTypes
  <2>3. batch' \in SUBSET RefDB /\ bwCh' \in Seq(SUBSET RefDB)
    BY <1>0, <2>1, <2>2, SetAdds
  <2>. QED BY <1>0, <2>2, <2>3 DEF InRef
<1>2. OutTypes' /\ RaceInv' /\ SentInv'
  BY <1>0, <1>1 DEF OutInv, OutTypes, RaceInv, SentInv
<1>3. Waiting(writeQ)' = Waiting(writeQ)
  BY <1>0 DEF Waiting
<1>4. QueuedInv' /\ FinalInv' /\ ResultInv'
  BY <1>0, <1>3 DEF OutInv, QueuedInv, FinalInv, ResultInv
<1>. QED BY <1>2, <1>4 DEF OutInv

(* and wave-parallel, perhaps while the writer sets. *)
LEMMA OutLeafPar ==
  ASSUME FrameInv, OutInv, AddLeafPar, [Next]_vars
  PROVE  OutInv'
<1>0. /\ Frames' = Frames /\ pc = "add" /\ pc' = "enqueue" /\ k \in Frames /\ Leaf(k) /\ par /\ SetFast(FastEntry(k))
      /\ UNCHANGED <<nodes, par, fast, hash, wk, k, writer, bwErr, db, result>> /\ RefDB' = RefDB
      /\ \A i : Entry(i)' = Entry(i) /\ FastEntry(i)' = FastEntry(i) /\ (Leaf(i)' <=> Leaf(i))
      /\ \A i \in Frames : Begun(i)' <=> Begun(i) \/ i = k
  <2>1. /\ UNCHANGED <<nodes, par, fast, hash, wk, k, writer, bwErr, db, result>> /\ pc = "add" /\ pc' = "enqueue"
        /\ k \in Frames /\ Leaf(k) /\ par /\ SetFast(FastEntry(k))
    BY DEF AddLeafPar, Adding, storeVars
  <2>2. \A i \in Frames : Begun(i)' <=> Begun(i) \/ i = k
    BY Progress DEF Begins
  <2>. QED BY <2>1, <2>2, SameNodes, SameRef
<1>1. /\ writeQ' \in Seq(Frames) /\ Waiting(writeQ)' \subseteq Waiting(writeQ)
      /\ raced' \in {raced, TRUE} /\ (~raced' => ~raced /\ writeQ' = writeQ) /\ (raced' # raced => ~fast)
  <2>0. Waiting(writeQ)' = Waiting(writeQ') /\ writeQ \in Seq(Frames)
    BY DEF Waiting, OutInv, QueuedInv
  <2>1. CASE UNCHANGED <<writeQ, raced>>
    BY <2>0, <2>1
  <2>2. CASE ~fast /\ writeQ # <<>> /\ writeQ' = Tail(writeQ) /\ raced' = TRUE
    BY <2>0, <2>2, WaitHead
  <2>. QED BY <1>0, <2>1, <2>2 DEF SetFast
<1>2. ASSUME ~raced'
      PROVE  InRef' /\ OutAll \subseteq OutAll' /\ (~fast => FastEntry(k) \in OutAll')
  <2>0. InRef
    BY <1>1, <1>2 DEF OutInv, OutTypes
  <2>1. CASE fast /\ UNCHANGED <<batch, bwCh>>
    BY <1>0, <2>0, <2>1 DEF InRef, OutAll, Waiting
  <2>2. CASE ~fast /\ Set(FastEntry(k))
    <3>1. PICK e \in RefDB : e = FastEntry(k) /\ Set(e)
      BY <1>0, <2>2, RefHas
    <3>2. OutAll' = OutAll \cup {e} /\ batch' \in SUBSET RefDB /\ bwCh' \in Seq(SUBSET RefDB)
      BY <1>0, <2>0, <3>1, SetAdds
    <3>. QED BY <1>0, <2>0, <3>1, <3>2 DEF InRef
  <2>. QED BY <1>0, <1>2, <2>1, <2>2 DEF SetFast
<1>3. OutTypes' /\ RaceInv'
  BY <1>0, <1>1, <1>2 DEF OutInv, OutTypes, RaceInv
<1>4. SentInv'
  <2>. SUFFICES ASSUME ~raced', ~bwErr, NEW i \in Frames
       PROVE  /\ Sent(i)' /\ writer # "failed" => Entry(i) \in OutAll'
              /\ FastSent(i)' => FastEntry(i) \in OutAll'
    BY <1>0 DEF SentInv
  <2>1. Sent(i)' => Sent(i)
    BY <1>0, <1>1 DEF Sent, Past, Waiting
  <2>2. FastSent(i)' => ~fast /\ (FastSent(i) \/ i = k)
    BY <1>0 DEF FastSent
  <2>. QED BY <1>1, <1>2, <2>1, <2>2 DEF OutInv, SentInv
<1>5. QueuedInv' /\ FinalInv' /\ ResultInv'
  BY <1>0, <1>1 DEF OutInv, QueuedInv, FinalInv, ResultInv
<1>. QED BY <1>3, <1>4, <1>5 DEF OutInv

(* The sorted table is ingested when all else is committed. *)
LEMMA OutDrain ==
  ASSUME FrameInv, OutInv, Drain
  PROVE  OutInv'
<1>0. /\ N \in Nat /\ Frames = 1 .. N /\ Frames' = Frames /\ N' = N /\ pc = "flush" /\ pc' = "end" /\ bwCh = <<>>
      /\ UNCHANGED <<nodes, par, fast, k, hash, wk, writeQ, writer, batch, bwCh, bwErr, raced, failed>>
      /\ RefDB' = RefDB /\ WellFormed' = WellFormed /\ FastSet' = FastSet
      /\ \A i : Entry(i)' = Entry(i) /\ FastEntry(i)' = FastEntry(i) /\ (Leaf(i)' <=> Leaf(i))
  <2>1. /\ UNCHANGED <<nodes, par, fast, k, hash, wk, writeQ, writer, batch, bwCh, bwErr, raced, failed>>
        /\ pc = "flush" /\ pc' = "end" /\ bwCh = <<>>
    BY DEF Drain, storeVars, mainVars, frameVars
  <2>. QED BY <2>1, Basics, SameNodes, SameRef
<1>1. /\ result' \in {"ok", "failed"} /\ db' \in {db, db \cup FastTable}
      /\ result' = "ok" => ~failed /\ ~bwErr /\ db' = (IF fast THEN db \cup FastTable ELSE db)
  BY DEF Drain
<1>2. FastTable \subseteq FastSet /\ FastSet \subseteq RefDB /\ (k = N + 1 => FastTable = FastSet)
  BY <1>0, RefHas DEF FastTable, FastSet
<1>3. OutTypes' /\ RaceInv' /\ OutAll \subseteq OutAll'
  <2>1. InRef => InRef'
    BY <1>0, <1>1, <1>2 DEF InRef
  <2>2. OutAll \subseteq OutAll'
    BY <1>0, <1>1 DEF OutAll, Waiting
  <2>. QED BY <1>0, <2>1, <2>2 DEF OutInv, OutTypes, RaceInv
<1>4. SentInv'
  <2>1. \A i \in Frames : (Sent(i)' <=> Sent(i)) /\ (FastSent(i)' <=> FastSent(i))
    BY <1>0 DEF Sent, Past, Waiting, FastSent, Begun, Mid
  <2>. QED BY <1>0, <1>3, <2>1 DEF OutInv, SentInv
<1>5. QueuedInv' /\ FinalInv'
  <2>1. Waiting(writeQ)' = Waiting(writeQ)
    BY <1>0 DEF Waiting
  <2>. QED BY <1>0, <1>3, <2>1 DEF OutInv, QueuedInv, FinalInv
<1>6. ResultInv'
  <2>1. ASSUME result' = "ok" PROVE WellFormed /\ (raced \/ db' = RefDB)
    <3>1. /\ batch = {} /\ WellFormed /\ k = N + 1
          /\ raced \/ RefDB \subseteq OutAll \cup (IF fast THEN FastSet ELSE {})
      BY <1>0, <1>1, <2>1 DEF OutInv, FinalInv
    <3>2. OutAll = db
      <4>1. Waiting(bwCh) = {}
        BY <1>0 DEF Waiting
      <4>. QED BY <3>1, <4>1 DEF OutAll
    <3>3. ASSUME ~raced PROVE db' = RefDB
      <4>1. db \subseteq RefDB
        BY <3>3 DEF OutInv, OutTypes, InRef
      <4>2. db' = db \cup (IF fast THEN FastSet ELSE {})
        BY <1>1, <1>2, <2>1, <3>1
      <4>. QED BY <1>2, <3>1, <3>2, <3>3, <4>1, <4>2
    <3>. QED BY <3>1, <3>3
  <2>. QED BY <1>0, <2>1 DEF ResultInv
<1>. QED BY <1>3, <1>4, <1>5, <1>6 DEF OutInv

LEMMA OutStep ==
  ASSUME FrameInv, NonceInv, RootsInv, FlightInv, RootInv, OutInv, [Next]_vars
  PROVE  OutInv'
<1>1. NonceInv'
  BY NonceStep
<1>. QED BY <1>1, OutAddSeq, OutFastSeq, OutRefused, OutLeafPar, OutFinal, OutDrain, OutWriter, OutPush, OutCalm

(* For every stream, every number of workers, every capacity of the queues *)
(* and every interleaving of the threads, an import that succeeds has      *)
(* committed exactly the reference's entries (importNodes, finishStreaming *)
(* and finalize, sequential and wave-parallel).                            *)
THEOREM ImportSame == Spec => []SameAsReference
<1>. DEFINE Inv == FrameInv /\ NonceInv /\ RootsInv /\ FlightInv /\ RootInv /\ OutInv
<1>1. Init => Inv
  BY FrameInit, NonceInit, RootsInit, FlightInit, RootInit, OutInit
<1>2. Inv /\ [Next]_vars => Inv'
  BY FrameStep, NonceStep, RootsStep, FlightStep, RootInvStep, OutStep
<1>3. Inv => SameAsReference
  BY OutGives
<1>. QED BY <1>1, <1>2, <1>3, PTL DEF Spec
=============================================================================
