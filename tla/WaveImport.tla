---------------------------- MODULE WaveImport ----------------------------
(***************************************************************************)
(* The import of one store: a post-order stream of IAVL nodes becomes a    *)
(* set of database entries.  Sequentially (importer.go) each node is       *)
(* hashed as it comes; wave-parallel (importer_par.go) a main thread       *)
(* builds frames, a dispatcher and a pool of workers hash a frame once     *)
(* both of its children are hashed, and a writer sets the entries.  Either *)
(* way batches are committed by one more goroutine (asyncBatchWriter in    *)
(* parallel.go).                                                           *)
(*                                                                         *)
(* A node is its height and its version; a frame is the index of its node. *)
(* A hash is "right" when it was computed from its children's right        *)
(* hashes, "wrong" otherwise.  A database entry is a pair of a key and a   *)
(* value: a node's key is <<version, nonce>>, the f/ key of leaf i is      *)
(* <<0, i>>, and <<0, 0>> is the storage_version key.                      *)
(***************************************************************************)
EXTENDS Integers, Sequences, FiniteSets

CONSTANTS
  Jobs,        \* streams of nodes [h, v], with WaveParallel and FastIngest
  Height,      \* the snapshot's height
  Workers,
  PendingCap,  \* pendingCap
  ReadyCap,    \* capacity of the ready channel
  WriteCap,    \* capacity of writeQ
  FlushAt,     \* entries of a full batch
  BatchCap,    \* capacity of asyncBatchWriter.ch
  MaxFaults    \* bound: writes that fail

ASSUME WaveConstants ==
  /\ Jobs \subseteq [nodes : Seq([h : Nat, v : Nat \ {0}]), par : BOOLEAN, fast : BOOLEAN]
  /\ Height \in Nat \ {0} /\ MaxFaults \in Nat
  /\ {PendingCap, ReadyCap, WriteCap, FlushAt, BatchCap} \subseteq Nat \ {0}

VARIABLES
  nodes, par, fast,         \* the stream, WaveParallel, FastIngest
  pc, k, stack, todo,       \* the main thread: its node, its stack, children to link
  nonces, cached, nonceOf,  \* nextNonce: the map, the cached version and counter
  hash, pend, events, built, submitted, parent,   \* the frames
  pending, ready, disp, closed, hashWg,           \* the queues
  wk,                       \* the workers
  writeQ, writer,           \* the writer: running, failed or gone
  rootBytes,                \* rootEncoded or lastIavlBytes
  batch, bwCh, bwErr, db,   \* the batch being filled, those handed over, the database
  raced,                    \* history: two threads were in set at a time
  failed, result, faults

storeVars  == <<nodes, par, fast>>
mainVars   == <<k, stack, todo, nonces, cached, nonceOf>>
frameVars  == <<hash, pend, events, built, submitted, parent>>
queueVars  == <<pending, ready, disp, closed, hashWg>>
outVars    == <<rootBytes, batch, bwCh, bwErr, db, raced>>
vars == <<storeVars, pc, mainVars, frameVars, queueVars, wk, writeQ, writer, outVars,
          failed, result, faults>>

N        == Len(nodes)
Frames   == 1 .. N
Leaf(i)  == nodes[i].h = 0
Versions == {nodes[i].v : i \in Frames}
Value(what, of) == [what |-> what, of |-> of]
Key(i)   == <<nodes[i].v, nonceOf[i]>>
FastEntry(i) == << <<0, i>>, Value("fast", i) >>

Entries == ((0 .. Height) \X (0 .. N + 1))
             \X [what : {"right", "wrong", "fast", "torn", "redirect", "empty", "marker"}, of : 0 .. Height + N]

TypeOK ==
  /\ [nodes |-> nodes, par |-> par, fast |-> fast] \in Jobs
  /\ pc \in {"add", "fast", "link", "built", "check", "enqueue", "finish", "join", "write", "flush", "end"}
  /\ k \in 1 .. N + 1 /\ stack \in Seq(Frames) /\ todo \in Seq(Frames)
  /\ nonces \in [Versions -> 0 .. N + 1] /\ nonceOf \in [Frames -> 0 .. N + 1]
  /\ cached \in [v : Versions \cup {0}, c : 0 .. N + 1]
  /\ hash \in [Frames -> {"none", "right", "wrong"}]
  /\ pend \in [Frames -> 0 .. 2] /\ events \in [Frames -> 0 .. 2]
  /\ built \in [Frames -> BOOLEAN] /\ submitted \in [Frames -> BOOLEAN]
  /\ parent \in [Frames -> 0 .. N]
  /\ pending \in Seq(Frames) /\ ready \in Seq(Frames) /\ Len(ready) <= ReadyCap
  /\ disp \in 0 .. N + 1 /\ closed \in BOOLEAN /\ hashWg \in Nat
  /\ wk \in [Workers -> [at : {"idle", "hash", "root", "write", "event", "dec", "built", "done", "gone"},
                         f : 0 .. N, p : 0 .. N]]
  /\ writeQ \in Seq(Frames) /\ Len(writeQ) <= WriteCap
  /\ writer \in {"run", "failed", "gone"}
  /\ rootBytes \in 0 .. N
  /\ batch \in SUBSET Entries /\ bwErr \in BOOLEAN /\ db \in SUBSET Entries /\ raced \in BOOLEAN
  /\ Len(bwCh) <= BatchCap /\ \A j \in DOMAIN bwCh : bwCh[j] \in SUBSET Entries
  /\ failed \in BOOLEAN /\ result \in {"none", "ok", "failed"} /\ faults \in 0 .. MaxFaults

Gone == N + 1              \* the dispatcher has returned

Init ==
  /\ \E j \in Jobs : nodes = j.nodes /\ par = j.par /\ fast = j.fast
  /\ pc = "add" /\ k = 1 /\ stack = <<>> /\ todo = <<>>
  /\ nonces = [v \in Versions |-> 0] /\ cached = [v |-> 0, c |-> 0]
  /\ nonceOf = [i \in Frames |-> 0]
  /\ hash = [i \in Frames |-> "none"]
  /\ pend = [i \in Frames |-> 0] /\ events = [i \in Frames |-> 0]
  /\ built = [i \in Frames |-> FALSE] /\ submitted = [i \in Frames |-> FALSE]
  /\ parent = [i \in Frames |-> 0]
  /\ pending = <<>> /\ ready = <<>> /\ closed = FALSE /\ hashWg = 0
  /\ disp = (IF par THEN 0 ELSE N + 1)
  /\ wk = [w \in Workers |-> [at |-> IF par THEN "idle" ELSE "gone", f |-> 0, p |-> 0]]
  /\ writeQ = <<>> /\ writer = (IF par THEN "run" ELSE "gone")
  /\ rootBytes = 0
  /\ batch = {} /\ bwCh = <<>> /\ bwErr = FALSE /\ db = {} /\ raced = FALSE
  /\ failed = FALSE /\ result = "none" /\ faults = 0

-----------------------------------------------------------------------------
(* Batches.                                                                *)

(* set, with the flush of a full batch; it sleeps while the committing     *)
(* goroutine is behind, and fails when an earlier commit has failed.       *)
Full(e)   == Cardinality(batch \cup {e}) >= FlushAt
CanSet(e) == Full(e) => Len(bwCh) < BatchCap
SetErr(e) == Full(e) /\ bwErr
Set(e) ==
  IF Full(e) THEN batch' = {} /\ bwCh' = Append(bwCh, batch \cup {e})
             ELSE batch' = batch \cup {e} /\ UNCHANGED bwCh

Commit ==
  /\ bwCh # <<>>
  /\ bwCh' = Tail(bwCh)
  /\ \/ db' = db \cup Head(bwCh) /\ UNCHANGED <<bwErr, faults>>
     \/ faults < MaxFaults /\ faults' = faults + 1 /\ bwErr' = TRUE /\ UNCHANGED db
  /\ UNCHANGED <<storeVars, pc, mainVars, frameVars, queueVars, wk, writeQ, writer, rootBytes,
                 batch, raced, failed, result>>

-----------------------------------------------------------------------------
(* The main thread.                                                        *)

(* Mutant: a change of version drops the counter it leaves. *)
NextNonceUnsaved ==
  LET v     == nodes[k].v
      hit   == v = cached.v
      count == IF hit THEN cached.c ELSE IF nonces[v] = 0 THEN 1 ELSE nonces[v]
  IN  /\ cached' = [v |-> v, c |-> count + 1]
      /\ nonceOf' = [nonceOf EXCEPT ![k] = count + 1]
      /\ UNCHANGED nonces

(* nextNonce, with its one-version cache. *)
NextNonce ==
  LET v     == nodes[k].v
      hit   == v = cached.v
      saved == IF hit \/ cached.v = 0 THEN nonces ELSE [nonces EXCEPT ![cached.v] = cached.c]
      count == IF hit THEN cached.c ELSE IF saved[v] = 0 THEN 1 ELSE saved[v]
  IN  /\ cached' = [v |-> v, c |-> count + 1]
      /\ nonceOf' = [nonceOf EXCEPT ![k] = count + 1]
      /\ nonces' = saved

ClosesPair ==
  /\ Len(stack) >= 2
  /\ \A d \in {0, 1} : nodes[stack[Len(stack) - d]].h < nodes[k].h
Right  == stack[Len(stack)]
Left   == stack[Len(stack) - 1]
Popped == SubSeq(stack, 1, Len(stack) - 2)

Adding == pc = "add" /\ k \in Frames

(* The error return: the deferred teardown joins the goroutines first.     *)
Fails == failed' = TRUE /\ pc' = "finish"

(* addNode when hashing is not deferred. *)
AddSeq ==
  /\ Adding /\ ~par
  /\ Leaf(k) \/ ClosesPair
  /\ NextNonce
  /\ LET ok == Leaf(k) \/ (hash[Left] = "right" /\ hash[Right] = "right")
         h  == IF ok THEN "right" ELSE "wrong"
         e  == << <<nodes[k].v, nonceOf'[k]>>, Value(h, k) >>
     IN  /\ CanSet(e) /\ Set(e)
         /\ hash' = [hash EXCEPT ![k] = h]
         /\ IF SetErr(e) THEN Fails
            ELSE pc' = (IF Leaf(k) /\ ~fast THEN "fast" ELSE "add") /\ UNCHANGED failed
  /\ rootBytes' = k
  /\ stack' = IF Leaf(k) THEN Append(stack, k) ELSE Append(Popped, k)
  /\ k' = k + 1
  /\ UNCHANGED <<storeVars, todo, pend, events, built, submitted, parent, queueVars, wk,
                 writeQ, writer, bwErr, db, raced, result, faults>>

(* setFast of the leaf just added, where it is set. *)
SetFastSeq ==
  /\ pc = "fast"
  /\ LET e == FastEntry(k - 1) IN
     /\ CanSet(e) /\ Set(e)
     /\ IF SetErr(e) THEN Fails ELSE pc' = "add" /\ UNCHANGED failed
  /\ UNCHANGED <<storeVars, mainVars, frameVars, queueVars, wk, writeQ, writer, rootBytes, bwErr, db,
                 raced, result, faults>>

Malformed ==
  /\ Adding /\ ~Leaf(k) /\ ~ClosesPair
  /\ Fails
  /\ UNCHANGED <<storeVars, mainVars, frameVars, queueVars, wk, writeQ, writer, outVars, result, faults>>

(* The sorted table that takes the f/ entries cannot be written.           *)
FastFails ==
  /\ Adding /\ Leaf(k) /\ fast /\ faults < MaxFaults
  /\ faults' = faults + 1
  /\ Fails
  /\ UNCHANGED <<storeVars, mainVars, frameVars, queueVars, wk, writeQ, writer, outVars, result>>

(* setFast on the main thread: the table's set or, without FastIngest, set *)
(* itself.  The writer may be in set with the head of writeQ at the same   *)
(* time.  Nothing guards the batch: at worst it is Damaged then, whatever  *)
(* of it and of both entries is lost or torn.                              *)
Damaged == { << <<0, 0>>, Value("torn", 0) >> }
SetFast(e) ==
  \/ fast /\ UNCHANGED <<writeQ, batch, bwCh, raced>>
  \/ /\ ~fast /\ CanSet(e) /\ ~SetErr(e)
     /\ Set(e)
     /\ UNCHANGED <<writeQ, raced>>
  \/ /\ ~fast /\ writer = "run" /\ writeQ # <<>>
     /\ batch' = Damaged /\ writeQ' = Tail(writeQ) /\ raced' = TRUE
     /\ UNCHANGED bwCh

(* The set of an f/ entry meets an earlier commit's error. *)
FastRefused ==
  /\ Adding /\ par /\ Leaf(k) /\ ~fast
  /\ LET e == FastEntry(k) IN CanSet(e) /\ SetErr(e) /\ Set(e)
  /\ Fails
  /\ UNCHANGED <<storeVars, mainVars, frameVars, queueVars, wk, writeQ, writer, rootBytes, bwErr, db,
                 raced, result, faults>>

(* addLeafPar, as far as the wait for room in pending. *)
AddLeafPar ==
  /\ Adding /\ par /\ Leaf(k)
  /\ NextNonce
  /\ SetFast(FastEntry(k))
  /\ stack' = Append(stack, k)
  /\ submitted' = [submitted EXCEPT ![k] = TRUE] /\ hashWg' = hashWg + 1
  /\ pc' = "enqueue"
  /\ UNCHANGED <<storeVars, k, todo, hash, pend, events, built, parent, pending, ready, disp, closed,
                 wk, writer, rootBytes, bwErr, db, failed, result, faults>>

(* addInnerPar: the new frame, then for each child one atomic event. *)
AddInnerPar ==
  /\ Adding /\ par /\ ~Leaf(k) /\ ClosesPair
  /\ NextNonce
  /\ stack' = Popped /\ todo' = <<Left, Right>>
  /\ pend' = [pend EXCEPT ![k] = 2]
  /\ parent' = [parent EXCEPT ![Left] = k, ![Right] = k]
  /\ pc' = "link"
  /\ UNCHANGED <<storeVars, k, hash, events, built, submitted, queueVars, wk, writeQ, writer, outVars,
                 failed, result, faults>>

LinkChild ==
  /\ pc = "link" /\ todo # <<>>
  /\ LET c == Head(todo) IN
     /\ events' = [events EXCEPT ![c] = @ + 1]
     /\ pend' = IF events'[c] = 2 THEN [pend EXCEPT ![k] = @ - 1] ELSE pend
  /\ todo' = Tail(todo)
  /\ pc' = IF Len(todo) = 1 THEN "built" ELSE "link"
  /\ UNCHANGED <<storeVars, k, stack, nonces, cached, nonceOf, hash, built, submitted, parent,
                 queueVars, wk, writeQ, writer, outVars, failed, result, faults>>

MarkBuilt ==
  /\ pc = "built"
  /\ built' = [built EXCEPT ![k] = TRUE]
  /\ pc' = "check"
  /\ UNCHANGED <<storeVars, mainVars, hash, pend, events, submitted, parent, queueVars, wk,
                 writeQ, writer, outVars, failed, result, faults>>

(* Mutant: hashWg.Add comes before the compare and swap. *)
CheckAddsFirst ==
  /\ pc = "check"
  /\ hashWg' = IF pend[k] = 0 THEN hashWg + 1 ELSE hashWg
  /\ IF pend[k] = 0 /\ ~submitted[k]
     THEN submitted' = [submitted EXCEPT ![k] = TRUE] /\ pc' = "enqueue" /\ UNCHANGED <<stack, k>>
     ELSE stack' = Append(stack, k) /\ k' = k + 1 /\ pc' = "add" /\ UNCHANGED submitted
  /\ UNCHANGED <<storeVars, todo, nonces, cached, nonceOf, hash, pend, events, built, parent, pending,
                 ready, disp, closed, wk, writeQ, writer, outVars, failed, result, faults>>

(* Both children hashed already: submit, unless a worker was first. *)
CheckPending ==
  /\ pc = "check"
  /\ IF pend[k] = 0 /\ ~submitted[k]
     THEN /\ submitted' = [submitted EXCEPT ![k] = TRUE] /\ hashWg' = hashWg + 1
          /\ pc' = "enqueue" /\ UNCHANGED <<stack, k>>
     ELSE /\ stack' = Append(stack, k) /\ k' = k + 1
          /\ pc' = "add" /\ UNCHANGED <<submitted, hashWg>>
  /\ UNCHANGED <<storeVars, todo, nonces, cached, nonceOf, hash, pend, events, built, parent, pending,
                 ready, disp, closed, wk, writeQ, writer, outVars, failed, result, faults>>

(* submitParFrame of the main thread sleeps while pending is at its cap. *)
Enqueue ==
  /\ pc = "enqueue"
  /\ Len(pending) < PendingCap
  /\ pending' = Append(pending, k)
  /\ stack' = IF Leaf(k) THEN stack ELSE Append(stack, k)
  /\ k' = k + 1 /\ pc' = "add"
  /\ UNCHANGED <<storeVars, todo, nonces, cached, nonceOf, frameVars, ready, disp, closed, hashWg, wk,
                 writeQ, writer, outVars, failed, result, faults>>

StreamEnds ==
  /\ pc = "add" /\ k = N + 1
  /\ pc' = "finish"
  /\ UNCHANGED <<storeVars, mainVars, frameVars, queueVars, wk, writeQ, writer, outVars,
                 failed, result, faults>>

(* finishStreaming: wait for the frames, then for the goroutines. *)
FinishStreaming ==
  /\ pc = "finish"
  /\ hashWg = 0
  /\ closed' = TRUE /\ pc' = "join"
  /\ UNCHANGED <<storeVars, mainVars, frameVars, pending, ready, disp, hashWg, wk, writeQ, writer,
                 outVars, failed, result, faults>>

Join ==
  /\ pc = "join"
  /\ disp = Gone /\ \A w \in Workers : wk[w].at = "gone"
  /\ pc' = "write"
  /\ UNCHANGED <<storeVars, mainVars, frameVars, queueVars, wk, writeQ, writer, outVars,
                 failed, result, faults>>

(* The entries finalize adds: an empty root, or the root again at nonce 1, *)
(* with a redirect from Height if the root is older; and the marker.       *)
RootEntries(root, bytes) ==
  LET v == nodes[root].v
      redirect == IF v = Height THEN {} ELSE { << <<Height, 1>>, Value("redirect", v) >> }
  IN  { << <<v, 1>>, Value(hash[bytes], bytes) >> } \cup redirect
Marker == << <<0, 0>>, Value("marker", Height) >>
FinalEntries ==
  {Marker} \cup (IF stack = <<>> THEN { << <<Height, 1>>, Value("empty", 0) >> }
                                 ELSE RootEntries(stack[1], rootBytes))

(* close(writeQ), the writer's error, finalize and the last flush. *)
FinalizeStore ==
  /\ pc = "write"
  /\ par => writer # "run" /\ writeQ = <<>>
  /\ IF failed \/ (par /\ writer = "failed") \/ Len(stack) > 1
     THEN failed' = TRUE /\ UNCHANGED <<batch, bwCh>>
     ELSE /\ Len(bwCh) < BatchCap
          /\ bwCh' = Append(bwCh, batch \cup FinalEntries) /\ batch' = {}
          /\ UNCHANGED failed
  /\ pc' = "flush"
  /\ UNCHANGED <<storeVars, mainVars, frameVars, queueVars, wk, writeQ, writer, rootBytes, bwErr, db,
                 raced, result, faults>>

(* The f/ entries of the leaves added, in the sorted table. *)
FastTable == {FastEntry(i) : i \in {j \in Frames : Leaf(j) /\ j < k}}

(* bw.drain, then ingestStore. *)
Drain ==
  /\ pc = "flush"
  /\ bwCh = <<>>
  /\ IF failed \/ bwErr
     THEN result' = "failed" /\ UNCHANGED <<db, faults>>
     ELSE \/ result' = "ok" /\ db' = (IF fast THEN db \cup FastTable ELSE db) /\ UNCHANGED faults
          \/ fast /\ faults < MaxFaults /\ faults' = faults + 1 /\ result' = "failed" /\ UNCHANGED db
  /\ pc' = "end"
  /\ UNCHANGED <<storeVars, mainVars, frameVars, queueVars, wk, writeQ, writer, rootBytes, batch, bwCh,
                 bwErr, raced, failed>>

-----------------------------------------------------------------------------
(* The dispatcher, the workers, the writer.                                *)

DispTake ==
  /\ disp = 0 /\ pending # <<>>
  /\ disp' = Head(pending) /\ pending' = Tail(pending)
  /\ UNCHANGED <<storeVars, pc, mainVars, frameVars, ready, closed, hashWg, wk, writeQ, writer, outVars,
                 failed, result, faults>>

DispSend ==
  /\ disp \in Frames /\ Len(ready) < ReadyCap
  /\ ready' = Append(ready, disp) /\ disp' = 0
  /\ UNCHANGED <<storeVars, pc, mainVars, frameVars, pending, closed, hashWg, wk, writeQ, writer, outVars,
                 failed, result, faults>>

DispExit ==
  /\ disp = 0 /\ pending = <<>> /\ closed
  /\ disp' = Gone
  /\ UNCHANGED <<storeVars, pc, mainVars, frameVars, pending, ready, closed, hashWg, wk, writeQ, writer,
                 outVars, failed, result, faults>>

Goes(w, at) == wk' = [wk EXCEPT ![w].at = at]

WorkerTake(w) ==
  /\ wk[w].at = "idle"
  /\ \/ /\ ready # <<>>
        /\ wk' = [wk EXCEPT ![w] = [at |-> "hash", f |-> Head(ready), p |-> 0]]
        /\ ready' = Tail(ready)
     \/ /\ ready = <<>> /\ disp = Gone
        /\ Goes(w, "gone") /\ UNCHANGED ready
  /\ UNCHANGED <<storeVars, pc, mainVars, frameVars, pending, disp, closed, hashWg, writeQ, writer, outVars,
                 failed, result, faults>>

(* The children of frame f are those it was linked to; a leaf has none.    *)
Children(f) == {c \in Frames : parent[c] = f}

HashFrame(w) ==
  /\ wk[w].at = "hash"
  /\ LET f == wk[w].f IN
     hash' = [hash EXCEPT ![f] = IF \A c \in Children(f) : hash[c] = "right" THEN "right" ELSE "wrong"]
  /\ Goes(w, "root")
  /\ UNCHANGED <<storeVars, pc, mainVars, pend, events, built, submitted, parent, queueVars, writeQ, writer,
                 outVars, failed, result, faults>>

(* A frame without a parent yet may be the root: keep its bytes. *)
KeepRoot(w) ==
  /\ wk[w].at = "root"
  /\ rootBytes' = IF parent[wk[w].f] = 0 THEN wk[w].f ELSE rootBytes
  /\ Goes(w, "write")
  /\ UNCHANGED <<storeVars, pc, mainVars, frameVars, queueVars, writeQ, writer, batch, bwCh, bwErr, db,
                 raced, failed, result, faults>>

PushWrite(w) ==
  /\ wk[w].at = "write" /\ Len(writeQ) < WriteCap
  /\ writeQ' = Append(writeQ, wk[w].f)
  /\ Goes(w, "event")
  /\ UNCHANGED <<storeVars, pc, mainVars, frameVars, queueVars, writer, outVars, failed, result, faults>>

(* The worker's event; the second of a frame's two counts it off its       *)
(* parent, which is submitted when it was the last and main has built it.  *)
HashDone(w) ==
  /\ wk[w].at = "event"
  /\ LET f == wk[w].f IN
     /\ events' = [events EXCEPT ![f] = @ + 1]
     /\ wk' = [wk EXCEPT ![w].at = IF events'[f] = 2 THEN "dec" ELSE "done",
                         ![w].p = IF events'[f] = 2 THEN parent[f] ELSE 0]
  /\ UNCHANGED <<storeVars, pc, mainVars, hash, pend, built, submitted, parent, queueVars, writeQ, writer,
                 outVars, failed, result, faults>>

CountOff(w) ==
  /\ wk[w].at = "dec"
  /\ pend' = [pend EXCEPT ![wk[w].p] = @ - 1]
  /\ Goes(w, IF pend'[wk[w].p] = 0 THEN "built" ELSE "done")
  /\ UNCHANGED <<storeVars, pc, mainVars, hash, events, built, submitted, parent, queueVars, writeQ, writer,
                 outVars, failed, result, faults>>

(* Mutant: the worker does not compare and swap submitted. *)
PromoteAgain(w) ==
  /\ wk[w].at = "built"
  /\ LET p == wk[w].p IN
     IF built[p]
     THEN /\ submitted' = [submitted EXCEPT ![p] = TRUE] /\ hashWg' = hashWg + 1
          /\ pending' = Append(pending, p)
     ELSE UNCHANGED <<submitted, hashWg, pending>>
  /\ Goes(w, "done")
  /\ UNCHANGED <<storeVars, pc, mainVars, hash, pend, events, built, parent, ready, disp, closed, writeQ,
                 writer, outVars, failed, result, faults>>

(* submitParFrame of a worker: never waits for room. *)
Promote(w) ==
  /\ wk[w].at = "built"
  /\ LET p == wk[w].p IN
     IF built[p] /\ ~submitted[p]
     THEN /\ submitted' = [submitted EXCEPT ![p] = TRUE] /\ hashWg' = hashWg + 1
          /\ pending' = Append(pending, p)
     ELSE UNCHANGED <<submitted, hashWg, pending>>
  /\ Goes(w, "done")
  /\ UNCHANGED <<storeVars, pc, mainVars, hash, pend, events, built, parent, ready, disp, closed, writeQ,
                 writer, outVars, failed, result, faults>>

FrameDone(w) ==
  /\ wk[w].at = "done"
  /\ hashWg' = hashWg - 1
  /\ wk' = [wk EXCEPT ![w] = [at |-> "idle", f |-> 0, p |-> 0]]
  /\ UNCHANGED <<storeVars, pc, mainVars, frameVars, pending, ready, disp, closed, writeQ, writer, outVars,
                 failed, result, faults>>

(* The writer sets the frames' entries; after an error it only drains.     *)
(* Where f/ entries do not go to the table the main thread calls set too:  *)
(* see SetFast.                                                            *)
WriterSet ==
  /\ writer \in {"run", "failed"} /\ writeQ # <<>>
  /\ writeQ' = Tail(writeQ)
  /\ LET f == Head(writeQ)
         e == << Key(f), Value(hash[f], f) >>
     IN  IF writer = "failed"
         THEN UNCHANGED <<batch, bwCh, writer>>
         ELSE CanSet(e) /\ Set(e) /\ writer' = (IF SetErr(e) THEN "failed" ELSE "run")
  /\ UNCHANGED <<storeVars, pc, mainVars, frameVars, queueVars, wk, rootBytes, bwErr, db,
                 raced, failed, result, faults>>

WriterExit ==
  /\ writer = "run" /\ writeQ = <<>> /\ pc = "write"
  /\ writer' = "gone"
  /\ UNCHANGED <<storeVars, pc, mainVars, frameVars, queueVars, wk, writeQ, outVars, failed, result, faults>>

Main == \/ AddSeq \/ SetFastSeq \/ Malformed \/ FastRefused \/ AddLeafPar \/ AddInnerPar \/ LinkChild
        \/ MarkBuilt \/ CheckPending \/ Enqueue \/ StreamEnds \/ FinishStreaming \/ Join \/ FinalizeStore \/ Drain
Dispatcher == DispTake \/ DispSend \/ DispExit
Worker(w)  == \/ WorkerTake(w) \/ HashFrame(w) \/ KeepRoot(w) \/ PushWrite(w) \/ HashDone(w)
              \/ CountOff(w) \/ Promote(w) \/ FrameDone(w)
Writer     == WriterSet \/ WriterExit

Next == Main \/ FastFails \/ Dispatcher \/ (\E w \in Workers : Worker(w)) \/ Writer \/ Commit

(* Every goroutine goes on when it can; faults need not happen. *)
Fairness ==
  /\ WF_vars(Main) /\ WF_vars(Dispatcher) /\ WF_vars(Writer) /\ WF_vars(Commit)
  /\ \A w \in Workers : WF_vars(Worker(w))
Spec == Init /\ [][Next]_vars /\ Fairness

-----------------------------------------------------------------------------
(* The reference, from the stream alone.                                   *)

(* The roots of the subtrees left by the first j nodes; <<0>> once a node  *)
(* had no pair to close.                                                   *)
RootsAfter[j \in 0 .. N] ==
  IF j = 0 THEN <<>>
  ELSE LET r == RootsAfter[j - 1]
           n == Len(r)
       IN  IF r = <<0>> THEN r
           ELSE IF Leaf(j) THEN Append(r, j)
           ELSE IF n >= 2 /\ nodes[r[n]].h < nodes[j].h /\ nodes[r[n - 1]].h < nodes[j].h
                THEN Append(SubSeq(r, 1, n - 2), j)
                ELSE <<0>>
WellFormed == RootsAfter[N] # <<0>> /\ Len(RootsAfter[N]) <= 1

(* Nodes of a version are numbered from 2 in stream order. *)
NonceRef(i) == 1 + Cardinality({j \in 1 .. i : nodes[j].v = nodes[i].v})
RefDB ==
  LET node == { << <<nodes[i].v, NonceRef(i)>>, Value("right", i) >> : i \in Frames }
      leaf == {FastEntry(i) : i \in {j \in Frames : Leaf(j)}}
      root == IF N = 0 THEN { << <<Height, 1>>, Value("empty", 0) >> }
              ELSE { << <<nodes[N].v, 1>>, Value("right", N) >> } \cup
                   (IF nodes[N].v = Height THEN {} ELSE { << <<Height, 1>>, Value("redirect", nodes[N].v) >> })
  IN  node \cup leaf \cup root \cup {Marker}

(* Properties.                                                             *)

(* However the threads interleave, an import that succeeds has committed   *)
(* exactly the reference entries, root hash and f/ entries included, and   *)
(* only for a well-formed stream ("Same output, same AppHash",             *)
(* ImportParallel), unless the main thread and the writer were in set      *)
(* together.  They never are with FastIngest or without WaveParallel; with *)
(* WaveParallel alone nothing keeps them apart.                            *)
SameAsReference ==
  /\ result = "ok" => WellFormed /\ (raced \/ db = RefDB)
  /\ raced => par /\ ~fast

Copies(i) ==
  Cardinality({j \in DOMAIN pending : pending[j] = i}) + Cardinality({j \in DOMAIN ready : ready[j] = i})
  + (IF disp = i THEN 1 ELSE 0) + Cardinality({w \in Workers : wk[w].f = i})

(* A frame is handed to the pool at most once, and not before both of its  *)
(* children were hashed (the events and pending counters of parFrame).     *)
HashedOnceChildrenFirst ==
  \A i \in Frames :
    /\ hash[i] # "wrong"
    /\ par => Copies(i) + (IF hash[i] # "none" /\ \A w \in Workers : wk[w].f # i THEN 1 ELSE 0) <= 1
    /\ par /\ Copies(i) > 0 => \A c \in Children(i) : hash[c] = "right"

(* The import of the store ends: no thread waits for room that only it     *)
(* could make (pendingCap, ready, writeQ, the batches), with or without    *)
(* errors.                                                                 *)
StoreReturns == <>(result # "none")
=============================================================================
