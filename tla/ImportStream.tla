---------------------------- MODULE ImportStream ----------------------------
(***************************************************************************)
(* ImportParallel (internal/snapshotimport/parallel.go) over the chunk     *)
(* ring (chunkring.go).  Stage 1 scans the decompressed stream and tees it *)
(* into the ring; at each StoreItem it pins a reader there and hands the   *)
(* store to a pool of workers; each worker reads its store behind a        *)
(* buffer, and learns where the store ends from a listener goroutine or    *)
(* from the next store's first item, whichever comes first.  Extensions    *)
(* are read last.  What feeds stage 1 is left open (variables fetched and  *)
(* pf); FetchImport closes it.                                             *)
(*                                                                         *)
(* Offsets are real, bytes are not: an item is known by its kind and by    *)
(* the offset at which it ends.  A store is named by the index of its      *)
(* StoreItem, the extension tail by the index of its first item.           *)
(***************************************************************************)
EXTENDS Integers, Sequences, FiniteSets, FiniteSetsExt

CONSTANTS
  Streams,     \* decompressed streams: sequences of items [kind, end]
  Workers,
  PfBuf,       \* bytes of one prefetch buffer
  BufSize,     \* bytes a reader pulls at once, snapReader's bufio
  ChunkSize,   \* bytes of a ring chunk
  MaxBytes,    \* bytes the ring may hold
  ChanCap,     \* capacity of storeCh
  FastIngest,  \* ParallelOptions.FastIngest
  MaxFaults    \* bound: reads, stores and final writes that fail on their own

Kinds == {"store", "iavl", "ext", "bad"}

ASSUME StreamConstants ==
  /\ \A s \in Streams :   \* no item is empty; the extensions are the tail
       /\ s \in Seq([kind : Kinds, end : Nat \ {0}])
       /\ \A i, j \in 1 .. Len(s) :
            i < j => s[i].end < s[j].end /\ (s[i].kind = "ext" => s[j].kind \in {"ext", "bad"})
  /\ Workers # {}
  /\ PfBuf \in Nat \ {0} /\ BufSize \in Nat \ {0}
  /\ ChunkSize \in Nat /\ PfBuf <= ChunkSize   \* 1 MiB and 4 MiB
  /\ MaxBytes \in Nat /\ ChunkSize <= MaxBytes  \* newChunkRing panics otherwise
  /\ ChanCap \in Nat \ {0} /\ FastIngest \in BOOLEAN /\ MaxFaults \in Nat

VARIABLES
  stream,    \* the stream of this import
  wave,      \* ParallelOptions.WaveParallel
  fetched,   \* bytes the prefetch goroutine has put into its channel
  pf,        \* and how it ended
  taken,     \* bytes stage 1 has taken out of it
  want,      \* of these, bytes still to be written to the ring
  item,      \* the item stage 1 scans next
  cur,       \* the store stage 1 is in, 0 for none
  s1, s1err, \* stage 1, and why it failed
  head, ends, tail, closed,  \* the ring; ends are the chunks' end offsets
  rd,        \* the ring's readers
  storeCh,
  sent,      \* stores whose end is in their EndCh
  wk,        \* the workers
  imported,  \* for each store imported, the last item it took
  firstErr,  \* the first error of stage 2
  imp,       \* ImportParallel
  faults

srcVars    == <<fetched, pf>>
scanVars   == <<taken, want, item, cur, s1, s1err>>
ringVars   == <<head, ends, tail, closed>>
outVars    == <<imported, firstErr, imp, faults>>
streamVars == <<stream, wave, srcVars, scanVars, ringVars, rd, storeCh, sent, wk, outVars>>

Items    == 1 .. Len(stream)
Total    == IF stream = <<>> THEN 0 ELSE stream[Len(stream)].end
StartOf(j) == IF j = 1 THEN 0 ELSE stream[j - 1].end
EndOf(j) == stream[j].end
Is(j, kinds) == j \in Items /\ stream[j].kind \in kinds
Stores   == {j \in Items : Is(j, {"store"})}
ExtStart == Min({j \in Items : Is(j, {"ext"})} \cup {Len(stream) + 1})
Unknown  == Total + 1      \* endLimit -1: not known yet
Causes   == {"none", "own", "fetch"}

TypeOK ==
  /\ stream \in Streams /\ wave \in BOOLEAN
  /\ fetched \in 0 .. Total /\ pf \in {"run", "eof", "failed", "broken", "stopped"}
  /\ taken \in 0 .. Total /\ want \in 0 .. PfBuf
  /\ item \in 1 .. Len(stream) + 1 /\ cur \in Stores \cup {0}
  /\ s1 \in {"scan", "emit", "closing", "done"} /\ s1err \in Causes
  /\ head \in 0 .. Total /\ tail \in head .. Total
  /\ ends \in SUBSET (head + 1 .. tail) /\ tail = Max(ends \cup {head})
  /\ closed \in {"open", "eof", "failed"}
  /\ rd \in [Items -> [open : BOOLEAN, pos : 0 .. Total, pin : 0 .. Total, end : 0 .. Unknown]]
  /\ storeCh \in Seq(Stores) /\ Len(storeCh) <= ChanCap
  /\ sent \subseteq Stores
  /\ wk \in [Workers -> [phase : {"idle", "read", "past", "exit"},
                         store : Stores \cup {0}, next : 0 .. Len(stream) + 1,
                         bad : BOOLEAN, stuck : BOOLEAN]]
  /\ imported \in [Stores -> 0 .. Len(stream)]
  /\ firstErr \in Causes
  /\ imp \in {"stages", "final", "ok", "own", "fetch"}
  /\ faults \in 0 .. MaxFaults

NoReader == [open |-> FALSE, pos |-> 0, pin |-> 0, end |-> 0]
Idle     == [phase |-> "idle", store |-> 0, next |-> 0, bad |-> FALSE, stuck |-> FALSE]

StreamInit ==
  /\ stream \in Streams /\ wave \in BOOLEAN
  /\ fetched = 0 /\ pf = "run"
  /\ taken = 0 /\ want = 0 /\ item = 1 /\ cur = 0 /\ s1 = "scan" /\ s1err = "none"
  /\ head = 0 /\ ends = {} /\ tail = 0 /\ closed = "open"
  /\ rd = [j \in Items |-> NoReader]
  /\ storeCh = <<>> /\ sent = {}
  /\ wk = [w \in Workers |-> Idle]
  /\ imported = [s \in Stores |-> 0]
  /\ firstErr = "none" /\ imp = "stages" /\ faults = 0

-----------------------------------------------------------------------------
(* The ring.                                                               *)

(* evictLocked, for readers r: without a reader nothing is evicted. *)
Evict(r) ==
  LET pins == {r[j].pin : j \in {i \in Items : r[i].open}}
      gone == IF pins = {} THEN {} ELSE {e \in ends : e <= Min(pins)}
  IN  /\ head' = Max(gone \cup {head})
      /\ ends' = ends \ gone

(* NewReader: refused below the ring's head. *)
Evicted(j) == StartOf(j) < head
NewReader(j) == [open |-> TRUE, pos |-> StartOf(j), pin |-> StartOf(j), end |-> Unknown]

(* Write: fills the last chunk, then a new one, as far as the cap allows;  *)
(* stage 1 sleeps in it while the ring is full.                            *)
Room == MaxBytes - (tail - head)
Write ==
  /\ want > 0
  /\ Room > 0
  /\ LET n    == Min({want, Room})
         last == Max((ends \ {tail}) \cup {head})
         fill == IF ends = {} THEN 0 ELSE Min({n, ChunkSize - (tail - last)})
     IN  /\ tail' = tail + n
         /\ ends' = (IF fill > 0 THEN (ends \ {tail}) \cup {tail + fill} ELSE ends) \cup {tail + n}
         /\ want' = want - n
  /\ UNCHANGED <<stream, wave, srcVars, taken, item, cur, s1, s1err, head, closed, rd,
                 storeCh, sent, wk, outVars>>

-----------------------------------------------------------------------------
(* Stage 1: stage1WriteRingAndIndex and buildIndexFromReader.              *)

Scanning == s1 = "scan" /\ want = 0

(* TeeReader: one read of the prefetch channel, to be written to the ring. *)
Take ==
  /\ Scanning
  /\ taken < fetched
  /\ item \notin Items \/ taken < (IF Is(item, {"store"}) THEN EndOf(item) ELSE StartOf(item) + 1)
  /\ LET n == Min({PfBuf, fetched - taken}) IN taken' = taken + n /\ want' = n
  /\ UNCHANGED <<stream, wave, srcVars, item, cur, s1, s1err, ringVars, rd, storeCh, sent, wk, outVars>>

(* closeCur: the end of the current store goes into its EndCh. *)
CloseCur == sent' = sent \cup ({cur} \ {0})

(* A StoreItem, read to its end: close the store before it, pin a reader   *)
(* for this one, then send it to storeCh.                                  *)
ScanStore ==
  /\ Scanning
  /\ Is(item, {"store"}) /\ taken >= EndOf(item)
  /\ CloseCur
  /\ IF Evicted(item)
     THEN s1' = "closing" /\ s1err' = "own" /\ UNCHANGED <<rd, cur, item>>
     ELSE /\ rd' = [rd EXCEPT ![item] = NewReader(item)]
          /\ cur' = item
          /\ s1' = "emit" /\ UNCHANGED <<s1err, item>>
  /\ UNCHANGED <<stream, wave, srcVars, taken, want, ringVars, storeCh, wk, outVars>>

Emit ==
  /\ s1 = "emit"
  /\ Len(storeCh) < ChanCap
  /\ storeCh' = Append(storeCh, cur)
  /\ s1' = "scan" /\ item' = item + 1
  /\ UNCHANGED <<stream, wave, srcVars, taken, want, cur, s1err, ringVars, rd, sent, wk, outVars>>

(* Other items are told by their first byte and skipped; an extension ends *)
(* the last store, an unknown field ends the scan.                         *)
ScanItem ==
  /\ Scanning
  /\ Is(item, {"iavl", "ext", "bad"}) /\ taken > StartOf(item)
  /\ IF Is(item, {"ext"}) THEN CloseCur /\ cur' = 0 ELSE UNCHANGED <<sent, cur>>
  /\ IF Is(item, {"bad"}) THEN s1' = "closing" /\ s1err' = "own" /\ UNCHANGED item
                          ELSE item' = item + 1 /\ UNCHANGED <<s1, s1err>>
  /\ UNCHANGED <<stream, wave, srcVars, taken, want, ringVars, rd, storeCh, wk, outVars>>

(* The prefetch channel is empty for good: end of the stream, or an error. *)
SourceEnds ==
  /\ Scanning
  /\ taken = fetched
  /\ \/ /\ pf = "eof" /\ item \notin Items
        /\ CloseCur /\ cur' = 0 /\ UNCHANGED s1err
     \/ /\ pf \in {"failed", "broken"}
        /\ s1err' = (IF pf = "failed" THEN "fetch" ELSE "own") /\ UNCHANGED <<sent, cur>>
  /\ s1' = "closing"
  /\ UNCHANGED <<stream, wave, srcVars, taken, want, item, ringVars, rd, storeCh, wk, outVars>>

(* The deferred closes, which wait for the prefetch goroutine, then the    *)
(* close of storeCh and of the ring.                                       *)
Stage1Done ==
  /\ s1 = "closing"
  /\ pf # "run"
  /\ s1' = "done"
  /\ closed' = IF s1err = "none" THEN "eof" ELSE "failed"
  /\ UNCHANGED <<stream, wave, srcVars, taken, want, item, cur, s1err, head, ends, tail, rd,
                 storeCh, sent, wk, outVars>>

-----------------------------------------------------------------------------
(* Stage 2: the workers, processStoreSegment and snapReader.               *)

Reader(w) == rd[wk[w].store]
Busy(w)   == wk[w].phase \in {"read", "past"}

(* The reader is closed and the result sent; e is the error of the store,  *)
(* which leaves the store's SSTable open.                                  *)
StoreEnds(w, e) ==
  /\ rd' = [rd EXCEPT ![wk[w].store] = NoReader]
  /\ Evict(rd')
  /\ wk' = [wk EXCEPT ![w] = [Idle EXCEPT !.stuck = wk[w].stuck \/ (FastIngest /\ e # "none")]]
  /\ firstErr' = IF firstErr = "none" THEN e ELSE firstErr

(* for store := range storeCh.  A worker whose last store failed still has *)
(* that store's SSTable open: fastIngester refuses every later store.      *)
TakeStore(w) ==
  /\ wk[w].phase = "idle"
  /\ storeCh # <<>>
  /\ storeCh' = Tail(storeCh)
  /\ LET s == Head(storeCh) IN
     IF wk[w].stuck
     THEN /\ rd' = [rd EXCEPT ![s] = NoReader]
          /\ Evict(rd')
          /\ firstErr' = IF firstErr = "none" THEN "own" ELSE firstErr
          /\ UNCHANGED wk
     ELSE /\ wk' = [wk EXCEPT ![w] = [@ EXCEPT !.phase = "read", !.store = s, !.next = s]]
          /\ UNCHANGED <<rd, head, ends, firstErr>>
  /\ UNCHANGED <<stream, wave, srcVars, scanVars, tail, closed, sent, imported, imp, faults>>

WorkerExits(w) ==
  /\ wk[w].phase = "idle" /\ storeCh = <<>> /\ s1 = "done"
  /\ wk' = [wk EXCEPT ![w].phase = "exit"]
  /\ UNCHANGED <<stream, wave, srcVars, scanVars, ringVars, rd, storeCh, sent, outVars>>

(* Mutant: closeCur sends the start of the store's last item. *)
SetEndEarly(w) ==
  /\ Busy(w)
  /\ wk[w].store \in sent /\ Reader(w).end = Unknown
  /\ LET s == wk[w].store IN
     rd' = [rd EXCEPT ![s].end = StartOf(Min({j \in Items : j > s /\ Is(j, {"store", "ext"})}
                                                \cup {Len(stream) + 1}) - 1)]
  /\ UNCHANGED <<stream, wave, srcVars, scanVars, ringVars, storeCh, sent, wk, outVars>>

(* The goroutine that waits on EndCh while the store is processed. *)
SetEnd(w) ==
  /\ Busy(w)
  /\ wk[w].store \in sent /\ Reader(w).end = Unknown
  /\ LET s == wk[w].store IN
     rd' = [rd EXCEPT ![s].end = StartOf(Min({j \in Items : j > s /\ Is(j, {"store", "ext"})}
                                                \cup {Len(stream) + 1}))]
  /\ UNCHANGED <<stream, wave, srcVars, scanVars, ringVars, storeCh, sent, wk, outVars>>

(* Next has the whole item in its buffer. *)
Buffered(w) == wk[w].next \in Items /\ Reader(w).pos >= EndOf(wk[w].next)
Boundary(w) == Is(wk[w].next, {"store", "ext"}) /\ wk[w].next # wk[w].store

(* Mutant: without EnableManualPin, what was pulled counts as consumed. *)
ReadMoreAutoPin(w) ==
  /\ Busy(w) /\ ~Buffered(w)
  /\ LET r == Reader(w)
         p == Min({r.pos + BufSize, Min({e \in ends : e > r.pos}), r.end})
     IN  /\ r.pos < r.end /\ r.pos < tail
         /\ rd' = [rd EXCEPT ![wk[w].store].pos = p, ![wk[w].store].pin = p]
  /\ Evict(rd')
  /\ UNCHANGED <<stream, wave, srcVars, scanVars, tail, closed, storeCh, sent, wk, outVars>>

(* Otherwise it reads on, from the chunk that holds pos. *)
ReadMore(w) ==
  /\ Busy(w) /\ ~Buffered(w)
  /\ LET r == Reader(w) IN
     /\ r.pos < r.end /\ r.pos < tail
     /\ rd' = [rd EXCEPT ![wk[w].store].pos =
                 Min({r.pos + BufSize, Min({e \in ends : e > r.pos}), r.end})]
  /\ UNCHANGED <<stream, wave, srcVars, scanVars, ringVars, storeCh, sent, wk, outVars>>

(* The item is handled and Next called again, which commits it.  A wave    *)
(* decoder does not wait for its consumer: it goes on past the boundary.   *)
Deliver(w) ==
  /\ Busy(w) /\ Buffered(w)
  /\ Boundary(w) => wave
  /\ Is(wk[w].next, {"bad"}) => wk[w].phase = "past"
  /\ rd' = [rd EXCEPT ![wk[w].store].pin = EndOf(wk[w].next)]
  /\ Evict(rd')
  /\ wk' = [wk EXCEPT ![w].next = @ + 1,
                      ![w].phase = IF Boundary(w) THEN "past" ELSE @]
  /\ imported' = IF Boundary(w) /\ wk[w].phase = "read"
                 THEN [imported EXCEPT ![wk[w].store] = wk[w].next - 1] ELSE imported
  /\ UNCHANGED <<stream, wave, srcVars, scanVars, tail, closed, storeCh, sent, firstErr, imp, faults>>

(* The first item of another store, or of the extensions, ends the store.  *)
BoundaryEnds(w) ==
  /\ wk[w].phase = "read" /\ Buffered(w) /\ Boundary(w) /\ ~wave
  /\ StoreEnds(w, "none")
  /\ imported' = [imported EXCEPT ![wk[w].store] = wk[w].next - 1]
  /\ UNCHANGED <<stream, wave, srcVars, scanVars, tail, closed, storeCh, sent, imp, faults>>

(* Read returns io.EOF or the ring's error, and so does Next: io.EOF       *)
(* between two items, ErrUnexpectedEOF inside one.                         *)
AtEof(w)  == LET r == Reader(w) IN ~Buffered(w) /\ (r.pos >= r.end \/ (closed # "open" /\ r.pos >= tail))
Cut(w)    == Reader(w).pos > StartOf(wk[w].next)
ReadError(w) == IF closed = "failed" /\ Reader(w).pos < Reader(w).end THEN s1err
                ELSE IF Cut(w) THEN "own" ELSE "none"

EofEnds(w) ==
  /\ wk[w].phase = "read" /\ AtEof(w)
  /\ StoreEnds(w, ReadError(w))
  /\ imported' = IF ReadError(w) = "none"
                 THEN [imported EXCEPT ![wk[w].store] = wk[w].next - 1] ELSE imported
  /\ UNCHANGED <<stream, wave, srcVars, scanVars, tail, closed, storeCh, sent, imp, faults>>

(* A wave worker returns when its decoder has run dry.  A late error of    *)
(* the decoder counts if the main loop looks at decErr after it.           *)
WaveEnds(w) ==
  /\ wk[w].phase = "past" /\ AtEof(w)
  /\ \E e \in {"none", ReadError(w)} : StoreEnds(w, IF wk[w].bad THEN "own" ELSE e)
  /\ UNCHANGED <<stream, wave, srcVars, scanVars, tail, closed, storeCh, sent, imported, imp, faults>>

(* The worker gives the store up, with its SSTable open or not.  A wave    *)
(* worker first drains its decoder.                                        *)
GivesUp(w, open) ==
  /\ IF wave
     THEN /\ wk' = [wk EXCEPT ![w].phase = "past", ![w].bad = TRUE, ![w].stuck = open]
          /\ UNCHANGED <<rd, head, ends, firstErr>>
     ELSE /\ rd' = [rd EXCEPT ![wk[w].store] = NoReader]
          /\ Evict(rd')
          /\ wk' = [wk EXCEPT ![w] = [Idle EXCEPT !.stuck = open]]
          /\ firstErr' = IF firstErr = "none" THEN "own" ELSE firstErr
  /\ UNCHANGED <<stream, wave, srcVars, scanVars, tail, closed, storeCh, sent, imported, imp>>

Malformed(w) ==
  /\ wk[w].phase = "read" /\ Buffered(w) /\ Is(wk[w].next, {"bad"})
  /\ GivesUp(w, FastIngest) /\ UNCHANGED faults

(* A commit, an ingest or the disk fails; ingestStore has let go of the    *)
(* SSTable when it fails.                                                  *)
StoreFault(w) ==
  /\ wk[w].phase = "read" /\ faults < MaxFaults
  /\ \E open \in {FastIngest, FALSE} : GivesUp(w, open)
  /\ faults' = faults + 1

-----------------------------------------------------------------------------
(* ImportParallel itself: the stages' results, stage 3, commit-info.       *)

StagesEnd ==
  /\ imp = "stages"
  /\ \A w \in Workers : wk[w].phase = "exit"
  /\ imp' = IF firstErr # "none" THEN firstErr
            ELSE IF s1err # "none" THEN s1err
            ELSE "final"
  /\ UNCHANGED <<stream, wave, srcVars, scanVars, ringVars, rd, storeCh, sent, wk,
                 imported, firstErr, faults>>

(* stage3ExtensionsFromRing reads what is left in the ring; then one       *)
(* synced batch with commit-info and latest-version.                       *)
Finalize ==
  /\ imp = "final"
  /\ \/ imp' = (IF ExtStart \in Items /\ Evicted(ExtStart) THEN "own" ELSE "ok") /\ UNCHANGED faults
     \/ faults < MaxFaults /\ faults' = faults + 1 /\ imp' = "own"
  /\ UNCHANGED <<stream, wave, srcVars, scanVars, ringVars, rd, storeCh, sent, wk, imported, firstErr>>

Stage1 == Take \/ Write \/ ScanStore \/ Emit \/ ScanItem \/ SourceEnds \/ Stage1Done
Work(w) == \/ TakeStore(w) \/ WorkerExits(w) \/ ReadMore(w) \/ Deliver(w)
           \/ BoundaryEnds(w) \/ EofEnds(w) \/ WaveEnds(w) \/ Malformed(w)
StreamNext ==
  \/ Stage1 \/ StagesEnd \/ Finalize
  \/ \E w \in Workers : Work(w) \/ SetEnd(w) \/ StoreFault(w)
=============================================================================
