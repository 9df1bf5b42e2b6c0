---------------------------- MODULE FetchImport ----------------------------
(***************************************************************************)
(* `malcom snapshot fetch --import`: the fetch writes chunk files in any   *)
(* order (RunFetch, reduced here to the callbacks and the error it         *)
(* returns), a tailing reader (tailread.go) opens them in order behind a   *)
(* prefetch goroutine (prefetch.go), and ImportStream imports what comes   *)
(* out.  pipeline.go joins the two ends and run.go makes an exit code of   *)
(* how they ended.                                                         *)
(***************************************************************************)
EXTENDS ImportStream

CONSTANTS
  NumChunks,  \* chunk files of the snapshot
  PfCap       \* numBufs, the prefetch channel's capacity

ASSUME PipelineConstants == NumChunks \in Nat \ {0} /\ PfCap \in Nat \ {0}

VARIABLES
  ready,        \* chunk files marked ready
  opened,       \* chunk files the tailing reader has opened
  failErr,      \* TailingChunkSource.Fail was called
  fetch,        \* RunFetch: running, or what it returned
  cancelled,    \* the root context
  interrupted,  \* a signal came
  exit          \* the exit code; -1 while the command runs

pipeVars == <<ready, opened, failErr, fetch, cancelled, interrupted, exit>>
vars == <<streamVars, pipeVars>>

(* "failed" stands for ErrDownloadFailed, and for ErrDiskFailed, which has *)
(* a code of its own in the same way; "mismatch" for the failed check of   *)
(* the snapshot's hash, which has no sentinel.                             *)
FetchErrors == {"cancelled", "failed", "mismatch"}
ExitCodes   == {0, 1, 5, 6, 7, 130}

PipeTypeOK ==
  /\ TypeOK
  /\ ready \subseteq 1 .. NumChunks /\ opened \in 0 .. NumChunks
  /\ failErr \in BOOLEAN /\ cancelled \in BOOLEAN /\ interrupted \in BOOLEAN
  /\ fetch \in {"run", "done"} \cup FetchErrors
  /\ exit \in ExitCodes \cup {-1}

Init ==
  /\ StreamInit
  /\ ready = {} /\ opened = 0 /\ failErr = FALSE
  /\ fetch = "run" /\ cancelled = FALSE /\ interrupted = FALSE /\ exit = -1

-----------------------------------------------------------------------------
(* The fetch.                                                              *)

(* onChunkReady. *)
ChunkReady(c) ==
  /\ fetch = "run" /\ c \notin ready
  /\ ready' = ready \cup {c}
  /\ UNCHANGED <<streamVars, opened, failErr, fetch, cancelled, interrupted, exit>>

(* RunFetch returns: with every chunk on disk, the snapshot's hash         *)
(* verified or not, with an error of the download at any time, or          *)
(* cancelled.                                                              *)
Downloaded == ready = 1 .. NumChunks

FetchReturns ==
  /\ fetch = "run"
  /\ \/ fetch' \in {"done", "mismatch"} /\ Downloaded
     \/ fetch' = "failed"
     \/ fetch' = "cancelled" /\ cancelled
  /\ UNCHANGED <<streamVars, ready, opened, failErr, cancelled, interrupted, exit>>

Interrupt ==
  /\ ~interrupted /\ exit = -1
  /\ interrupted' = TRUE /\ cancelled' = TRUE
  /\ UNCHANGED <<streamVars, ready, opened, failErr, fetch, exit>>

-----------------------------------------------------------------------------
(* The tailing reader and the prefetch goroutine.                          *)

(* Bytes that come out of the first k files. *)
Avail(k) == (Total * k) \div NumChunks
FullBuffer == Avail(opened) >= fetched + PfBuf

(* openCurrent: asleep until the next file is ready or the fetch failed.   *)
PfOpen ==
  /\ pf = "run" /\ ~FullBuffer
  /\ opened + 1 \in ready /\ ~failErr
  /\ opened' = opened + 1
  /\ UNCHANGED <<streamVars, ready, failErr, fetch, cancelled, interrupted, exit>>

Ships(n, end) ==
  /\ fetched' = fetched + n
  /\ pf' = end
  /\ UNCHANGED <<stream, wave, scanVars, ringVars, rd, storeCh, sent, wk, outVars, pipeVars>>

SlotFree == fetched - taken <= PfBuf * (PfCap - 1)

PfShip == pf = "run" /\ FullBuffer /\ SlotFree /\ Ships(PfBuf, "run")

(* The last buffer is short, and then comes io.EOF or the error of Fail.   *)
PfEnds ==
  /\ pf = "run" /\ ~FullBuffer /\ SlotFree
  /\ \/ opened = NumChunks /\ Ships(Avail(opened) - fetched, "eof")
     \/ opened < NumChunks /\ failErr /\ Ships(Avail(opened) - fetched, "failed")

(* The next chunk file cannot be opened, or the zlib stream breaks in it:  *)
(* what the files before it gave comes first.                              *)
PfBreaks ==
  /\ pf = "run" /\ ~FullBuffer /\ SlotFree
  /\ opened + 1 \in ready /\ ~failErr
  /\ faults < MaxFaults /\ faults' = faults + 1
  /\ fetched' = Avail(opened)
  /\ pf' = "broken"
  /\ UNCHANGED <<stream, wave, scanVars, ringVars, rd, storeCh, sent, wk, imported, firstErr, imp,
                 pipeVars>>

(* pf.Close: the goroutine sees the cancelled context when it next sends.  *)
PfStop ==
  /\ pf = "run" /\ s1 = "closing"
  /\ FullBuffer \/ opened = NumChunks \/ failErr
  /\ Ships(0, "stopped")

-----------------------------------------------------------------------------
(* pipeline.go and run.go.                                                 *)

ImportOver == imp \in {"ok", "own", "fetch"}

(* Mutant: the fetch is cancelled by finalize, once it has returned. *)
CancelAfterFetch ==
  /\ imp \in {"own", "fetch"} /\ ~cancelled /\ exit = -1 /\ fetch # "run"
  /\ cancelled' = TRUE
  /\ UNCHANGED <<streamVars, ready, opened, failErr, fetch, interrupted, exit>>

(* The import goroutine has sent its result; an import that failed cancels *)
(* the fetch.                                                              *)
CancelFetch ==
  /\ imp \in {"own", "fetch"} /\ ~cancelled /\ exit = -1
  /\ cancelled' = TRUE
  /\ UNCHANGED <<streamVars, ready, opened, failErr, fetch, interrupted, exit>>

(* finalize: wake the importer if the fetch failed, then wait for it. *)
FailTailing ==
  /\ fetch \in FetchErrors /\ ~failErr
  /\ failErr' = TRUE
  /\ UNCHANGED <<streamVars, ready, opened, fetch, cancelled, interrupted, exit>>

(* Mutant: the fetch's error comes first. *)
FetchErrFirst == IF fetch # "done" THEN fetch ELSE IF imp # "ok" THEN imp ELSE "none"

FinalErr == IF imp = "own" THEN "own" ELSE IF imp = "fetch" \/ fetch # "done" THEN fetch ELSE "none"

MapExitCode(err) ==
  IF interrupted \/ err = "cancelled" THEN 130 ELSE IF err = "failed" THEN 5 ELSE 1

(* writeAppDBMeta, then the check of the app hash: a mismatch is an error, *)
(* an unreachable RPC is not.                                              *)
PostImport == {6, 7, 0}

Report ==
  /\ exit = -1
  /\ ImportOver
  /\ fetch = "done" \/ (fetch \in FetchErrors /\ failErr)
  /\ IF FinalErr # "none"
     THEN exit' = MapExitCode(FinalErr)
     ELSE exit' \in PostImport
  /\ UNCHANGED <<streamVars, ready, opened, failErr, fetch, cancelled, interrupted>>

Fetcher  == FetchReturns \/ \E c \in 1 .. NumChunks : ChunkReady(c)
Prefetch == PfOpen \/ PfShip \/ PfEnds \/ PfStop
Next ==
  \/ Fetcher \/ Interrupt \/ Prefetch \/ PfBreaks \/ CancelFetch \/ FailTailing \/ Report
  \/ StreamNext /\ UNCHANGED pipeVars

(* Every goroutine goes on when it can.  The download need not: RunFetch   *)
(* has no deadline of its own, so a chunk may never come, and the fetch    *)
(* returns only when its context is cancelled or when it has every chunk   *)
(* and only the check and meta.json are left.  Faults and signals need not *)
(* happen.  A worker's goroutine and the listener beside it are separate.  *)
Fairness ==
  /\ WF_vars(FetchReturns /\ (cancelled \/ Downloaded))
  /\ WF_vars(Prefetch) /\ WF_vars(CancelFetch) /\ WF_vars(FailTailing) /\ WF_vars(Report)
  /\ WF_vars((Stage1 \/ StagesEnd \/ Finalize) /\ UNCHANGED pipeVars)
  /\ \A w \in Workers :
       /\ WF_vars(SetEnd(w) /\ UNCHANGED pipeVars)
       /\ WF_vars(Work(w) /\ UNCHANGED pipeVars)

Spec == Init /\ [][Next]_vars /\ Fairness

-----------------------------------------------------------------------------
(* Properties.                                                             *)

(* The ring never drops what is still to be read (chunkring.go): the bytes *)
(* an open reader has not committed, the start of the store stage 1 will   *)
(* pin next, the extension tail.  Without wave decoding, which commits     *)
(* past the end of its store.                                              *)
NothingNeededEvicted ==
  ~wave =>
    /\ \A j \in Items : rd[j].open => rd[j].pin >= head
    /\ \A j \in Stores : j >= item /\ s1 = "scan" => StartOf(j) >= head
    /\ ExtStart \in Items => StartOf(ExtStart) >= head

LastOf(s) == Min({j \in Items : j > s /\ Is(j, {"store", "ext"})} \cup {Len(stream) + 1}) - 1

(* The import succeeds only on the whole stream: each store took its own   *)
(* items, from its StoreItem to the item before the next store or the      *)
(* extensions, however readers, listeners and boundaries raced; and the    *)
(* command exits 0 only if the fetch was complete too (parallel.go,        *)
(* pipeline.go finalize).                                                  *)
SuccessIsWhole ==
  /\ imp \in {"final", "ok"} => /\ \A s \in Stores : imported[s] = LastOf(s)
                                /\ \A j \in Items : ~Is(j, {"bad"})
  /\ exit = 0 => imp = "ok" /\ fetch = "done"

(* "Interrupted" is reported only when the user interrupted: an import     *)
(* that fails cancels the fetch, and the cancellation it caused must not   *)
(* be what the command reports (pipeline.go finalize).  The generic code 1 *)
(* means that the import failed or that the hash did not match.            *)
CauseReported ==
  /\ exit = 130 => interrupted
  /\ exit = 5 => fetch = "failed" /\ imp # "own"
  /\ exit = 1 => imp = "own" \/ fetch = "mismatch"

(* Stage 1 sleeps in Write and no reader is left to free a chunk. *)
Stranded == want > 0 /\ Room = 0 /\ \A j \in Items : ~rd[j].open

(* What ends the command: the last chunk, a fetch that failed, an import   *)
(* that failed, a signal.                                                  *)
Ending == Downloaded \/ fetch # "run" \/ imp \in {"own", "fetch"} \/ cancelled

(* Then the command ends, although the download alone might go on for      *)
(* ever: each side wakes the other up, whatever the order in which chunks  *)
(* come, stores finish and either side fails (pipeline.go); except with    *)
(* stage 1 stranded on a full ring.                                        *)
EndsUnlessStranded == Ending ~> (exit # -1 \/ Stranded)

(* The same without the exception: finalize "Always waits for the import   *)
(* goroutine to exit", and ImportParallel always returns.                  *)
ImportReturns == Ending ~> exit # -1
=============================================================================
