----------------------------- MODULE Bootstrap -----------------------------
(***************************************************************************)
(* malcom bootstrap and malcom bootstrap heal (internal/cli/bootstrap):    *)
(* commands that assemble and repair one chain home, home_<chain>_<H>,     *)
(* step by step.  A step can fail and the process can die between any two  *)
(* steps; the operator then issues another command.  The chain daemon      *)
(* (init, bootstrap-state, start) is external: bootstrap-state needs empty *)
(* databases and leaves OfflineStateSyncHeight set, the first start        *)
(* consumes it, and a start without it and without blocks panics.          *)
(***************************************************************************)
EXTENDS Integers, Sequences, FiniteSets

CONSTANTS
  Heights,     \* heights the operator can name
  AppHeight,   \* the height of the imported application.db
  MaxFaults    \* bound: steps that fail or crashes

ASSUME BootstrapConstants ==
  /\ Heights \subseteq Nat \ {0} /\ AppHeight \in Heights /\ MaxFaults \in Nat

VARIABLES
  home,      \* the height H in the home's name
  hasMeta,   \* the appdb has a meta.json with its height
  ext,       \* the appdb has extension payloads
  inPlace,   \* --appdb is the home's data directory
  src,       \* application.db is in --appdb, elsewhere
  cfg,       \* config.toml and app.toml: "none", "init", "patched"
  gen,       \* genesis.json: "none", "placeholder", "real"
  app,       \* data/application.db: "none", "empty", "part", "whole"
  wasm,      \* the extension payloads are placed
  state, signal, blocks,   \* state.db's height, OfflineStateSyncHeight, blockstore.db
  marker,    \* .malcom-bootstrap-height, 0 when there is none
  cmd,       \* the command that runs
  faults,
  wiped, halfWiped,      \* history: --overwrite removed the data, stopped in the middle
  flagOnly, flagHealed   \* history: a command, heal took its height from a flag alone

args     == <<home, hasMeta, ext, inPlace>>
confVars == <<cfg, gen>>
dataVars == <<src, app, wasm>>
cometVars == <<state, signal, blocks>>
wipes    == <<wiped, halfWiped>>
flags    == <<flagOnly, flagHealed>>
history  == <<wipes, flags>>
bootVars == <<args, confVars, dataVars, cometVars, marker, cmd, faults, history>>

Idle == [op |-> "none", at |-> "idle", h |-> 0, skip |-> FALSE, move |-> FALSE, force |-> FALSE]

Steps == {"idle", "wipe", "init", "genesis", "trust", "patch", "peers", "place", "copying", "wasm",
          "probe", "boot", "signal", "marker", "rm blockstore", "rm state", "rm evidence"}

HomeOK ==
  /\ home \in Heights /\ hasMeta \in BOOLEAN /\ ext \in BOOLEAN /\ inPlace \in BOOLEAN /\ src \in BOOLEAN
  /\ cfg \in {"none", "init", "patched"} /\ gen \in {"none", "placeholder", "real"}
  /\ app \in {"none", "empty", "part", "whole"} /\ wasm \in BOOLEAN
  /\ state \in Heights \cup {0} /\ signal \in Heights \cup {0}
  /\ blocks \in {"none", "empty", "sst", "torn"}
  /\ marker \in Heights \cup {0}

CmdOK ==
  /\ cmd \in [op : {"none", "run", "heal"}, at : Steps, h : Heights \cup {0},
             skip : BOOLEAN, move : BOOLEAN, force : BOOLEAN]
  /\ cmd.op = "none" <=> cmd = Idle

HistoryOK ==
  /\ faults \in 0 .. MaxFaults
  /\ wiped \in BOOLEAN /\ halfWiped \in BOOLEAN
  /\ flagOnly \in BOOLEAN /\ flagHealed \in BOOLEAN

BootTypeOK == HomeOK /\ CmdOK /\ HistoryOK

BootInit ==
  /\ home \in Heights /\ hasMeta \in BOOLEAN /\ ext \in BOOLEAN /\ inPlace \in BOOLEAN
  /\ src = ~inPlace /\ app = IF inPlace THEN "whole" ELSE "none"
  /\ cfg = "none" /\ gen = "none" /\ wasm = FALSE
  /\ state = 0 /\ signal = 0 /\ blocks = "none" /\ marker = 0
  /\ cmd = Idle /\ faults = 0
  /\ wiped = FALSE /\ halfWiped = FALSE /\ flagOnly = FALSE /\ flagHealed = FALSE

At(op, step) == cmd.op = op /\ cmd.at = step
Goto(step)   == cmd' = [cmd EXCEPT !.at = step]

End == cmd' = Idle

------------------------------------------------------------------------------
(* malcom bootstrap.                                                       *)

(* The height: meta.json's, which a flag may repeat but not contradict; 0  *)
(* is a refusal.                                                           *)
ResolveHeight(flag) ==
  IF hasMeta THEN IF flag \in {0, AppHeight} THEN AppHeight ELSE 0
  ELSE flag

(* A command on this home is one whose height is the home's.               *)
RunBootstrap(flag, skip, over, move) ==
  /\ cmd = Idle /\ ~(skip /\ over)
  /\ ResolveHeight(flag) = home
  /\ cmd' = [op |-> "run", at |-> IF over THEN "wipe" ELSE "init", h |-> home,
             skip |-> skip, move |-> move, force |-> FALSE]
  /\ flagOnly' = (flagOnly \/ ~hasMeta)
  /\ UNCHANGED <<args, confVars, dataVars, cometVars, marker, faults, wipes, flagHealed>>

(* os.RemoveAll(outRoot): the entries of the home in any order.            *)
WipeConfig ==
  /\ At("run", "wipe") /\ cfg # "none"
  /\ cfg' = "none" /\ gen' = "none" /\ halfWiped' = TRUE
  /\ UNCHANGED <<args, dataVars, cometVars, marker, cmd, faults, wiped, flags>>

(* An appdb that is the home's data directory goes with it, its meta.json  *)
(* and its extensions too.                                                 *)
WipeData ==
  /\ At("run", "wipe") /\ (app # "none" \/ state # 0 \/ blocks # "none")
  /\ app' = "none" /\ state' = 0 /\ signal' = 0 /\ blocks' = "none"
  /\ hasMeta' = (hasMeta /\ ~inPlace) /\ ext' = (ext /\ ~inPlace)
  /\ wiped' = TRUE /\ halfWiped' = TRUE
  /\ UNCHANGED <<home, inPlace, confVars, src, wasm, marker, cmd, faults, flags>>

WipeRest ==
  /\ At("run", "wipe") /\ (wasm \/ marker # 0)
  /\ \/ wasm /\ wasm' = FALSE /\ UNCHANGED marker
     \/ marker # 0 /\ marker' = 0 /\ UNCHANGED wasm
  /\ halfWiped' = TRUE
  /\ UNCHANGED <<args, confVars, src, app, cometVars, cmd, faults, wiped, flags>>

Wiped ==
  /\ At("run", "wipe")
  /\ cfg = "none" /\ app = "none" /\ state = 0 /\ blocks = "none" /\ ~wasm /\ marker = 0
  /\ Goto("init") /\ halfWiped' = FALSE
  /\ UNCHANGED <<args, confVars, dataVars, cometVars, marker, faults, wiped, flags>>

(* Step 1: the daemon's init, or --skip-init.                              *)
DaemonInit ==
  /\ At("run", "init")
  /\ IF cmd.skip
     THEN UNCHANGED confVars /\ (IF cfg = "none" THEN End ELSE Goto("genesis"))
     ELSE IF cfg # "none" THEN End /\ UNCHANGED confVars
     ELSE Goto("genesis") /\ cfg' = "init" /\ gen' = "placeholder"
  /\ UNCHANGED <<args, dataVars, cometVars, marker, faults, history>>

(* Step 2: overlayGenesis; without a source the placeholder stays.         *)
OverlayGenesis ==
  /\ At("run", "genesis") /\ Goto("trust")
  /\ gen' \in {gen, "real"}
  /\ UNCHANGED <<args, cfg, dataVars, cometVars, marker, faults, history>>

(* Steps 3 to 6: the trust hash, the patches, the peers and the addrbook.  *)
FetchTrust ==
  /\ At("run", "trust") /\ Goto("patch")
  /\ UNCHANGED <<args, confVars, dataVars, cometVars, marker, faults, history>>

PatchTOML ==
  /\ At("run", "patch") /\ Goto("peers") /\ cfg' = "patched"
  /\ UNCHANGED <<args, gen, dataVars, cometVars, marker, faults, history>>

ForwardPeers ==
  /\ At("run", "peers") /\ Goto("place")
  /\ UNCHANGED <<args, confVars, dataVars, cometVars, marker, faults, history>>

(* Mutant: whatever is at the destination counts as placed.                *)
AlreadyThere == app # "none"

(* Step 7: placeAppDB.                                                     *)
SameOnDisk == inPlace /\ app # "none"
PlaceRefuses == ~SameOnDisk /\ app # "none"

(* Mutant: the move deletes the source before the destination is there.    *)
MoveInSteps == src' = FALSE /\ app' = "part" /\ Goto("copying")

(* durable.Rename, which needs its source.                                 *)
MoveApp ==
  IF src THEN src' = FALSE /\ app' = "whole" /\ Goto("wasm")
  ELSE End /\ UNCHANGED <<src, app>>

(* durable.CloneTree makes the destination, then walks the source and      *)
(* copies file by file.  Where the source is the destination, a directory  *)
(* that was wiped, it finds what it has just made: an empty tree, and no   *)
(* error.  Any other missing source fails the walk.                        *)
CopyApp ==
  /\ IF src THEN app' = "part" /\ Goto("copying")
     ELSE app' = "empty" /\ (IF inPlace THEN Goto("wasm") ELSE End)
  /\ UNCHANGED src

PlaceAppDB ==
  /\ At("run", "place")
  /\ IF SameOnDisk THEN Goto("wasm") /\ UNCHANGED <<src, app>>
     ELSE IF PlaceRefuses THEN End /\ UNCHANGED <<src, app>>
     ELSE IF cmd.move THEN MoveApp
     ELSE CopyApp
  /\ UNCHANGED <<args, confVars, wasm, cometVars, marker, faults, history>>

CopyDone ==
  /\ At("run", "copying") /\ Goto("wasm") /\ app' = "whole"
  /\ UNCHANGED <<args, confVars, src, wasm, cometVars, marker, faults, history>>

(* Step 8: skipped when the appdb has no extensions directory.             *)
PlaceWasmPayloads ==
  /\ At("run", "wasm") /\ Goto("probe") /\ wasm' = (wasm \/ ext)
  /\ UNCHANGED <<args, confVars, src, app, cometVars, marker, faults, history>>

------------------------------------------------------------------------------
(* Shared by both commands: step 9, probe and bootstrap-state, and the     *)
(* marker, whose write is best effort.                                     *)

Probe ==
  /\ At("run", "probe") /\ Goto("boot")
  /\ UNCHANGED <<args, confVars, dataVars, cometVars, marker, faults, history>>

(* The daemon refuses databases that are not empty, and reads the patched  *)
(* [statesync] section.                                                    *)
BootstrapState ==
  /\ cmd.at = "boot"
  /\ IF state # 0 \/ blocks \notin {"none", "empty"} \/ cfg # "patched"
     THEN End /\ UNCHANGED state
     ELSE Goto("signal") /\ state' = cmd.h
  /\ UNCHANGED <<args, confVars, dataVars, signal, blocks, marker, faults, history>>

SetOfflineHeight ==
  /\ cmd.at = "signal" /\ Goto("marker") /\ signal' = cmd.h
  /\ UNCHANGED <<args, confVars, dataVars, state, blocks, marker, faults, history>>

WriteHeightMarker ==
  /\ cmd.at = "marker" /\ End
  /\ \/ marker' = cmd.h /\ UNCHANGED faults
     \/ faults < MaxFaults /\ faults' = faults + 1 /\ UNCHANGED marker
  /\ UNCHANGED <<args, confVars, dataVars, cometVars, history>>

------------------------------------------------------------------------------
(* malcom bootstrap heal --yes.                                            *)

(* Mutant: the flag wins over the marker.                                  *)
ResolveHealFlag(flag) == IF flag # 0 THEN flag ELSE marker

(* resolveHealHeight: a flag must not contradict the marker; 0 refuses.    *)
ResolveHealHeight(flag) ==
  IF marker # 0 THEN IF flag \in {0, marker} THEN marker ELSE 0
  ELSE flag

(* Mutant: a populated blockstore is not looked for.                       *)
LooksEmpty == FALSE

(* blockstoreLooksPopulated: some .sst file is left.                       *)
LooksPopulated == blocks \in {"sst", "torn"}

(* The checks come before anything is removed; without --yes it ends here. *)
RunHeal(flag, force) ==
  /\ cmd = Idle /\ gen # "none"
  /\ ResolveHealHeight(flag) # 0
  /\ LooksPopulated => force
  /\ cmd' = [Idle EXCEPT !.op = "heal", !.at = "rm blockstore", !.h = ResolveHealHeight(flag), !.force = force]
  /\ flagOnly' = (flagOnly \/ marker = 0) /\ flagHealed' = (flagHealed \/ marker = 0)
  /\ UNCHANGED <<args, confVars, dataVars, cometVars, marker, faults, wipes>>

(* RemoveAll of the three databases, in this order; a directory with files *)
(* can be left half removed.                                               *)
RemoveBlockstore ==
  /\ At("heal", "rm blockstore")
  /\ \/ blocks' = "none" /\ Goto("rm state")
     \/ blocks = "sst" /\ blocks' = "torn" /\ UNCHANGED cmd
  /\ UNCHANGED <<args, confVars, dataVars, state, signal, marker, faults, history>>

(* Mutant: state.db is not among the victims.                              *)
StateStays == UNCHANGED <<state, signal>>

StateRemoved == state' = 0 /\ signal' = 0

RemoveState ==
  /\ At("heal", "rm state") /\ Goto("rm evidence") /\ StateRemoved
  /\ UNCHANGED <<args, confVars, dataVars, blocks, marker, faults, history>>

RemoveEvidence ==
  /\ At("heal", "rm evidence") /\ Goto("boot")
  /\ UNCHANGED <<args, confVars, dataVars, cometVars, marker, faults, history>>

------------------------------------------------------------------------------
(* A step fails, or the process dies: either way the command is over and   *)
(* the home stays as it is.                                                *)
Stop ==
  /\ cmd # Idle /\ faults < MaxFaults
  /\ End /\ faults' = faults + 1
  /\ UNCHANGED <<args, confVars, dataVars, cometVars, marker, history>>

(* External: the daemon's start, while no command runs.  The signal is     *)
(* consumed before any block lands.                                        *)
StartDaemon ==
  /\ cmd = Idle /\ state # 0 /\ signal = state /\ app = "whole"
  /\ signal' = 0 /\ blocks' \in {"empty", "sst"}
  /\ UNCHANGED <<args, confVars, dataVars, state, marker, cmd, faults, history>>

RunStep == \/ WipeConfig \/ WipeData \/ WipeRest \/ Wiped \/ DaemonInit \/ OverlayGenesis \/ FetchTrust
           \/ PatchTOML \/ ForwardPeers \/ PlaceAppDB \/ CopyDone \/ PlaceWasmPayloads \/ Probe

SharedStep == BootstrapState \/ SetOfflineHeight \/ WriteHeightMarker

HealStep == RemoveBlockstore \/ RemoveState \/ RemoveEvidence

Step == RunStep \/ SharedStep \/ HealStep

Operator ==
  \/ \E flag \in Heights \cup {0}, skip, over, move \in BOOLEAN : RunBootstrap(flag, skip, over, move)
  \/ \E flag \in Heights \cup {0}, force \in BOOLEAN : RunHeal(flag, force)

BootNext == Step \/ Operator \/ Stop \/ StartDaemon

(* A command runs on; an operator whose home does not start heals it.      *)
BootSpec == BootInit /\ [][BootNext]_bootVars /\ WF_bootVars(Step) /\ SF_bootVars(RunHeal(0, TRUE))

------------------------------------------------------------------------------
(* The marker stands for a home that is complete: every piece bootstrap    *)
(* places is there, whatever commands stopped where in between, unless a   *)
(* wipe was broken off (run.go:258), heal took its height from the flag    *)
(* alone (heal.go:59), or --overwrite wiped an appdb that is the home's    *)
(* own data directory, where the copy of nothing succeeds (place.go:83).   *)
MarkerMeansWhole ==
  marker # 0 /\ ~halfWiped /\ ~flagHealed /\ ~(inPlace /\ wiped) =>
    app = "whole" /\ (ext => wasm) /\ cfg = "patched" /\ gen # "none"

(* No failure or crash loses the imported database, hours of work: as long *)
(* as nothing was wiped there is a whole copy, in --appdb or in the home.  *)
AppDBKept == src \/ app = "whole" \/ wiped

(* The height in state.db and in the marker is the height of the           *)
(* application.db, unless a flag was ever the only source: no later flag   *)
(* overrides what is recorded.                                             *)
HeightsAgree == flagOnly \/ {state, signal, marker} \subseteq {0, AppHeight}

(* Synced blocks go only with --force or --overwrite, however often heal   *)
(* was broken off and run again.                                           *)
SyncedBlocksKept ==
  [][blocks = "sst" /\ blocks' # "sst" => cmd.force \/ At("run", "wipe")]_bootVars

(* The daemon can start: it has its application.db, and the signal or      *)
(* blocks.                                                                 *)
Startable == app = "whole" /\ state # 0 /\ (signal = state \/ blocks = "sst")

(* A home that carries its marker and a whole application.db can be        *)
(* brought back by heal alone, from every state a failed start or a        *)
(* broken-off command leaves it in: the three databases heal remakes are   *)
(* all that such a home can lack.                                          *)
HealRecovers == marker # 0 /\ app = "whole" ~> (Startable \/ halfWiped \/ marker = 0)
=============================================================================
