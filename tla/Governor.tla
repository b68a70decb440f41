------------------------------ MODULE Governor ------------------------------
(***************************************************************************)
(* GamePowerGovernor: the loop that turns the controller's decisions into  *)
(* writes - CPU policies, the GPU frequency envelope, the soft-PL1         *)
(* overlay, two gated cgroup lanes and a frame cap - and takes them back:  *)
(* on a RESTORE, when a boost ends, when the context or the configuration  *)
(* changes, when a write fails, and when the service stops.                *)
(*                                                                         *)
(* The controller's decision, the boost trigger and the context are inputs *)
(* of a tick.  A tick makes many fallible writes in one go, so it is a     *)
(* composition of operators on one record g that holds the governor's      *)
(* fields beside the knobs they are about; F is the set of knobs that      *)
(* refuse to be written in this tick.                                      *)
(***************************************************************************)
EXTENDS Integers, FiniteSets

CONSTANTS
  Games,         (* appids, each with a cgroup while it runs               *)
  Modes,         (* the modes a control file selects                       *)
  Personas,      (* the personas the power source or the user selects      *)
  Intents,       (* actuations of the target-balance controller            *)
  Frames,        (* what a sample says of frames: target and input idleness *)
  Proposals,     (* frame caps the Auto estimator proposes                 *)
  IdleFps,       (* the idle frame cap, snapped to the panel rate          *)
  LaneSets,      (* gated lanes the verdicts may unlock together           *)
  FailureSets,   (* knobs that may fail together in one tick               *)
  MaxBroken      (* bound on the knobs that ever fail in a behaviour       *)

AllModes == {"off", "observe", "gpu-priority", "target-balance"}
AllPersonas == {"battery", "ac-quiet", "ac-performance"}
CapPersonas == {"battery", "ac-quiet"}

None == "none"       (* Python's None for snapshots, games and intents     *)
NoWatts == 0
NoFps == 0
Baseline == "base"   (* a knob as it was found                             *)
Mixed == "mixed"     (* a knob some of whose files were not written        *)

FailPoints == {"cpu-apply", "cpu-restore", "gpu-apply", "gpu-restore",
               "soft", "floor", "shape", "cap"}

CpuWishes == {None, "capped", "perf"}
GpuWishes == {None, "capped", "floored"}
FrameTargets == [fps : Nat, manual : BOOLEAN]
NoTarget == [fps |-> NoFps, manual |-> FALSE]

ASSUME GovernorAssumption ==
  /\ None \notin Games
  /\ "off" \in Modes /\ Modes \subseteq AllModes /\ Personas \subseteq AllPersonas
  /\ Intents \subseteq [cpu : CpuWishes, gpu : GpuWishes, soft : Nat]
  /\ Frames \subseteq [target : FrameTargets, idle : BOOLEAN]
  /\ Proposals \subseteq Nat \ {NoFps} /\ IdleFps \in Nat \ {NoFps}
  /\ LaneSets \subseteq SUBSET {"floor", "shape"}
  /\ FailureSets \subseteq SUBSET FailPoints
  /\ MaxBroken \in Nat

VARIABLES
  g,        (* the governor's fields and the knobs                         *)
  pc,       (* "idle" between ticks, "sampling" inside one, "closed"       *)
  running,  (* the games whose cgroups exist                               *)
  broken    (* the knobs that have failed so far: history                  *)

vars == <<g, pc, running, broken>>

NoIntent == [cpu |-> None, gpu |-> None, soft |-> NoWatts, neutral |-> TRUE]
Wish(i) == [cpu |-> i.cpu, gpu |-> i.gpu, soft |-> i.soft, neutral |-> FALSE]

NoKey == [game |-> None, pl1 |-> NoWatts, fps |-> NoFps]

Init ==
  /\ \E m \in Modes, p \in Personas :
       g = [mode |-> m, persona |-> p,
            cpu |-> Baseline, gpu |-> Baseline, soft |-> NoWatts,
            floor |-> {}, shaped |-> FALSE, cap |-> NoFps,
            cpuSnap |-> None, applied |-> NoIntent,
            gpuSnap |-> None, caps |-> None, gpuLatched |-> FALSE,
            softApplied |-> NoWatts,
            fg |-> None, bg |-> FALSE, floorFailed |-> FALSE, shapeFailed |-> FALSE,
            latched |-> FALSE, boost |-> FALSE, sampled |-> FALSE,
            key |-> NoKey, session |-> FALSE, proposal |-> NoFps]
  /\ pc = "idle" /\ running = {} /\ broken = {}

----------------------------------------------------------------------------
(* Taking writes back.                                                     *)

(* _clear_frame_cap                                                        *)
ClearCap(s, F) == IF "cap" \in F THEN s ELSE [s EXCEPT !.cap = NoFps]

(* A readback-verified restore: it fails only on files that differ.        *)
CpuBack(s, F) ==
  IF "cpu-restore" \in F /\ s.cpu # s.cpuSnap
  THEN [s EXCEPT !.cpu = Mixed, !.latched = TRUE]
  ELSE [s EXCEPT !.cpu = s.cpuSnap]

GpuBack(s, F) ==
  IF "gpu-restore" \in F /\ s.gpu # s.gpuSnap
  THEN [s EXCEPT !.gpu = Mixed, !.latched = TRUE]
  ELSE [s EXCEPT !.gpu = s.gpuSnap]

(* _restore_gpu_only                                                       *)
RestoreGpu(s, F) ==
  IF s.gpuSnap = None THEN s
  ELSE [GpuBack(s, F) EXCEPT !.gpuSnap = None, !.caps = None]

(* A failed clear leaves PL1 reduced, and is not tried again.              *)
ClearSoft(s, F) ==
  IF s.softApplied = NoWatts THEN s
  ELSE IF "soft" \in F THEN [s EXCEPT !.softApplied = NoWatts, !.latched = TRUE]
  ELSE [s EXCEPT !.softApplied = NoWatts, !.soft = NoWatts]

RestoreCpu(s, F) ==
  IF s.cpuSnap = None THEN s
  ELSE [CpuBack(s, F) EXCEPT !.cpuSnap = None, !.applied = NoIntent]

(* restore(): the frame cap, the GPU and soft PL1, then the CPU.           *)
Restore(s, F) == RestoreCpu(ClearSoft(RestoreGpu(ClearCap(s, F), F), F), F)

(* ForegroundUclampMinWriter.restore: the file is gone with its cgroup,    *)
(* then nothing can be verified and the lane fails.                        *)
RestoreFloor(s, F) ==
  IF s.fg = None THEN s
  ELSE IF "floor" \in F \/ s.fg \notin running THEN [s EXCEPT !.floorFailed = TRUE]
  ELSE [s EXCEPT !.floor = @ \ {s.fg}, !.fg = None]

RestoreShape(s, F) ==
  IF ~ s.bg THEN s
  ELSE IF "shape" \in F THEN [s EXCEPT !.shapeFailed = TRUE]
  ELSE [s EXCEPT !.bg = FALSE, !.shaped = FALSE]

(* _restore_gated_lanes                                                    *)
RestoreLanes(s, F) == RestoreShape(RestoreFloor(s, F), F)

(* _DaemonCgroupWriter.reset: what could not be restored is forgotten.     *)
ResetWriter(s, F) ==
  [RestoreLanes(s, F) EXCEPT !.fg = None, !.bg = FALSE,
                             !.floorFailed = FALSE, !.shapeFailed = FALSE]

(* "restoring and disabling writes"                                        *)
RestoreAndLatch(s, F) == [Restore(s, F) EXCEPT !.latched = TRUE]

(* _close_current_session                                                  *)
CloseSession(s, F) ==
  [ (IF s.session /\ s.cpuSnap # None THEN Restore(s, F) ELSE s)
    EXCEPT !.session = FALSE, !.key = NoKey]

----------------------------------------------------------------------------
(* Applying a target-balance decision.                                     *)

CpuWritten(s, F, wish) ==
  IF wish = None THEN s
  ELSE IF "cpu-apply" \in F THEN [s EXCEPT !.cpu = Mixed]
  ELSE [s EXCEPT !.cpu = IF s.cpu = Baseline THEN wish ELSE Mixed]

(* Mutant: a snapshot is taken for every actuation.                        *)
CpuPreparedAlwaysSnaps(s, F) == [s EXCEPT !.cpuSnap = s.cpu]

(* Snapshot the first time, and go back to it before every other write.    *)
CpuPrepared(s, F) ==
  IF s.cpuSnap = None THEN [s EXCEPT !.cpuSnap = s.cpu]
  ELSE IF s.applied # NoIntent THEN CpuBack(s, F)
  ELSE s

(* _apply_cpu_intent; a neutral intent keeps the snapshot.                 *)
ApplyCpu(s, F, intent) ==
  IF intent = NoIntent
  THEN IF s.cpuSnap # None /\ s.applied # NoIntent
       THEN [CpuBack(s, F) EXCEPT !.applied = NoIntent]
       ELSE s
  ELSE IF intent = s.applied /\ s.cpuSnap # None THEN s
  ELSE LET prepared == CpuPrepared(s, F)
           written  == CpuWritten(prepared, F, intent.cpu)
       IN  IF prepared.latched \/ written.cpu = Mixed
           THEN RestoreLanes(RestoreAndLatch(written, F), F)
           ELSE [written EXCEPT !.applied = intent]

(* The envelope goes back to its snapshot first; whether it did is not     *)
(* asked here.                                                             *)
GpuPrepared(s, F) ==
  IF s.gpuSnap = None THEN [s EXCEPT !.gpuSnap = s.gpu]
  ELSE [GpuBack(s, F) EXCEPT !.latched = s.latched]

(* GpuFreqActuator.apply: once failed, it never writes again.              *)
GpuWritten(s, F, wish) ==
  IF s.gpuLatched THEN s
  ELSE IF "gpu-apply" \in F THEN [s EXCEPT !.gpu = Mixed, !.gpuLatched = TRUE]
  ELSE [s EXCEPT !.gpu = IF s.gpu = Baseline THEN wish ELSE Mixed]

ApplyGpu(s, F, wish) ==
  IF wish = None THEN RestoreGpu(s, F)
  ELSE IF wish = s.caps THEN s
  ELSE LET written == GpuWritten(GpuPrepared(s, F), F, wish)
       IN  IF written.gpuLatched
           THEN RestoreAndLatch(written, F)
           ELSE [written EXCEPT !.caps = wish]

ApplySoft(s, F, watts) ==
  IF watts = s.softApplied THEN s
  ELSE IF "soft" \in F THEN RestoreAndLatch(s, F)
  ELSE [s EXCEPT !.soft = watts, !.softApplied = watts]

(* _apply_gpu_pl1_intent                                                   *)
ApplyGpuAndSoft(s, F, intent) ==
  LET gpuDone == ApplyGpu(s, F, intent.gpu)
  IN  IF gpuDone.latched THEN gpuDone ELSE ApplySoft(gpuDone, F, intent.soft)

(* ForegroundUclampMinWriter.apply, once failed never again; a lane nobody *)
(* asks for is restored.                                                   *)
ApplyFloor(s, F, game) ==
  LET freed == RestoreFloor(s, F)
  IN  IF game = None THEN freed
      ELSE IF s.floorFailed \/ game = s.fg THEN s
      ELSE IF freed.floorFailed \/ "floor" \in F \/ game \notin running
      THEN [freed EXCEPT !.floorFailed = TRUE]
      ELSE [freed EXCEPT !.floor = @ \union {game}, !.fg = game]

ShapeRefused(s, F, wanted) == wanted /\ ~ s.bg /\ "shape" \in F

ApplyShape(s, F, wanted) ==
  IF ~ wanted THEN RestoreShape(s, F)
  ELSE IF ShapeRefused(s, F, wanted) THEN [s EXCEPT !.shapeFailed = TRUE]
  ELSE [s EXCEPT !.bg = TRUE, !.shaped = TRUE]

(* _apply_gated_lane_writes: a refused apply restores everything; a lane   *)
(* that could not be restored only latches.                                *)
ApplyLanes(s, F, lanes, game) ==
  LET floorGame == IF "floor" \in lanes THEN game ELSE None
      shape     == "shape" \in lanes /\ game # None
      floored   == ApplyFloor(s, F, floorGame)
      shaped    == ApplyShape(floored, F, shape)
  IN  IF floorGame # None /\ floored.floorFailed
      THEN RestoreAndLatch(RestoreLanes(floored, F), F)
      ELSE IF ShapeRefused(floored, F, shape)
      THEN RestoreAndLatch(RestoreLanes(shaped, F), F)
      ELSE [shaped EXCEPT !.latched = shaped.floorFailed \/ shaped.shapeFailed]

(* Mutant: the latch does not stop the next decision.                      *)
ApplyTargetBalanceUnlatched(s, F, intent, lanes, game) ==
  ApplyLanes(ApplyGpuAndSoft(ApplyCpu(s, F, intent), F, intent), F, lanes, game)

(* _apply_decision_target_balance                                          *)
ApplyTargetBalance(s, F, intent, lanes, game) ==
  LET cpuDone == ApplyCpu(s, F, intent)
      gpuDone == ApplyGpuAndSoft(cpuDone, F, intent)
  IN  IF s.latched THEN s
      ELSE IF cpuDone.latched THEN cpuDone
      ELSE IF gpuDone.latched THEN gpuDone
      ELSE ApplyLanes(gpuDone, F, lanes, game)

----------------------------------------------------------------------------
(* The other modes.                                                        *)

(* GPU_PRIORITY_EPP writes no frequency, so caps applied before it stay.   *)
PriorityWrite(s, F, action) ==
  LET snapped == IF s.cpuSnap = None THEN [s EXCEPT !.cpuSnap = s.cpu] ELSE s
  IN  IF "cpu-apply" \in F
      THEN RestoreAndLatch([snapped EXCEPT !.cpu = Mixed], F)
      ELSE [snapped EXCEPT !.cpu =
              IF s.cpu = Mixed THEN Mixed
              ELSE IF action = "cap" \/ s.cpu = "capped" THEN "capped" ELSE "epp"]

(* _apply_decision outside target-balance.                                 *)
ApplyOther(s, F, action) ==
  LET clean == IF s.applied # NoIntent \/ s.gpuSnap # None \/ s.softApplied # NoWatts
               THEN Restore(s, F) ELSE s
  IN  IF clean.latched \/ action = "idle" THEN clean
      ELSE IF action = "restore" THEN Restore(clean, F)
      ELSE PriorityWrite(clean, F, action)

----------------------------------------------------------------------------
(* The frame cap, decided on every tick that publishes a snapshot.         *)

WriteCap(s, F, fps) ==
  IF fps = s.cap \/ "cap" \in F THEN s ELSE [s EXCEPT !.cap = fps]

(* _maybe_apply_frame_cap                                                  *)
FrameCap(s, F, frame) ==
  LET current == frame.target.fps
      below(fps) == current = NoFps \/ fps < current
  IN  IF s.persona \notin CapPersonas \/ frame.target.manual THEN ClearCap(s, F)
      ELSE IF frame.idle /\ current # NoFps /\ below(IdleFps) THEN WriteCap(s, F, IdleFps)
      ELSE IF s.proposal = NoFps
           THEN IF frame.idle THEN s ELSE ClearCap(s, F)
      ELSE IF below(s.proposal) THEN WriteCap(s, F, s.proposal)
      ELSE s

(* _observe_auto_target: the last proposal is kept for good.               *)
Publish(s, F, frame, proposal) ==
  FrameCap(IF proposal = NoFps THEN s ELSE [s EXCEPT !.proposal = proposal], F, frame)

----------------------------------------------------------------------------
(* The actions.                                                            *)

MayFail(F) == Cardinality(broken \union F) <= MaxBroken

Fails(F) == MayFail(F) /\ broken' = broken \union F

(* Mutant: a new configuration leaves the old one's writes alone.          *)
RefreshOnlySwaps(s, F, mode, persona) ==
  IF mode = s.mode /\ persona = s.persona THEN s
  ELSE [s EXCEPT !.mode = mode, !.persona = persona, !.boost = FALSE,
                 !.latched = FALSE]

(* _refresh_config: everything applied under the old configuration goes,   *)
(* and so does the latch.                                                  *)
Refresh(s, F, mode, persona) ==
  LET freed == RestoreLanes(CloseSession(s, F), F)
      clean == IF \/ s.mode = "target-balance" \/ freed.applied # NoIntent
                  \/ freed.gpuSnap # None \/ freed.softApplied # NoWatts
               THEN Restore(freed, F) ELSE freed
  IN  IF mode = s.mode /\ persona = s.persona THEN s
      ELSE [ResetWriter(clean, F) EXCEPT !.mode = mode, !.persona = persona,
              !.boost = FALSE, !.latched = FALSE]

(* run_once in mode OFF: restore, and publish without a sample.            *)
OffTick(persona, proposal, F) ==
  LET fresh == Refresh(g, F, "off", persona)
  IN  /\ pc = "idle"
      /\ Fails(F)
      /\ g' = Publish(Restore(CloseSession(fresh, F), F), F,
                      [target |-> NoTarget, idle |-> FALSE], proposal)
      /\ UNCHANGED <<pc, running>>

(* The first half of run_once, up to the sampling it awaits.               *)
BeginTick(mode, persona, F) ==
  /\ pc = "idle"
  /\ Fails(F)
  /\ g' = Refresh(g, F, mode, persona)
  /\ pc' = "sampling"
  /\ UNCHANGED running

(* Mutant: lanes survive a change of game.                                 *)
PrepareContextKeepsLanes(s, F, game, fps) ==
  LET key == IF game = None THEN NoKey ELSE [game |-> game, pl1 |-> s.soft, fps |-> fps]
  IN  IF key = s.key THEN s
      ELSE [CloseSession(s, F) EXCEPT !.key = key, !.session = (key # NoKey)]

(* _prepare_context.  The key holds the PL1 that RAPL reads, so an overlay *)
(* of our own is a change of context too.                                  *)
PrepareContext(s, F, game, fps) ==
  LET key == IF game = None THEN NoKey ELSE [game |-> game, pl1 |-> s.soft, fps |-> fps]
  IN  IF key = s.key THEN s
      ELSE [RestoreLanes(CloseSession(s, F), F)
            EXCEPT !.key = key, !.session = (key # NoKey)]

BoostIntent == Wish([cpu |-> "perf", gpu |-> "floored", soft |-> NoWatts])

(* Mutant: a boost keeps the caps of the decision it overlays.             *)
BoostedKeepsCaps(intent, active) ==
  IF active THEN [BoostIntent EXCEPT !.gpu = intent.gpu] ELSE intent

(* _maybe_apply_boost replaces the decision's actuation.                   *)
Boosted(intent, active) == IF active THEN BoostIntent ELSE intent

(* The second half: one sample, decided on, applied and published.         *)
EndTick(game, frame, intent, active, action, lanes, proposal, F) ==
  LET ready == [PrepareContext(g, F, game, frame.target.fps) EXCEPT !.sampled = TRUE]
      done  == IF g.mode = "target-balance"
               THEN ApplyTargetBalance([ready EXCEPT !.boost = active], F,
                                       Boosted(intent, active), lanes, game)
               ELSE ApplyOther(ready, F, action)
  IN  /\ Fails(F)
      /\ g' = Publish(done, F, frame, proposal)
      /\ pc' = "idle"
      /\ UNCHANGED running

(* What the controller may decide: nothing without a game, no lane outside *)
(* target-balance, and only OBSERVE_ONLY or IDLE in mode OBSERVE.          *)
Decisions(game) ==
  IF g.mode # "target-balance"
  THEN [intent : {NoIntent}, lanes : {{}},
        action : IF g.mode = "observe" THEN {"idle"}
                 ELSE IF game = None THEN {"idle", "restore"}
                 ELSE {"idle", "restore", "epp", "cap"}]
  ELSE IF game = None THEN [intent : {NoIntent}, lanes : {{}}, action : {"idle"}]
  ELSE [intent : {Wish(i) : i \in Intents} \union {NoIntent},
        lanes : LaneSets, action : {"idle"}]

SampleAndApply(F) ==
  /\ pc = "sampling" /\ MayFail(F)
  /\ \E game \in running \union {None}, frame \in Frames, active \in BOOLEAN,
        proposal \in Proposals \union {NoFps} :
       \E d \in Decisions(game) :
         EndTick(game, frame, d.intent, active, d.action, d.lanes, proposal, F)

(* _fast_lane_tick: a boost starts between two slow ticks.                 *)
FastBoost(F) ==
  LET cpuDone == ApplyCpu([g EXCEPT !.boost = TRUE], F, BoostIntent)
  IN  /\ pc = "idle" /\ g.mode = "target-balance" /\ g.sampled
      /\ ~ g.boost
      /\ Fails(F)
      /\ g' = IF g.latched THEN [g EXCEPT !.boost = TRUE]
              ELSE IF cpuDone.latched THEN cpuDone
              ELSE ApplyGpuAndSoft(cpuDone, F, BoostIntent)
      /\ UNCHANGED <<pc, running>>

(* ... and ends: everything is restored until the next slow tick.          *)
FastBoostEnds(F) ==
  /\ pc = "idle" /\ g.mode = "target-balance" /\ g.sampled
  /\ g.boost
  /\ Fails(F)
  /\ g' = Restore([g EXCEPT !.boost = FALSE], F)
  /\ UNCHANGED <<pc, running>>

(* close(): the task is cancelled where it awaits.                         *)
Close(F) ==
  /\ pc \in {"idle", "sampling"}
  /\ Fails(F)
  /\ g' = Restore(RestoreLanes(CloseSession(g, F), F), F)
  /\ pc' = "closed"
  /\ UNCHANGED running

(* A slider write reaches the backend, not the governor: PL1 is whole      *)
(* again and the governor believes its overlay is applied.                 *)
SliderWrite ==
  /\ pc # "closed"
  /\ g.soft # NoWatts
  /\ g' = [g EXCEPT !.soft = NoWatts]
  /\ UNCHANGED <<pc, running, broken>>

GameStarts(game) ==
  /\ game \notin running
  /\ running' = running \union {game}
  /\ UNCHANGED <<g, pc, broken>>

(* The cgroup goes, and its floor with it.                                 *)
GameExits(game) ==
  /\ game \in running
  /\ running' = running \ {game}
  /\ g' = [g EXCEPT !.floor = @ \ {game}]
  /\ UNCHANGED <<pc, broken>>

Next ==
  \/ \E F \in FailureSets \union {{}} :
       \/ \E persona \in Personas, proposal \in Proposals \union {NoFps} :
            OffTick(persona, proposal, F)
       \/ \E mode \in Modes \ {"off"}, persona \in Personas : BeginTick(mode, persona, F)
       \/ SampleAndApply(F)
       \/ FastBoost(F) \/ FastBoostEnds(F)
       \/ Close(F)
  \/ SliderWrite
  \/ \E game \in Games : GameStarts(game) \/ GameExits(game)

Spec == Init /\ [][Next]_vars

----------------------------------------------------------------------------
(* Properties.                                                             *)

(* The governor's fields and the knobs stay in their ranges: no knob is    *)
(* ever in a state that neither a write nor a restore of ours gives it.    *)
TypeOK ==
  /\ g.mode \in Modes /\ g.persona \in Personas
  /\ g.cpu \in {Baseline, Mixed, "capped", "perf", "epp"}
  /\ g.gpu \in {Baseline, Mixed, "capped", "floored"}
  /\ g.soft \in Nat /\ g.softApplied \in Nat
  /\ g.floor \subseteq running /\ running \subseteq Games
  /\ g.cap \in Proposals \union {IdleFps, NoFps}
  /\ g.cpuSnap \in {None, Baseline, Mixed} /\ g.gpuSnap \in {None, Baseline, Mixed}
  /\ g.applied \in {NoIntent, BoostIntent} \union {Wish(i) : i \in Intents}
  /\ g.caps \in GpuWishes /\ g.fg \in Games \union {None}
  /\ {g.shaped, g.bg, g.gpuLatched, g.floorFailed, g.shapeFailed, g.latched,
       g.boost, g.sampled, g.session} \subseteq BOOLEAN
  /\ g.key.game \in Games \union {None} /\ (g.session <=> g.key # NoKey)
  /\ g.proposal \in Proposals \union {NoFps}
  /\ pc \in {"idle", "sampling", "closed"}
  /\ broken \subseteq FailPoints

(* What is restored is what was found, never a reduction of our own: as    *)
(* long as restores succeed, no snapshot is taken of a knob that still     *)
(* carries a cap, whatever order decisions, boosts and modes come in.      *)
SnapshotIsBaseline ==
  /\ "cpu-restore" \notin broken => g.cpuSnap \in {None, Baseline}
  /\ "gpu-restore" \notin broken => g.gpuSnap \in {None, Baseline}

(* Every knob that can still be restored is as it was found.               *)
KnobsAtBaseline ==
  /\ "cpu-restore" \notin broken => g.cpu = Baseline
  /\ "gpu-restore" \notin broken => g.gpu = Baseline
  /\ "soft" \notin broken => g.soft = NoWatts
  /\ "floor" \notin broken => g.floor = {}
  /\ "shape" \notin broken => ~ g.shaped

(* A mode that does not actuate holds nothing of an earlier mode that did: *)
(* the first tick after the switch, whatever it interrupts, has taken CPU, *)
(* GPU, soft PL1 and lanes back (the frame cap is another matter).  And a  *)
(* service stopped at either of its awaits leaves no trace of it at all.   *)
UnmanagedMeansRestored ==
  /\ g.mode \in {"off", "observe"} \/ pc = "closed" => KnobsAtBaseline
  /\ pc = "closed" /\ "cap" \notin broken => g.cap = NoFps

(* While a boost is held nothing of ours holds the game back: no cap on    *)
(* CPU or GPU and no overlay that could be lifted, from the slow tick or   *)
(* from the fast lane.                                                     *)
BoostLifts ==
  pc = "idle" /\ g.boost /\ ~ g.latched =>
    /\ g.cpu # "capped" /\ g.gpu # "capped"
    /\ "soft" \notin broken => g.soft = NoWatts

(* The floor is under the game whose context is current and under no       *)
(* other, also when the writes of that context are latched off.            *)
FloorFollowsGame ==
  pc = "idle" /\ "floor" \notin broken => g.floor \subseteq {g.key.game}

(* Between a failure and the next configuration none of the knobs whose    *)
(* writes the latch guards moves anywhere but back.  The frame cap is not  *)
(* one of them, for _maybe_apply_frame_cap never looks at the latch: it is *)
(* lifted, or moves to the last proposal or the idle cap in a persona that *)
(* may cap at all.                                                         *)
OnlyRestores ==
  /\ g'.cpu \in {g.cpu, g.cpuSnap, Mixed} /\ g'.gpu \in {g.gpu, g.gpuSnap, Mixed}
  /\ g'.soft \in {g.soft, NoWatts}
  /\ g'.floor \subseteq g.floor /\ (g'.shaped => g.shaped)
  /\ \/ g'.cap \in {g.cap, NoFps}
     \/ g'.persona \in CapPersonas /\ g'.cap \in {g'.proposal, IdleFps}

LatchStopsWrites == [][g.latched /\ g'.latched => OnlyRestores]_vars

(* docs/game-power-v9-ultimate-design.md:291: "Any write failure -> full   *)
(* restore + `_write_failed` latch".  Once latched, everything that can be *)
(* restored has been.                                                      *)
WriteFailureRestores == pc = "idle" /\ g.latched => KnobsAtBaseline

(* game_power.py:4156: "active write failed; restoring and disabling       *)
(* writes".  Once latched, no frame cap is written either.                 *)
LatchStopsTheCap ==
  [][g.latched /\ g'.latched => g'.cap \in {g.cap, NoFps}]_vars

(* docs/game-power-v10-framework-plan.md:194: "LOADING/mode change/close   *)
(* release everything", and game_power.py:4021: "every restore path has to *)
(* lift it too".  In mode OFF no frame cap of ours is left.                *)
OffLiftsFrameCap ==
  pc = "idle" /\ g.mode = "off" /\ "cap" \notin broken => g.cap = NoFps

=============================================================================
