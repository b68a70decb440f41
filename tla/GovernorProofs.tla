--------------------------- MODULE GovernorProofs ---------------------------
(***************************************************************************)
(* What the governor restores is what it found, in whatever order          *)
(* decisions, boosts, modes, games and failures come; nothing is held      *)
(* where nothing is managed; the floor is under the game of the context;   *)
(* a latched governor only takes back what the latch guards, and its frame *)
(* cap only follows a proposal or the idle cap; and a boost that was not   *)
(* refused has lifted what it could.                                       *)
(*                                                                         *)
(* A tick is a composition of operators on the record g, and so is the     *)
(* proof: one lemma per operator says what it keeps (Found, Held, Follows),*)
(* and an action's case strings them together.                             *)
(***************************************************************************)
EXTENDS Governor, TLAPS

Fields ==
  {"mode", "persona", "cpu", "gpu", "soft", "floor", "shaped", "cap", "cpuSnap",
   "applied", "gpuSnap", "caps", "gpuLatched", "softApplied", "fg", "bg",
   "floorFailed", "shapeFailed", "latched", "boost", "sampled", "key", "session",
   "proposal"}

(* s has the fields of g.                                                  *)
IsState(s) == s = [x \in Fields |-> s[x]]

(* A snapshot is of the knob as it was found, and without a snapshot the   *)
(* knob is as it was found.                                                *)
CpuFound(s) ==
  s.cpuSnap \in {None, Baseline} /\ (s.cpuSnap = None => s.cpu = Baseline)
GpuFound(s) ==
  s.gpuSnap \in {None, Baseline} /\ (s.gpuSnap = None => s.gpu = Baseline)

(* Where the governor is: its mode, its context and the game that may have *)
(* the floor.                                                              *)
Place(mode, key, game) == [mode |-> mode, key |-> key, game |-> game]

(* b: what has failed so far, m: the place.  Of each knob that has not     *)
(* failed the fields of the governor say what it carries.                  *)
Found(s, b, m) ==
  /\ IsState(s) /\ s.mode = m.mode /\ s.key = m.key
  /\ "cpu-restore" \notin b => CpuFound(s)
  /\ "gpu-restore" \notin b => GpuFound(s)
  /\ "soft" \notin b /\ s.softApplied = NoWatts => s.soft = NoWatts
  /\ "floor" \notin b => s.floor \subseteq {s.fg} \intersect {m.game} \intersect (running \ {None})
  /\ "shape" \notin b /\ s.shaped => s.bg
  /\ s.session <=> s.key # NoKey

(* The floor is under the game of the context.                             *)
InPlace(s, b) == Found(s, b, Place(s.mode, s.key, s.key.game))

LEMMA FoundInPlace ==
  ASSUME NEW s, NEW b, NEW m, Found(s, b, m), m.game = m.key.game
  PROVE  InPlace(s, b)
BY DEF Found, InPlace, Place

LEMMA NoFloorMoves ==
  ASSUME NEW s, NEW b, NEW m, NEW game, Found(s, b, m), "floor" \notin b => s.floor = {}
  PROVE  Found(s, b, Place(m.mode, m.key, game))
BY DEF Found, Place

-----------------------------------------------------------------------------
(* Taking writes back.                                                     *)

LEMMA ClearCapFound ==
  ASSUME NEW s, NEW F, NEW b, NEW m, Found(s, b, m), F \subseteq b
  PROVE  Found(ClearCap(s, F), b, m)
BY DEF Found, IsState, Fields, CpuFound, GpuFound, ClearCap

LEMMA CpuBackFound ==
  ASSUME NEW s, NEW F, NEW b, NEW m, Found(s, b, m), F \subseteq b, s.cpuSnap # None
  PROVE  /\ Found(CpuBack(s, F), b, m)
         /\ CpuBack(s, F).cpuSnap = s.cpuSnap
         /\ "cpu-restore" \notin b => CpuBack(s, F).cpu = Baseline
BY DEF Found, IsState, Fields, CpuFound, GpuFound, CpuBack, None, Baseline

LEMMA GpuBackFound ==
  ASSUME NEW s, NEW F, NEW b, NEW m, Found(s, b, m), F \subseteq b, s.gpuSnap # None
  PROVE  /\ Found(GpuBack(s, F), b, m)
         /\ GpuBack(s, F).gpuSnap = s.gpuSnap
         /\ "gpu-restore" \notin b => GpuBack(s, F).gpu = Baseline
BY DEF Found, IsState, Fields, CpuFound, GpuFound, GpuBack, None, Baseline

LEMMA ClearSoftFound ==
  ASSUME NEW s, NEW F, NEW b, NEW m, Found(s, b, m), F \subseteq b
  PROVE  Found(ClearSoft(s, F), b, m)
BY DEF Found, IsState, Fields, CpuFound, GpuFound, ClearSoft

LEMMA RestoreGpuFound ==
  ASSUME NEW s, NEW F, NEW b, NEW m, Found(s, b, m), F \subseteq b
  PROVE  Found(RestoreGpu(s, F), b, m)
<1>1. CASE s.gpuSnap = None
  BY <1>1 DEF RestoreGpu
<1>2. CASE s.gpuSnap # None
  <2> DEFINE t == GpuBack(s, F)
  <2>1. Found(t, b, m) /\ ("gpu-restore" \notin b => t.gpu = Baseline)
    BY <1>2, GpuBackFound
  <2>2. RestoreGpu(s, F) = [t EXCEPT !.gpuSnap = None, !.caps = None]
    BY <1>2 DEF RestoreGpu
  <2> HIDE DEF t
  <2>3. QED
    BY <2>1, <2>2 DEF Found, IsState, Fields, CpuFound, GpuFound
<1>3. QED
  BY <1>1, <1>2

LEMMA RestoreCpuFound ==
  ASSUME NEW s, NEW F, NEW b, NEW m, Found(s, b, m), F \subseteq b
  PROVE  Found(RestoreCpu(s, F), b, m)
<1>1. CASE s.cpuSnap = None
  BY <1>1 DEF RestoreCpu
<1>2. CASE s.cpuSnap # None
  <2> DEFINE t == CpuBack(s, F)
  <2>1. Found(t, b, m) /\ ("cpu-restore" \notin b => t.cpu = Baseline)
    BY <1>2, CpuBackFound
  <2>2. RestoreCpu(s, F) = [t EXCEPT !.cpuSnap = None, !.applied = NoIntent]
    BY <1>2 DEF RestoreCpu
  <2> HIDE DEF t
  <2>3. QED
    BY <2>1, <2>2 DEF Found, IsState, Fields, CpuFound, GpuFound
<1>3. QED
  BY <1>1, <1>2

LEMMA RestoreFound ==
  ASSUME NEW s, NEW F, NEW b, NEW m, Found(s, b, m), F \subseteq b
  PROVE  Found(Restore(s, F), b, m)
BY ClearCapFound, RestoreGpuFound, ClearSoftFound, RestoreCpuFound DEF Restore

LEMMA RestoreFloorFound ==
  ASSUME NEW s, NEW F, NEW b, NEW m, Found(s, b, m), F \subseteq b
  PROVE  /\ Found(RestoreFloor(s, F), b, m)
         /\ "floor" \notin b => RestoreFloor(s, F).floor = {}
BY DEF Found, IsState, Fields, CpuFound, GpuFound, RestoreFloor

LEMMA RestoreShapeFound ==
  ASSUME NEW s, NEW F, NEW b, NEW m, Found(s, b, m), F \subseteq b
  PROVE  /\ Found(RestoreShape(s, F), b, m)
         /\ RestoreShape(s, F).floor = s.floor
         /\ "shape" \notin b => ~ RestoreShape(s, F).shaped
BY DEF Found, IsState, Fields, CpuFound, GpuFound, RestoreShape

LEMMA RestoreLanesFound ==
  ASSUME NEW s, NEW F, NEW b, NEW m, Found(s, b, m), F \subseteq b
  PROVE  /\ Found(RestoreLanes(s, F), b, m)
         /\ "floor" \notin b => RestoreLanes(s, F).floor = {}
         /\ "shape" \notin b => ~ RestoreLanes(s, F).shaped
<1>1. Found(RestoreFloor(s, F), b, m) /\ ("floor" \notin b => RestoreFloor(s, F).floor = {})
  BY RestoreFloorFound
<1>2. QED
  BY <1>1, RestoreShapeFound DEF RestoreLanes

LEMMA ResetWriterFound ==
  ASSUME NEW s, NEW F, NEW b, NEW m, Found(s, b, m), F \subseteq b
  PROVE  Found(ResetWriter(s, F), b, m)
<1> DEFINE t == RestoreLanes(s, F)
<1>1. /\ Found(t, b, m)
      /\ "floor" \notin b => t.floor = {}
      /\ "shape" \notin b => ~ t.shaped
  BY RestoreLanesFound
<1>2. ResetWriter(s, F) = [t EXCEPT !.fg = None, !.bg = FALSE,
                                    !.floorFailed = FALSE, !.shapeFailed = FALSE]
  BY DEF ResetWriter
<1> HIDE DEF t
<1>3. /\ IsState(ResetWriter(s, F)) /\ ResetWriter(s, F).fg = None
      /\ \A x \in Fields \ {"fg", "bg", "floorFailed", "shapeFailed"} :
           ResetWriter(s, F)[x] = t[x]
  BY <1>1, <1>2 DEF Found, IsState, Fields
<1>4. QED
  BY <1>1, <1>3 DEF Found, Fields, CpuFound, GpuFound

LEMMA RestoreAndLatchFound ==
  ASSUME NEW s, NEW F, NEW b, NEW m, Found(s, b, m), F \subseteq b
  PROVE  Found(RestoreAndLatch(s, F), b, m)
<1> DEFINE t == Restore(s, F)
<1>1. Found(t, b, m)
  BY RestoreFound
<1>2. RestoreAndLatch(s, F) = [t EXCEPT !.latched = TRUE]
  BY DEF RestoreAndLatch
<1> HIDE DEF t
<1>3. QED
  BY <1>1, <1>2 DEF Found, IsState, Fields, CpuFound, GpuFound

LEMMA CloseSessionFound ==
  ASSUME NEW s, NEW F, NEW b, NEW m, Found(s, b, m), F \subseteq b
  PROVE  Found(CloseSession(s, F), b, Place(m.mode, NoKey, m.game))
<1> DEFINE t == IF s.session /\ s.cpuSnap # None THEN Restore(s, F) ELSE s
<1>1. Found(t, b, m)
  BY RestoreFound
<1>2. CloseSession(s, F) = [t EXCEPT !.session = FALSE, !.key = NoKey]
  BY DEF CloseSession
<1> HIDE DEF t
<1>3. QED
  BY <1>1, <1>2 DEF Found, IsState, Fields, CpuFound, GpuFound, Place

(* A session that is closed with its lanes leaves no floor to any game.    *)
LEMMA ReleasedLanesFound ==
  ASSUME NEW s, NEW F, NEW b, NEW m, Found(s, b, m), F \subseteq b
  PROVE  /\ Found(RestoreLanes(CloseSession(s, F), F), b, Place(m.mode, NoKey, None))
         /\ "floor" \notin b => RestoreLanes(CloseSession(s, F), F).floor = {}
         /\ "shape" \notin b => ~ RestoreLanes(CloseSession(s, F), F).shaped
<1> DEFINE p == Place(m.mode, NoKey, m.game)
           t == RestoreLanes(CloseSession(s, F), F)
<1>1. Found(CloseSession(s, F), b, p)
  BY CloseSessionFound
<1>2. Found(t, b, p) /\ ("floor" \notin b => t.floor = {}) /\ ("shape" \notin b => ~ t.shaped)
  BY <1>1, RestoreLanesFound
<1>3. p.mode = m.mode /\ p.key = NoKey
  BY DEF Place
<1> HIDE DEF t, p
<1>4. Found(t, b, Place(p.mode, p.key, None))
  BY <1>2, NoFloorMoves
<1>5. QED
  BY <1>2, <1>3, <1>4 DEF t

-----------------------------------------------------------------------------
(* Applying a decision.                                                    *)

LEMMA CpuPreparedFound ==
  ASSUME NEW s, NEW F, NEW b, NEW m, Found(s, b, m), F \subseteq b
  PROVE  Found(CpuPrepared(s, F), b, m) /\ ("cpu-restore" \notin b => CpuPrepared(s, F).cpuSnap = Baseline)
<1>1. CASE s.cpuSnap = None
  BY <1>1 DEF CpuPrepared, Found, IsState, Fields, CpuFound, GpuFound
<1>2. CASE s.cpuSnap # None
  <2>1. "cpu-restore" \notin b => s.cpuSnap = Baseline
    BY <1>2 DEF Found, CpuFound
  <2>2. QED
    BY <1>2, <2>1, CpuBackFound DEF CpuPrepared
<1>3. QED
  BY <1>1, <1>2

(* Once the snapshot is taken the knob may carry anything.                 *)
LEMMA CpuWrittenFound ==
  ASSUME NEW s, NEW F, NEW b, NEW m, NEW wish, Found(s, b, m), F \subseteq b,
         "cpu-restore" \notin b => s.cpuSnap = Baseline
  PROVE  Found(CpuWritten(s, F, wish), b, m)
BY DEF CpuWritten, Found, IsState, Fields, CpuFound, GpuFound, None, Baseline

LEMMA ApplyCpuFound ==
  ASSUME NEW s, NEW F, NEW b, NEW m, NEW intent, Found(s, b, m), F \subseteq b
  PROVE  Found(ApplyCpu(s, F, intent), b, m)
<1> DEFINE prepared == CpuPrepared(s, F)
           written  == CpuWritten(prepared, F, intent.cpu)
           back     == CpuBack(s, F)
<1>1. Found(written, b, m)
  BY CpuPreparedFound, CpuWrittenFound
<1>2. s.cpuSnap # None => Found(back, b, m)
  BY CpuBackFound
<1>3. Found(RestoreLanes(RestoreAndLatch(written, F), F), b, m)
  BY <1>1, RestoreAndLatchFound, RestoreLanesFound
<1>4. Found([written EXCEPT !.applied = intent], b, m)
  <2> HIDE DEF written
  <2>1. QED
    BY <1>1 DEF Found, IsState, Fields, CpuFound, GpuFound
<1>5. s.cpuSnap # None => Found([back EXCEPT !.applied = NoIntent], b, m)
  <2> HIDE DEF back
  <2>1. QED
    BY <1>2 DEF Found, IsState, Fields, CpuFound, GpuFound
<1>6. QED
  BY <1>3, <1>4, <1>5 DEF ApplyCpu

LEMMA GpuPreparedFound ==
  ASSUME NEW s, NEW F, NEW b, NEW m, Found(s, b, m), F \subseteq b
  PROVE  Found(GpuPrepared(s, F), b, m) /\ ("gpu-restore" \notin b => GpuPrepared(s, F).gpuSnap = Baseline)
<1>1. CASE s.gpuSnap = None
  BY <1>1 DEF GpuPrepared, Found, IsState, Fields, CpuFound, GpuFound
<1>2. CASE s.gpuSnap # None
  <2> DEFINE t == GpuBack(s, F)
  <2>1. Found(t, b, m) /\ t.gpuSnap = s.gpuSnap
    BY <1>2, GpuBackFound
  <2>2. "gpu-restore" \notin b => s.gpuSnap = Baseline
    BY <1>2 DEF Found, GpuFound
  <2>3. GpuPrepared(s, F) = [t EXCEPT !.latched = s.latched]
    BY <1>2 DEF GpuPrepared
  <2> HIDE DEF t
  <2>4. QED
    BY <2>1, <2>2, <2>3 DEF Found, IsState, Fields, CpuFound, GpuFound
<1>3. QED
  BY <1>1, <1>2

LEMMA GpuWrittenFound ==
  ASSUME NEW s, NEW F, NEW b, NEW m, NEW wish, Found(s, b, m), F \subseteq b,
         "gpu-restore" \notin b => s.gpuSnap = Baseline
  PROVE  Found(GpuWritten(s, F, wish), b, m)
BY DEF GpuWritten, Found, IsState, Fields, CpuFound, GpuFound, None, Baseline

LEMMA ApplyGpuFound ==
  ASSUME NEW s, NEW F, NEW b, NEW m, NEW wish, Found(s, b, m), F \subseteq b
  PROVE  Found(ApplyGpu(s, F, wish), b, m)
<1> DEFINE written == GpuWritten(GpuPrepared(s, F), F, wish)
<1>1. Found(written, b, m)
  BY GpuPreparedFound, GpuWrittenFound
<1>2. Found([written EXCEPT !.caps = wish], b, m)
  <2> HIDE DEF written
  <2>1. QED
    BY <1>1 DEF Found, IsState, Fields, CpuFound, GpuFound
<1>3. Found(RestoreAndLatch(written, F), b, m)
  BY <1>1, RestoreAndLatchFound
<1>4. QED
  BY <1>2, <1>3, RestoreGpuFound DEF ApplyGpu

LEMMA ApplySoftFound ==
  ASSUME NEW s, NEW F, NEW b, NEW m, NEW watts, Found(s, b, m), F \subseteq b
  PROVE  Found(ApplySoft(s, F, watts), b, m)
<1>1. Found([s EXCEPT !.soft = watts, !.softApplied = watts], b, m)
  BY DEF Found, IsState, Fields, CpuFound, GpuFound
<1>2. QED
  BY <1>1, RestoreAndLatchFound DEF ApplySoft

LEMMA ApplyGpuAndSoftFound ==
  ASSUME NEW s, NEW F, NEW b, NEW m, NEW intent, Found(s, b, m), F \subseteq b
  PROVE  Found(ApplyGpuAndSoft(s, F, intent), b, m)
<1>1. Found(ApplyGpu(s, F, intent.gpu), b, m)
  BY ApplyGpuFound
<1>2. QED
  BY <1>1, ApplySoftFound DEF ApplyGpuAndSoft

LEMMA ApplyFloorFound ==
  ASSUME NEW s, NEW F, NEW b, NEW m, NEW game, Found(s, b, m), F \subseteq b,
         game \in {None, m.game}
  PROVE  Found(ApplyFloor(s, F, game), b, m)
<1> DEFINE freed == RestoreFloor(s, F)
<1>1. Found(freed, b, m) /\ ("floor" \notin b => freed.floor = {})
  BY RestoreFloorFound
<1>2. /\ Found([freed EXCEPT !.floorFailed = TRUE], b, m)
      /\ game # None /\ game \in running =>
           Found([freed EXCEPT !.floor = @ \union {game}, !.fg = game], b, m)
  <2> HIDE DEF freed
  <2>1. Found([freed EXCEPT !.floorFailed = TRUE], b, m)
    BY <1>1 DEF Found, IsState, Fields, CpuFound, GpuFound
  <2>2. ASSUME game # None, game \in running
        PROVE  Found([freed EXCEPT !.floor = @ \union {game}, !.fg = game], b, m)
    BY <1>1, <2>2 DEF Found, IsState, Fields, CpuFound, GpuFound
  <2>3. QED
    BY <2>1, <2>2
<1>3. QED
  BY <1>1, <1>2 DEF ApplyFloor

LEMMA ApplyShapeFound ==
  ASSUME NEW s, NEW F, NEW b, NEW m, NEW wanted, Found(s, b, m), F \subseteq b
  PROVE  Found(ApplyShape(s, F, wanted), b, m)
<1>1. /\ Found([s EXCEPT !.shapeFailed = TRUE], b, m)
      /\ Found([s EXCEPT !.bg = TRUE, !.shaped = TRUE], b, m)
  BY DEF Found, IsState, Fields, CpuFound, GpuFound
<1>2. QED
  BY <1>1, RestoreShapeFound DEF ApplyShape

LEMMA ApplyLanesFound ==
  ASSUME NEW s, NEW F, NEW b, NEW m, NEW lanes, NEW game, Found(s, b, m), F \subseteq b,
         game \in {None, m.game}
  PROVE  Found(ApplyLanes(s, F, lanes, game), b, m)
<1> DEFINE floorGame == IF "floor" \in lanes THEN game ELSE None
           shape     == "shape" \in lanes /\ game # None
           floored   == ApplyFloor(s, F, floorGame)
           shaped    == ApplyShape(floored, F, shape)
<1>0. floorGame \in {None, m.game}
  OBVIOUS
<1>1. Found(floored, b, m) /\ Found(shaped, b, m)
  BY <1>0, ApplyFloorFound, ApplyShapeFound
<1>2. /\ Found(RestoreAndLatch(RestoreLanes(floored, F), F), b, m)
      /\ Found(RestoreAndLatch(RestoreLanes(shaped, F), F), b, m)
  BY <1>1, RestoreLanesFound, RestoreAndLatchFound
<1>3. Found([shaped EXCEPT !.latched = shaped.floorFailed \/ shaped.shapeFailed], b, m)
  <2> HIDE DEF shaped
  <2>1. QED
    BY <1>1 DEF Found, IsState, Fields, CpuFound, GpuFound
<1>4. QED
  BY <1>2, <1>3 DEF ApplyLanes

LEMMA ApplyTargetBalanceFound ==
  ASSUME NEW s, NEW F, NEW b, NEW m, NEW intent, NEW lanes, NEW game,
         Found(s, b, m), F \subseteq b, game \in {None, m.game}
  PROVE  Found(ApplyTargetBalance(s, F, intent, lanes, game), b, m)
<1> DEFINE cpuDone == ApplyCpu(s, F, intent)
           gpuDone == ApplyGpuAndSoft(cpuDone, F, intent)
<1>1. Found(cpuDone, b, m) /\ Found(gpuDone, b, m)
  BY ApplyCpuFound, ApplyGpuAndSoftFound
<1>2. Found(ApplyLanes(gpuDone, F, lanes, game), b, m)
  BY <1>1, ApplyLanesFound
<1>3. QED
  BY <1>1, <1>2 DEF ApplyTargetBalance

LEMMA PriorityWriteFound ==
  ASSUME NEW s, NEW F, NEW b, NEW m, NEW action, Found(s, b, m), F \subseteq b
  PROVE  Found(PriorityWrite(s, F, action), b, m)
<1> DEFINE snapped == IF s.cpuSnap = None THEN [s EXCEPT !.cpuSnap = s.cpu] ELSE s
           wish == IF s.cpu = Mixed THEN Mixed
                   ELSE IF action = "cap" \/ s.cpu = "capped" THEN "capped" ELSE "epp"
<1>1. Found(snapped, b, m) /\ ("cpu-restore" \notin b => snapped.cpuSnap = Baseline)
  BY DEF Found, IsState, Fields, CpuFound, GpuFound
<1>2. \A k : Found([snapped EXCEPT !.cpu = k], b, m)
  <2> HIDE DEF snapped
  <2>1. QED
    BY <1>1 DEF Found, IsState, Fields, CpuFound, GpuFound, None, Baseline
<1>3. Found(RestoreAndLatch([snapped EXCEPT !.cpu = Mixed], F), b, m)
  BY <1>2, RestoreAndLatchFound
<1>4. PriorityWrite(s, F, action) =
        IF "cpu-apply" \in F THEN RestoreAndLatch([snapped EXCEPT !.cpu = Mixed], F)
        ELSE [snapped EXCEPT !.cpu = wish]
  BY DEF PriorityWrite
<1>5. QED
  BY <1>2, <1>3, <1>4

LEMMA ApplyOtherFound ==
  ASSUME NEW s, NEW F, NEW b, NEW m, NEW action, Found(s, b, m), F \subseteq b
  PROVE  Found(ApplyOther(s, F, action), b, m)
<1> DEFINE clean == IF s.applied # NoIntent \/ s.gpuSnap # None \/ s.softApplied # NoWatts
                    THEN Restore(s, F) ELSE s
<1>1. Found(clean, b, m)
  BY RestoreFound
<1>2. Found(Restore(clean, F), b, m) /\ Found(PriorityWrite(clean, F, action), b, m)
  BY <1>1, RestoreFound, PriorityWriteFound
<1>3. QED
  BY <1>1, <1>2 DEF ApplyOther

LEMMA PublishFound ==
  ASSUME NEW s, NEW F, NEW b, NEW m, NEW frame, NEW proposal, Found(s, b, m), F \subseteq b
  PROVE  Found(Publish(s, F, frame, proposal), b, m)
<1> DEFINE told == IF proposal = NoFps THEN s ELSE [s EXCEPT !.proposal = proposal]
<1>1. Found(told, b, m)
  BY DEF Found, IsState, Fields, CpuFound, GpuFound
<1>2. ASSUME NEW t, Found(t, b, m) PROVE Found(FrameCap(t, F, frame), b, m)
  <2>1. \A fps : Found(WriteCap(t, F, fps), b, m)
    BY <1>2 DEF WriteCap, Found, IsState, Fields, CpuFound, GpuFound
  <2>2. Found(ClearCap(t, F), b, m)
    BY <1>2, ClearCapFound
  <2>3. QED
    BY <1>2, <2>1, <2>2 DEF FrameCap
<1>3. QED
  BY <1>1, <1>2 DEF Publish

-----------------------------------------------------------------------------
(* The configuration and the context.                                      *)

LEMMA RefreshFound ==
  ASSUME NEW s, NEW F, NEW b, NEW mode, NEW persona, InPlace(s, b), F \subseteq b
  PROVE  InPlace(Refresh(s, F, mode, persona), b)
<1> DEFINE m     == Place(s.mode, s.key, s.key.game)
           p     == Place(m.mode, NoKey, None)
           freed == RestoreLanes(CloseSession(s, F), F)
           clean == IF \/ s.mode = "target-balance" \/ freed.applied # NoIntent
                       \/ freed.gpuSnap # None \/ freed.softApplied # NoWatts
                    THEN Restore(freed, F) ELSE freed
           reset == ResetWriter(clean, F)
           new   == [reset EXCEPT !.mode = mode, !.persona = persona,
                                  !.boost = FALSE, !.latched = FALSE]
<1>0. Found(s, b, m)
  BY DEF InPlace
<1>1. Found(freed, b, p)
  BY <1>0, ReleasedLanesFound
<1>2. Found(clean, b, p)
  BY <1>1, RestoreFound
<1>3. Found(reset, b, p)
  BY <1>2, ResetWriterFound
<1>4. Found(new, b, Place(mode, NoKey, None))
  <2> HIDE DEF reset
  <2>1. QED
    BY <1>3 DEF Found, IsState, Fields, CpuFound, GpuFound, Place
<1>5. InPlace(new, b)
  <2> HIDE DEF new
  <2>1. QED
    BY <1>4, FoundInPlace DEF Place, NoKey
<1>6. Refresh(s, F, mode, persona) = IF mode = s.mode /\ persona = s.persona THEN s ELSE new
  BY DEF Refresh
<1> HIDE DEF new
<1>7. QED
  BY <1>5, <1>6

LEMMA PrepareContextFound ==
  ASSUME NEW s, NEW F, NEW b, NEW game, NEW fps, InPlace(s, b), F \subseteq b
  PROVE  /\ InPlace(PrepareContext(s, F, game, fps), b)
         /\ PrepareContext(s, F, game, fps).mode = s.mode
         /\ PrepareContext(s, F, game, fps).key.game = game
<1> DEFINE m     == Place(s.mode, s.key, s.key.game)
           key   == IF game = None THEN NoKey ELSE [game |-> game, pl1 |-> s.soft, fps |-> fps]
           freed == RestoreLanes(CloseSession(s, F), F)
           new   == [freed EXCEPT !.key = key, !.session = (key # NoKey)]
<1>0. Found(s, b, m) /\ key.game = game
  BY DEF InPlace, NoKey
<1>1. Found(freed, b, Place(m.mode, NoKey, None)) /\ ("floor" \notin b => freed.floor = {})
  BY <1>0, ReleasedLanesFound
<1>2. Found(new, b, Place(s.mode, key, game)) /\ new.mode = s.mode /\ new.key = key
  <2>1. m.mode = s.mode
    BY DEF Place
  <2> HIDE DEF freed, key, m
  <2>2. QED
    BY <1>1, <2>1 DEF Found, IsState, Fields, CpuFound, GpuFound, Place
<1>3. InPlace(new, b) /\ new.mode = s.mode /\ new.key.game = game
  <2> HIDE DEF new, key
  <2>1. QED
    BY <1>0, <1>2, FoundInPlace DEF Place
<1>4. PrepareContext(s, F, game, fps) = IF key = s.key THEN s ELSE new
  BY DEF PrepareContext
<1> HIDE DEF new, key
<1>5. QED
  BY <1>0, <1>3, <1>4

-----------------------------------------------------------------------------

-----------------------------------------------------------------------------
(* What is held outside target-balance: nothing, but for the snapshot of a *)
(* session in gpu-priority.                                                *)

Released(s) == s.cpuSnap = None /\ s.gpuSnap = None /\ s.softApplied = NoWatts

NoLanes(s) == s.fg = None /\ s.bg = FALSE

Held(s) ==
  s.mode # "target-balance" =>
    /\ s.gpuSnap = None /\ s.softApplied = NoWatts /\ NoLanes(s)
    /\ s.cpuSnap # None => s.mode = "gpu-priority" /\ s.session

(* s and t differ at most in knobs, snapshots and intents.                 *)
Around(s, t) ==
  /\ t.mode = s.mode /\ t.fg = s.fg /\ t.bg = s.bg /\ t.floor = s.floor
  /\ t.shaped = s.shaped /\ t.session = s.session /\ t.key = s.key

LEMMA RestoreEffect ==
  ASSUME NEW s, NEW F, IsState(s)
  PROVE  /\ IsState(Restore(s, F)) /\ Released(Restore(s, F)) /\ Around(s, Restore(s, F))
         /\ "cap" \notin F => Restore(s, F).cap = NoFps
<1> DEFINE capped == ClearCap(s, F)
           gpu    == RestoreGpu(capped, F)
           soft   == ClearSoft(gpu, F)
           cpu    == RestoreCpu(soft, F)
<1>1. /\ IsState(capped) /\ Around(s, capped)
      /\ "cap" \notin F => capped.cap = NoFps
  BY DEF ClearCap, IsState, Fields, Around
<1>2. /\ IsState(gpu) /\ Around(capped, gpu) /\ gpu.cap = capped.cap /\ gpu.gpuSnap = None
  <2> HIDE DEF capped
  <2>1. QED
    BY <1>1 DEF RestoreGpu, GpuBack, IsState, Fields, Around
<1>3. /\ IsState(soft) /\ Around(gpu, soft) /\ soft.cap = gpu.cap
      /\ soft.gpuSnap = None /\ soft.softApplied = NoWatts
  <2> HIDE DEF gpu
  <2>1. QED
    BY <1>2 DEF ClearSoft, IsState, Fields, Around
<1>4. /\ IsState(cpu) /\ Around(soft, cpu) /\ cpu.cap = soft.cap
      /\ cpu.gpuSnap = None /\ cpu.softApplied = NoWatts /\ cpu.cpuSnap = None
  <2> HIDE DEF soft
  <2>1. QED
    BY <1>3 DEF RestoreCpu, CpuBack, IsState, Fields, Around
<1>5. Restore(s, F) = cpu
  BY DEF Restore
<1> HIDE DEF capped, gpu, soft, cpu
<1>6. QED
  BY <1>1, <1>2, <1>3, <1>4, <1>5 DEF Around, Released

LEMMA RestoreLanesEffect ==
  ASSUME NEW s, NEW F, IsState(s)
  PROVE  LET t == RestoreLanes(s, F)
         IN  /\ IsState(t) /\ t.mode = s.mode /\ t.session = s.session
             /\ Released(s) => Released(t)
             /\ NoLanes(s) => t = s
<1> DEFINE floor == RestoreFloor(s, F)
           shape == RestoreShape(floor, F)
<1>1. /\ IsState(floor) /\ floor.mode = s.mode /\ floor.session = s.session
      /\ Released(s) => Released(floor)
      /\ NoLanes(s) => floor = s
  BY DEF RestoreFloor, IsState, Fields, Released, NoLanes
<1>2. /\ IsState(shape) /\ shape.mode = floor.mode /\ shape.session = floor.session
      /\ Released(floor) => Released(shape)
      /\ NoLanes(floor) => shape = floor
  <2> HIDE DEF floor
  <2>1. QED
    BY <1>1 DEF RestoreShape, IsState, Fields, Released, NoLanes
<1>3. RestoreLanes(s, F) = shape
  BY DEF RestoreLanes
<1> HIDE DEF floor, shape
<1>4. QED
  BY <1>1, <1>2, <1>3

(* Outside target-balance a session that is closed leaves nothing.         *)
LEMMA CloseSessionEffect ==
  ASSUME NEW s, NEW F, IsState(s), Held(s)
  PROVE  LET t == CloseSession(s, F)
         IN  /\ IsState(t) /\ t.mode = s.mode /\ t.fg = s.fg /\ t.bg = s.bg
             /\ s.mode # "target-balance" => Released(t) /\ NoLanes(t)
<1> DEFINE t == IF s.session /\ s.cpuSnap # None THEN Restore(s, F) ELSE s
<1>1. /\ IsState(t) /\ t.mode = s.mode /\ t.fg = s.fg /\ t.bg = s.bg
      /\ s.mode # "target-balance" => Released(t) /\ NoLanes(t)
  <2>1. CASE s.session /\ s.cpuSnap # None
    BY <2>1, RestoreEffect DEF Around, Held, NoLanes
  <2>2. CASE ~ (s.session /\ s.cpuSnap # None)
    BY <2>2 DEF Held, Released
  <2>3. QED
    BY <2>1, <2>2
<1>2. CloseSession(s, F) = [t EXCEPT !.session = FALSE, !.key = NoKey]
  BY DEF CloseSession
<1> HIDE DEF t
<1>3. QED
  BY <1>1, <1>2 DEF IsState, Fields, Released, NoLanes

LEMMA RefreshHeld ==
  ASSUME NEW s, NEW F, NEW mode, NEW persona, IsState(s), Held(s)
  PROVE  Held(Refresh(s, F, mode, persona)) /\ Refresh(s, F, mode, persona).mode = mode
<1> DEFINE closed == CloseSession(s, F)
           freed == RestoreLanes(closed, F)
           clean == IF \/ s.mode = "target-balance" \/ freed.applied # NoIntent
                       \/ freed.gpuSnap # None \/ freed.softApplied # NoWatts
                    THEN Restore(freed, F) ELSE freed
           lanes == RestoreLanes(clean, F)
           reset == ResetWriter(clean, F)
           new   == [reset EXCEPT !.mode = mode, !.persona = persona,
                                  !.boost = FALSE, !.latched = FALSE]
<1>1. IsState(freed) /\ (s.mode # "target-balance" => Released(freed))
  BY CloseSessionEffect, RestoreLanesEffect
<1>2. IsState(clean) /\ Released(clean)
  BY <1>1, RestoreEffect
<1>3. IsState(lanes) /\ Released(lanes)
  BY <1>2, RestoreLanesEffect
<1>4. IsState(reset) /\ Released(reset) /\ NoLanes(reset)
  <2>1. reset = [lanes EXCEPT !.fg = None, !.bg = FALSE,
                              !.floorFailed = FALSE, !.shapeFailed = FALSE]
    BY DEF ResetWriter
  <2> HIDE DEF lanes, reset
  <2>2. QED
    BY <1>3, <2>1 DEF IsState, Fields, Released, NoLanes
<1>5. Held(new) /\ new.mode = mode
  <2> HIDE DEF reset
  <2>1. QED
    BY <1>4 DEF IsState, Fields, Released, NoLanes, Held
<1>6. Refresh(s, F, mode, persona) = IF mode = s.mode /\ persona = s.persona THEN s ELSE new
  BY DEF Refresh
<1> HIDE DEF new
<1>7. QED
  BY <1>5, <1>6

LEMMA PrepareContextHeld ==
  ASSUME NEW s, NEW F, NEW game, NEW fps, IsState(s), Held(s), s.session <=> s.key # NoKey
  PROVE  LET t == PrepareContext(s, F, game, fps)
         IN  Held(t) /\ (game # None => t.session)
<1> DEFINE key   == IF game = None THEN NoKey ELSE [game |-> game, pl1 |-> s.soft, fps |-> fps]
           freed == RestoreLanes(CloseSession(s, F), F)
           new   == [freed EXCEPT !.key = key, !.session = (key # NoKey)]
<1>1. game # None => key # NoKey
  BY DEF NoKey
<1>2. /\ IsState(freed) /\ freed.mode = s.mode
      /\ s.mode # "target-balance" => Released(freed) /\ NoLanes(freed)
  BY CloseSessionEffect, RestoreLanesEffect
<1>3. Held(new) /\ (game # None => new.session)
  <2> HIDE DEF freed, key
  <2>1. QED
    BY <1>1, <1>2 DEF IsState, Fields, Released, NoLanes, Held
<1>4. PrepareContext(s, F, game, fps) = IF key = s.key THEN s ELSE new
  BY DEF PrepareContext
<1> HIDE DEF new, key
<1>5. QED
  BY <1>1, <1>3, <1>4

LEMMA ApplyOtherHeld ==
  ASSUME NEW s, NEW F, NEW action, IsState(s), Held(s), s.mode # "target-balance",
         action \notin {"idle", "restore"} => s.mode = "gpu-priority" /\ s.session
  PROVE  Held(ApplyOther(s, F, action))
<1>1. ASSUME NEW t, IsState(t), Held(t), t.mode = s.mode
      PROVE  /\ IsState(Restore(t, F)) /\ Held(Restore(t, F))
             /\ Around(t, Restore(t, F))
  BY <1>1, RestoreEffect DEF Held, Released, NoLanes, Around
<1> DEFINE clean == IF s.applied # NoIntent \/ s.gpuSnap # None \/ s.softApplied # NoWatts
                    THEN Restore(s, F) ELSE s
<1>2. IsState(clean) /\ Held(clean) /\ clean.mode = s.mode /\ clean.session = s.session
  BY <1>1 DEF Around
<1>3. ASSUME NEW t, IsState(t), Held(t), t.mode = "gpu-priority", t.session
      PROVE  Held(PriorityWrite(t, F, action))
  <2> DEFINE snapped == IF t.cpuSnap = None THEN [t EXCEPT !.cpuSnap = t.cpu] ELSE t
             wish == IF t.cpu = Mixed THEN Mixed
                     ELSE IF action = "cap" \/ t.cpu = "capped" THEN "capped" ELSE "epp"
             mixed == [snapped EXCEPT !.cpu = Mixed]
             back == Restore(mixed, F)
  <2>1. /\ IsState(snapped) /\ Held(snapped)
        /\ snapped.mode = "gpu-priority" /\ snapped.session
    BY <1>3 DEF IsState, Fields, Held, NoLanes
  <2>2. \A k : LET w == [snapped EXCEPT !.cpu = k]
               IN  IsState(w) /\ Held(w) /\ w.mode = "gpu-priority"
    <3> HIDE DEF snapped
    <3>1. QED
      BY <2>1 DEF IsState, Fields, Held, NoLanes
  <2>3. IsState(back) /\ Held(back)
    <3>1. IsState(mixed) /\ Held(mixed) /\ mixed.mode = "gpu-priority"
      BY <2>2
    <3> HIDE DEF mixed
    <3>2. IsState(back) /\ Released(back) /\ Around(mixed, back)
      BY <3>1, RestoreEffect
    <3> HIDE DEF back
    <3>3. QED
      BY <3>1, <3>2 DEF Held, Released, NoLanes, Around
  <2>4. Held([back EXCEPT !.latched = TRUE])
    <3> HIDE DEF back
    <3>1. QED
      BY <2>3 DEF IsState, Fields, Held, NoLanes
  <2>5. PriorityWrite(t, F, action) =
          IF "cpu-apply" \in F THEN [back EXCEPT !.latched = TRUE]
          ELSE [snapped EXCEPT !.cpu = wish]
    BY DEF PriorityWrite, RestoreAndLatch
  <2>6. Held([snapped EXCEPT !.cpu = wish])
    BY <2>2
  <2>7. QED
    BY <2>4, <2>5, <2>6
<1>4. QED
  <2> HIDE DEF clean
  <2>1. ApplyOther(s, F, action) =
          IF clean.latched \/ action = "idle" THEN clean
          ELSE IF action = "restore" THEN Restore(clean, F)
          ELSE PriorityWrite(clean, F, action)
    BY DEF ApplyOther, clean
  <2>2. QED
    BY <1>1, <1>2, <1>3, <2>1

LEMMA PublishHeld ==
  ASSUME NEW s, NEW F, NEW frame, NEW proposal, IsState(s), Held(s)
  PROVE  Held(Publish(s, F, frame, proposal))
<1> DEFINE told == IF proposal = NoFps THEN s ELSE [s EXCEPT !.proposal = proposal]
<1>1. IsState(told) /\ Held(told)
  BY DEF IsState, Fields, Held, NoLanes
<1>2. ASSUME NEW t, IsState(t), Held(t) PROVE Held(FrameCap(t, F, frame))
  <2>1. \A fps : Held(WriteCap(t, F, fps))
    BY <1>2 DEF WriteCap, IsState, Fields, Held, NoLanes
  <2>2. Held(ClearCap(t, F))
    BY <1>2 DEF ClearCap, IsState, Fields, Held, NoLanes
  <2>3. QED
    BY <1>2, <2>1, <2>2 DEF FrameCap
<1>3. QED
  BY <1>1, <1>2 DEF Publish

-----------------------------------------------------------------------------

(* What a closed service has left behind.                                  *)
Gone ==
  /\ Released(g)
  /\ "floor" \notin broken => g.floor = {}
  /\ "shape" \notin broken => ~ g.shaped
  /\ "cap" \notin broken => g.cap = NoFps

IInv ==
  /\ InPlace(g, broken) /\ Held(g)
  /\ pc = "sampling" => g.mode \in AllModes \ {"off"}
  /\ pc = "closed" => Gone

LEMMA InitIInv == Init => IInv
<1> SUFFICES ASSUME Init PROVE IInv
  OBVIOUS
<1>1. IsState(g)
  BY DEF Init, IsState, Fields
<1>2. CpuFound(g) /\ GpuFound(g) /\ Held(g)
  BY DEF Init, CpuFound, GpuFound, Held, NoLanes
<1>3. InPlace(g, broken)
  BY <1>1, <1>2 DEF Init, InPlace, Found, Place
<1>4. QED
  BY <1>2, <1>3 DEF Init, IInv

Tick(F) ==
  \/ \E persona \in Personas, proposal \in Proposals \union {NoFps} :
       OffTick(persona, proposal, F)
  \/ \E mode \in Modes \ {"off"}, persona \in Personas : BeginTick(mode, persona, F)
  \/ SampleAndApply(F)
  \/ FastBoost(F) \/ FastBoostEnds(F)
  \/ Close(F)

(* Every action of the governor keeps the invariant.                       *)
LEMMA TickIInv ==
  ASSUME IInv, NEW F, Tick(F)
  PROVE  IInv'
<1> DEFINE b == broken'
           m == Place(g.mode, g.key, g.key.game)
<1>1. /\ InPlace(g, b) /\ Found(g, b, m) /\ F \subseteq b /\ UNCHANGED running
      /\ IsState(g) /\ Held(g) /\ (g.session <=> g.key # NoKey)
  <2>1. broken' = broken \union F /\ UNCHANGED running
    BY DEF Tick, OffTick, BeginTick, SampleAndApply, EndTick, FastBoost, FastBoostEnds,
       Close, Fails
  <2>2. Found(g, broken, m) /\ Held(g)
    BY DEF IInv, InPlace
  <2>3. F \subseteq b /\ broken \subseteq b
    BY <2>1
  <2> HIDE DEF b
  <2>4. Found(g, b, m)
    BY <2>2, <2>3 DEF Found
  <2>5. QED
    BY <2>1, <2>2, <2>3, <2>4 DEF Found, InPlace
<1>m. m.mode = g.mode /\ m.key = g.key /\ m.game = m.key.game
  BY DEF Place
<1> SUFFICES /\ InPlace(g', b) /\ Held(g')
             /\ pc' = "sampling" => g'.mode \in AllModes \ {"off"}
             /\ pc' = "closed" => Gone'
  BY <1>1 DEF IInv, InPlace, Place, Found, IsState, CpuFound, GpuFound, Held, NoLanes
<1> HIDE DEF b, m
<1>2. CASE \E persona \in Personas, proposal \in Proposals \union {NoFps} :
             OffTick(persona, proposal, F)
  <2>1. PICK persona, proposal : OffTick(persona, proposal, F)
    BY <1>2
  <2> DEFINE fresh == Refresh(g, F, "off", persona)
             closed == CloseSession(fresh, F)
             off == Restore(closed, F)
             frame == [target |-> NoTarget, idle |-> FALSE]
             here == Place(fresh.mode, fresh.key, fresh.key.game)
             there == Place(here.mode, NoKey, here.game)
  <2>2. Found(fresh, b, here) /\ Held(fresh) /\ fresh.mode = "off"
    BY <1>1, RefreshFound, RefreshHeld DEF InPlace
  <2>3. Found(off, b, there)
    <3> HIDE DEF fresh, here
    <3>1. Found(closed, b, there)
      BY <1>1, <2>2, CloseSessionFound
    <3> HIDE DEF closed, there
    <3>2. QED
      BY <1>1, <3>1, RestoreFound
  <2>4. IsState(off) /\ Held(off) /\ off.fg = None
    <3> HIDE DEF fresh
    <3>1. IsState(fresh)
      BY <2>2 DEF Found
    <3>2. IsState(closed) /\ NoLanes(closed)
      BY <2>2, <3>1, CloseSessionEffect
    <3> HIDE DEF closed
    <3>3. IsState(off) /\ Released(off) /\ Around(closed, off)
      BY <3>2, RestoreEffect
    <3>4. QED
      BY <3>2, <3>3 DEF Held, Released, NoLanes, Around
  <2>5. g' = Publish(off, F, frame, proposal) /\ pc' = "idle"
    BY <2>1 DEF OffTick
  <2>6. Found(off, b, Place(there.mode, there.key, None))
    <3> HIDE DEF off, there
    <3>1. "floor" \notin b => off.floor = {}
      BY <2>3, <2>4 DEF Found
    <3>2. QED
      BY <2>3, <3>1, NoFloorMoves
  <2>7. there.key = NoKey
    BY DEF Place
  <2> HIDE DEF off, frame, there
  <2>8. Found(g', b, Place(there.mode, there.key, None)) /\ Held(g')
    BY <1>1, <2>4, <2>5, <2>6, PublishFound, PublishHeld
  <2>9. InPlace(g', b)
    BY <2>7, <2>8, FoundInPlace DEF Place, NoKey
  <2>10. QED
    BY <2>5, <2>8, <2>9
<1>3. CASE \E mode \in Modes \ {"off"}, persona \in Personas : BeginTick(mode, persona, F)
  <2>1. PICK mode \in Modes \ {"off"}, persona \in Personas :
          g' = Refresh(g, F, mode, persona) /\ pc' = "sampling"
    BY <1>3 DEF BeginTick
  <2>2. InPlace(g', b) /\ Held(g') /\ g'.mode = mode
    BY <1>1, <2>1, RefreshFound, RefreshHeld
  <2>3. mode \in AllModes \ {"off"}
    BY <2>1, GovernorAssumption DEF GovernorAssumption
  <2>4. QED
    BY <2>1, <2>2, <2>3
<1>4. CASE SampleAndApply(F)
  <2>1. PICK game, frame, active, proposal :
          \E d \in Decisions(game) :
            EndTick(game, frame, d.intent, active, d.action, d.lanes, proposal, F)
    BY <1>4 DEF SampleAndApply
  <2>2. PICK d \in Decisions(game) :
          EndTick(game, frame, d.intent, active, d.action, d.lanes, proposal, F)
    BY <2>1
  <2>3. g.mode \in AllModes \ {"off"}
    BY <1>4 DEF SampleAndApply, IInv
  <2> DEFINE context == PrepareContext(g, F, game, frame.target.fps)
             ready   == [context EXCEPT !.sampled = TRUE]
             boosted == [ready EXCEPT !.boost = active]
             balanced == ApplyTargetBalance(boosted, F, Boosted(d.intent, active), d.lanes, game)
             other == ApplyOther(ready, F, d.action)
             done == IF g.mode = "target-balance" THEN balanced ELSE other
             at == Place(context.mode, context.key, context.key.game)
  <2>4. /\ Found(context, b, at) /\ Held(context) /\ (game # None => context.session)
        /\ at.mode = g.mode /\ at.game = game /\ at.key.game = game
    <3>1. /\ InPlace(context, b) /\ context.mode = g.mode /\ context.key.game = game
          /\ Held(context) /\ (game # None => context.session)
      BY <1>1, PrepareContextFound, PrepareContextHeld
    <3> HIDE DEF context
    <3>2. QED
      BY <3>1 DEF InPlace, Place
  <2> HIDE DEF at
  <2>5. /\ Found(ready, b, at) /\ Found(boosted, b, at)
        /\ Held(ready) /\ (game # None => ready.session)
    <3> HIDE DEF context
    <3>1. Found(ready, b, at)
      BY <2>4 DEF Found, IsState, Fields, CpuFound, GpuFound
    <3>2. Held(ready) /\ (game # None => ready.session)
      BY <2>4 DEF Found, IsState, Fields, Held, NoLanes
    <3> HIDE DEF ready
    <3>3. Found(boosted, b, at)
      BY <3>1 DEF Found, IsState, Fields, CpuFound, GpuFound
    <3>4. QED
      BY <3>1, <3>2, <3>3
  <2>6. Found(balanced, b, at) /\ Found(other, b, at)
    BY <1>1, <2>4, <2>5, ApplyTargetBalanceFound, ApplyOtherFound
  <2>7. CASE g.mode = "target-balance"
    <3>1. done = balanced /\ balanced.mode = "target-balance"
      BY <2>4, <2>6, <2>7 DEF Found
    <3> HIDE DEF done, balanced
    <3>2. Found(done, b, at) /\ IsState(done) /\ Held(done)
      BY <2>6, <3>1 DEF Found, Held
    <3> USE DEF done, balanced
    <3>3. g' = Publish(done, F, frame, proposal) /\ pc' = "idle"
      BY <2>2 DEF EndTick
    <3> HIDE DEF done
    <3>4. Found(g', b, at) /\ Held(g')
      BY <1>1, <3>2, <3>3, PublishFound, PublishHeld
    <3>5. QED
      BY <2>4, <3>3, <3>4, FoundInPlace
  <2>8. CASE g.mode # "target-balance"
    <3>1. d.action \notin {"idle", "restore"} => g.mode = "gpu-priority" /\ game # None
      BY <2>2, <2>3, <2>8 DEF Decisions, AllModes
    <3>2. IsState(ready) /\ ready.mode = g.mode
      BY <2>4, <2>5 DEF Found
    <3>3. Held(other)
      <4> HIDE DEF ready
      <4>1. QED
        BY <2>5, <2>8, <3>1, <3>2, ApplyOtherHeld
    <3>4. done = other
      BY <2>8
    <3> HIDE DEF done, other
    <3>5. Found(done, b, at) /\ IsState(done) /\ Held(done)
      BY <2>6, <3>3, <3>4 DEF Found
    <3> USE DEF done, other
    <3>6. g' = Publish(done, F, frame, proposal) /\ pc' = "idle"
      BY <2>2 DEF EndTick
    <3> HIDE DEF done
    <3>7. Found(g', b, at) /\ Held(g')
      BY <1>1, <3>5, <3>6, PublishFound, PublishHeld
    <3>8. QED
      BY <2>4, <3>6, <3>7, FoundInPlace
  <2>9. QED
    BY <2>7, <2>8
<1>5. CASE FastBoost(F)
  <2> DEFINE boosted == [g EXCEPT !.boost = TRUE]
             cpuDone == ApplyCpu(boosted, F, BoostIntent)
  <2>1. Found(boosted, b, m)
    BY <1>1 DEF Found, IsState, Fields, CpuFound, GpuFound
  <2>2. Found(cpuDone, b, m) /\ Found(ApplyGpuAndSoft(cpuDone, F, BoostIntent), b, m)
    BY <1>1, <2>1, ApplyCpuFound, ApplyGpuAndSoftFound
  <2>3. Found(g', b, m)
    BY <1>5, <2>1, <2>2 DEF FastBoost
  <2>4. g'.mode = "target-balance" /\ pc' = "idle"
    BY <1>5, <1>m, <2>3 DEF FastBoost, Found
  <2>5. QED
    BY <1>m, <2>3, <2>4, FoundInPlace DEF Held
<1>6. CASE FastBoostEnds(F)
  <2>1. Found([g EXCEPT !.boost = FALSE], b, m)
    BY <1>1 DEF Found, IsState, Fields, CpuFound, GpuFound
  <2>2. Found(g', b, m)
    BY <1>1, <1>6, <2>1, RestoreFound DEF FastBoostEnds
  <2>3. g'.mode = "target-balance" /\ pc' = "idle"
    BY <1>6, <1>m, <2>2 DEF FastBoostEnds, Found
  <2>4. QED
    BY <1>m, <2>2, <2>3, FoundInPlace DEF Held
<1>7. CASE Close(F)
  <2> DEFINE closed == CloseSession(g, F)
             freed == RestoreLanes(closed, F)
             gone == Place(m.mode, NoKey, None)
  <2>1. /\ Found(freed, b, gone)
        /\ "floor" \notin b => freed.floor = {}
        /\ "shape" \notin b => ~ freed.shaped
    BY <1>1, ReleasedLanesFound
  <2>2. g' = Restore(freed, F) /\ pc' = "closed"
    BY <1>7 DEF Close
  <2>3. gone.mode = g.mode /\ gone.key.game = None /\ gone.game = None
    BY <1>m DEF Place, NoKey
  <2>4. IsState(closed) /\ (g.mode # "target-balance" => NoLanes(closed))
    BY <1>1, CloseSessionEffect
  <2>5. IsState(freed) /\ (g.mode # "target-balance" => NoLanes(freed))
    <3> HIDE DEF closed
    <3>1. QED
      BY <2>4, RestoreLanesEffect
  <2> HIDE DEF freed, gone
  <2>6. Found(g', b, gone)
    BY <1>1, <2>1, <2>2, RestoreFound
  <2>7. Released(g') /\ Around(freed, g') /\ ("cap" \notin F => g'.cap = NoFps)
    BY <2>2, <2>5, RestoreEffect
  <2>8. Held(g')
    BY <2>3, <2>5, <2>6, <2>7 DEF Found, Held, Released, NoLanes, Around
  <2>9. Gone'
    BY <1>1, <2>1, <2>7 DEF Gone, Released, Around, b
  <2>10. QED
    BY <2>2, <2>3, <2>6, <2>8, <2>9, FoundInPlace
<1>8. QED
  BY <1>2, <1>3, <1>4, <1>5, <1>6, <1>7 DEF Tick

LEMMA NextIInv == IInv /\ [Next]_vars => IInv'
<1> SUFFICES ASSUME IInv, [Next]_vars PROVE IInv'
  OBVIOUS
<1>1. CASE SliderWrite
  BY <1>1 DEF SliderWrite, IInv, InPlace, Place, Found, IsState, Fields, CpuFound, GpuFound, Held,
     NoLanes, Gone, Released
<1>2. CASE \E game \in Games : GameStarts(game) \/ GameExits(game)
  BY <1>2 DEF GameStarts, GameExits, IInv, InPlace, Place, Found, IsState, Fields, CpuFound, GpuFound,
     Held, NoLanes, Gone, Released
<1>3. CASE UNCHANGED vars
  BY <1>3 DEF vars, IInv, InPlace, Place, Found, IsState, CpuFound, GpuFound, Held, NoLanes, Gone, Released
<1>4. CASE \E F : Tick(F)
  BY <1>4, TickIInv
<1>5. QED
  BY <1>1, <1>2, <1>3, <1>4 DEF Next, Tick

LEMMA Invariance == Spec => []IInv
BY InitIInv, NextIInv, PTL DEF Spec

(* GamePowerGovernor: for every set of games, modes, intents and lanes, and *)
(* whatever fails, a snapshot is of the knob as it was found, as long as   *)
(* the restores of that knob have succeeded.                               *)
THEOREM SnapshotsAreBaseline == Spec => []SnapshotIsBaseline
<1>1. IInv => SnapshotIsBaseline
  BY DEF IInv, InPlace, Place, Found, CpuFound, GpuFound, SnapshotIsBaseline
<1>2. QED
  BY <1>1, Invariance, PTL

(* A mode that does not actuate, and a service that has stopped, holds     *)
(* nothing: every knob whose restore has not failed is as it was found.    *)
THEOREM UnmanagedRestored == Spec => []UnmanagedMeansRestored
<1>1. ASSUME IInv, g.mode \in {"off", "observe"} \/ pc = "closed"
      PROVE  KnobsAtBaseline
  <2>1. Released(g)
    BY <1>1 DEF IInv, Gone, Held, Released
  <2>2. "floor" \notin broken => g.floor = {}
    BY <1>1 DEF IInv, Gone, InPlace, Place, Found, Held, NoLanes
  <2>3. "shape" \notin broken => ~ g.shaped
    BY <1>1 DEF IInv, Gone, InPlace, Place, Found, Held, NoLanes
  <2>4. QED
    BY <1>1, <2>1, <2>2, <2>3 DEF IInv, InPlace, Place, Found, CpuFound, GpuFound, Released, KnobsAtBaseline
<1>2. IInv => UnmanagedMeansRestored
  BY <1>1 DEF IInv, Gone, UnmanagedMeansRestored
<1>3. QED
  BY <1>2, Invariance, PTL

(* ForegroundUclampMinWriter: the floor is under the game of the current   *)
(* context and under no other, as long as the lane has not failed.         *)
THEOREM FloorFollows == Spec => []FloorFollowsGame
<1>1. IInv => FloorFollowsGame
  BY DEF IInv, InPlace, Place, Found, FloorFollowsGame
<1>2. QED
  BY <1>1, Invariance, PTL

-----------------------------------------------------------------------------
(* What a restore may do to the knobs: nothing but take them back.         *)

KnobsBack(s, t) ==
  /\ IsState(t)
  /\ t.cpu \in {s.cpu, Mixed} \union ({s.cpuSnap} \ {None}) /\ t.cpuSnap \in {None, s.cpuSnap}
  /\ t.gpu \in {s.gpu, Mixed} \union ({s.gpuSnap} \ {None}) /\ t.gpuSnap \in {None, s.gpuSnap}
  /\ t.soft \in {s.soft, NoWatts}
  /\ t.floor \subseteq s.floor /\ (t.shaped => s.shaped)

Back(s, t) == KnobsBack(s, t) /\ t.cap \in {s.cap, NoFps}

(* ... and what a published tick may do besides.                           *)
CapFollows(s, t) ==
  \/ t.cap \in {s.cap, NoFps}
  \/ t.persona \in CapPersonas /\ t.cap \in {t.proposal, IdleFps}

Follows(s, t) == KnobsBack(s, t) /\ CapFollows(s, t)

Latches(s, t) == s.latched => t.latched

LEMMA BackTwice ==
  ASSUME NEW s, NEW t, NEW v, Back(s, t), Back(t, v)
  PROVE  Back(s, v)
BY DEF Back, KnobsBack

LEMMA BackFollows ==
  ASSUME NEW s, NEW t, Back(s, t)
  PROVE  Follows(s, t)
BY DEF Back, Follows, CapFollows

LEMMA BackThenFollows ==
  ASSUME NEW s, NEW t, NEW v, Back(s, t), Follows(t, v)
  PROVE  Follows(s, v)
BY DEF Back, KnobsBack, Follows, CapFollows

LEMMA RestoreBack ==
  ASSUME NEW s, NEW F, IsState(s)
  PROVE  Back(s, Restore(s, F)) /\ Latches(s, Restore(s, F))
<1> DEFINE capped == ClearCap(s, F)
           gpu    == RestoreGpu(capped, F)
           soft   == ClearSoft(gpu, F)
           cpu    == RestoreCpu(soft, F)
<1>1. Back(s, capped) /\ Latches(s, capped)
  BY DEF ClearCap, IsState, Fields, Back, KnobsBack, Latches
<1>2. Back(capped, gpu) /\ Latches(capped, gpu)
  <2> HIDE DEF capped
  <2>1. QED
    BY <1>1 DEF RestoreGpu, GpuBack, IsState, Fields, Back, KnobsBack, Latches
<1>3. Back(gpu, soft) /\ Latches(gpu, soft)
  <2> HIDE DEF gpu
  <2>1. QED
    BY <1>2 DEF ClearSoft, IsState, Fields, Back, KnobsBack, Latches
<1>4. Back(soft, cpu) /\ Latches(soft, cpu)
  <2> HIDE DEF soft
  <2>1. QED
    BY <1>3 DEF RestoreCpu, CpuBack, IsState, Fields, Back, KnobsBack, Latches
<1>5. Restore(s, F) = cpu
  BY DEF Restore
<1> HIDE DEF capped, gpu, soft, cpu
<1>6. Back(s, gpu) /\ Back(s, soft) /\ Back(s, cpu)
  BY <1>1, <1>2, <1>3, <1>4, BackTwice
<1>7. QED
  BY <1>1, <1>2, <1>3, <1>4, <1>5, <1>6 DEF Latches

LEMMA RestoreLanesBack ==
  ASSUME NEW s, NEW F, IsState(s)
  PROVE  Back(s, RestoreLanes(s, F)) /\ Latches(s, RestoreLanes(s, F))
<1> DEFINE floor == RestoreFloor(s, F)
           shape == RestoreShape(floor, F)
<1>1. Back(s, floor) /\ Latches(s, floor)
  BY DEF RestoreFloor, IsState, Fields, Back, KnobsBack, Latches
<1>2. Back(floor, shape) /\ Latches(floor, shape)
  <2> HIDE DEF floor
  <2>1. QED
    BY <1>1 DEF RestoreShape, IsState, Fields, Back, KnobsBack, Latches
<1>3. RestoreLanes(s, F) = shape
  BY DEF RestoreLanes
<1> HIDE DEF floor, shape
<1>4. QED
  BY <1>1, <1>2, <1>3, BackTwice DEF Latches

LEMMA CloseSessionBack ==
  ASSUME NEW s, NEW F, IsState(s)
  PROVE  Back(s, CloseSession(s, F)) /\ Latches(s, CloseSession(s, F))
<1> DEFINE t == IF s.session /\ s.cpuSnap # None THEN Restore(s, F) ELSE s
<1>1. Back(s, s) /\ Latches(s, s)
  BY DEF Back, KnobsBack, Latches
<1>2. Back(s, t) /\ Latches(s, t)
  BY <1>1, RestoreBack
<1>3. CloseSession(s, F) = [t EXCEPT !.session = FALSE, !.key = NoKey]
  BY DEF CloseSession
<1> HIDE DEF t
<1>4. QED
  BY <1>2, <1>3 DEF IsState, Fields, Back, KnobsBack, Latches

(* A closed session with its lanes.                                        *)
LEMMA ReleasedLanesBack ==
  ASSUME NEW s, NEW F, IsState(s)
  PROVE  LET t == RestoreLanes(CloseSession(s, F), F)
         IN  IsState(t) /\ Back(s, t) /\ Latches(s, t)
<1>1. IsState(CloseSession(s, F))
  BY CloseSessionBack DEF Back, KnobsBack
<1>2. QED
  BY <1>1, CloseSessionBack, RestoreLanesBack, BackTwice DEF Latches, Back, KnobsBack

LEMMA RefreshBack ==
  ASSUME NEW s, NEW F, NEW mode, NEW persona, IsState(s)
  PROVE  Back(s, Refresh(s, F, mode, persona))
<1> DEFINE freed == RestoreLanes(CloseSession(s, F), F)
           clean == IF \/ s.mode = "target-balance" \/ freed.applied # NoIntent
                       \/ freed.gpuSnap # None \/ freed.softApplied # NoWatts
                    THEN Restore(freed, F) ELSE freed
           lanes == RestoreLanes(clean, F)
           reset == ResetWriter(clean, F)
           new   == [reset EXCEPT !.mode = mode, !.persona = persona,
                                  !.boost = FALSE, !.latched = FALSE]
<1>1. IsState(freed) /\ Back(s, freed)
  BY ReleasedLanesBack
<1>2. IsState(clean) /\ Back(s, clean)
  <2>1. Back(freed, Restore(freed, F)) /\ IsState(Restore(freed, F))
    BY <1>1, RestoreBack DEF Back, KnobsBack
  <2> HIDE DEF freed
  <2>2. QED
    BY <1>1, <2>1, BackTwice
<1>3. IsState(lanes) /\ Back(s, lanes)
  <2> HIDE DEF clean
  <2>1. Back(clean, lanes)
    BY <1>2, RestoreLanesBack
  <2>2. QED
    BY <1>2, <2>1, BackTwice DEF Back, KnobsBack
<1>4. new = [lanes EXCEPT !.fg = None, !.bg = FALSE,
                          !.floorFailed = FALSE, !.shapeFailed = FALSE,
                          !.mode = mode, !.persona = persona,
                          !.boost = FALSE, !.latched = FALSE]
  BY DEF ResetWriter
<1>5. Refresh(s, F, mode, persona) = IF mode = s.mode /\ persona = s.persona THEN s ELSE new
  BY DEF Refresh
<1>6. Back(s, new)
  <2> HIDE DEF lanes, new
  <2>1. QED
    BY <1>3, <1>4 DEF IsState, Fields, Back, KnobsBack
<1> HIDE DEF new
<1>7. Back(s, s)
  BY DEF Back, KnobsBack
<1>8. QED
  BY <1>5, <1>6, <1>7

LEMMA PublishFollows ==
  ASSUME NEW s, NEW F, NEW frame, NEW proposal, IsState(s)
  PROVE  Follows(s, Publish(s, F, frame, proposal))
<1> DEFINE told == IF proposal = NoFps THEN s ELSE [s EXCEPT !.proposal = proposal]
<1>1. IsState(told) /\ Back(s, told)
  BY DEF IsState, Fields, Back, KnobsBack
<1>2. ASSUME NEW t, IsState(t) PROVE Follows(t, FrameCap(t, F, frame))
  <2>1. ASSUME t.persona \in CapPersonas, NEW fps \in {t.proposal, IdleFps}
        PROVE  Follows(t, WriteCap(t, F, fps))
    BY <1>2, <2>1 DEF WriteCap, IsState, Fields, Follows, KnobsBack, CapFollows
  <2>2. Follows(t, ClearCap(t, F)) /\ Follows(t, t)
    BY <1>2 DEF ClearCap, IsState, Fields, Follows, KnobsBack, CapFollows
  <2>3. QED
    BY <2>1, <2>2 DEF FrameCap
<1>3. QED
  <2> HIDE DEF told
  <2>1. Publish(s, F, frame, proposal) = FrameCap(told, F, frame)
    BY DEF Publish, told
  <2>2. QED
    BY <1>1, <1>2, <2>1, BackThenFollows

(* The second half of a tick, once latched.                                *)
LEMMA EndTickMoves ==
  ASSUME IsState(g), g.latched, NEW F, SampleAndApply(F)
  PROVE  Follows(g, g')
<1>1. PICK game, frame, intent, active, action, lanes, proposal :
        EndTick(game, frame, intent, active, action, lanes, proposal, F)
  BY DEF SampleAndApply
<1> DEFINE freed   == RestoreLanes(CloseSession(g, F), F)
           context == PrepareContext(g, F, game, frame.target.fps)
           ready   == [context EXCEPT !.sampled = TRUE]
           boosted == [ready EXCEPT !.boost = active]
           clean   == IF ready.applied # NoIntent \/ ready.gpuSnap # None
                                                  \/ ready.softApplied # NoWatts
                      THEN Restore(ready, F) ELSE ready
           done    == IF g.mode = "target-balance" THEN boosted ELSE clean
<1>2. Back(g, context) /\ context.latched
  <2> DEFINE key == IF game = None THEN NoKey
                    ELSE [game |-> game, pl1 |-> g.soft, fps |-> frame.target.fps]
             new == [freed EXCEPT !.key = key, !.session = (key # NoKey)]
  <2>1. IsState(freed) /\ Back(g, freed) /\ freed.latched
    BY ReleasedLanesBack DEF Latches
  <2>2. context = IF key = g.key THEN g ELSE new
    BY DEF PrepareContext
  <2>3. Back(g, new) /\ new.latched
    <3> HIDE DEF freed, key
    <3>1. QED
      BY <2>1 DEF IsState, Fields, Back, KnobsBack
  <2>4. Back(g, g)
    BY DEF Back, KnobsBack
  <2> HIDE DEF new, key, context
  <2>5. QED
    BY <2>2, <2>3, <2>4
<1>3. /\ Back(g, ready) /\ ready.latched /\ IsState(ready)
      /\ Back(g, boosted) /\ boosted.latched
  <2> HIDE DEF context
  <2>1. QED
    BY <1>2 DEF IsState, Fields, Back, KnobsBack
<1>4. Back(g, clean) /\ clean.latched
  <2> HIDE DEF ready
  <2>1. Back(ready, Restore(ready, F)) /\ Restore(ready, F).latched
    BY <1>3, RestoreBack DEF Latches
  <2>2. QED
    BY <1>3, <2>1, BackTwice
<1>5. g' = Publish(done, F, frame, proposal)
  <2>1. ApplyTargetBalance(boosted, F, Boosted(intent, active), lanes, game) = boosted
    BY <1>3 DEF ApplyTargetBalance
  <2>2. ApplyOther(ready, F, action) = clean
    BY <1>4 DEF ApplyOther
  <2>3. QED
    BY <1>1, <2>1, <2>2 DEF EndTick
<1>6. IsState(done) /\ Back(g, done)
  <2> HIDE DEF boosted, clean
  <2>1. QED
    BY <1>3, <1>4 DEF Back, KnobsBack
<1> HIDE DEF done
<1>7. QED
  BY <1>5, <1>6, PublishFollows, BackThenFollows

(* _apply_decision and the fast lane: between a failed write and the next  *)
(* configuration no knob the latch guards moves anywhere but back, and the *)
(* frame cap, which _maybe_apply_frame_cap writes without asking the       *)
(* latch, is lifted or follows the proposal or the idle cap.               *)
THEOREM LatchHolds == Spec => LatchStopsWrites
<1>1. ASSUME IInv, [Next]_vars, g.latched PROVE OnlyRestores
  <2>1. IsState(g)
    BY <1>1 DEF IInv, InPlace, Found
  <2>2. ASSUME Follows(g, g') PROVE OnlyRestores
    BY <2>2 DEF Follows, KnobsBack, CapFollows, OnlyRestores
  <2>3. CASE SliderWrite
    BY <2>1, <2>3 DEF SliderWrite, IsState, Fields, OnlyRestores
  <2>4. CASE \E game \in Games : GameStarts(game) \/ GameExits(game)
    BY <2>1, <2>4 DEF GameStarts, GameExits, IsState, Fields, OnlyRestores
  <2>5. CASE UNCHANGED vars
    BY <2>5 DEF vars, OnlyRestores
  <2>6. ASSUME NEW F, Tick(F) PROVE Follows(g, g')
    <3>1. CASE \E persona \in Personas, proposal \in Proposals \union {NoFps} :
                 OffTick(persona, proposal, F)
      <4>1. PICK persona, proposal : OffTick(persona, proposal, F)
        BY <3>1
      <4> DEFINE fresh == Refresh(g, F, "off", persona)
                 closed == CloseSession(fresh, F)
                 off == Restore(closed, F)
      <4>2. Back(g, fresh) /\ IsState(fresh)
        BY <2>1, RefreshBack DEF Back, KnobsBack
      <4> HIDE DEF fresh
      <4>3. Back(g, closed) /\ IsState(closed)
        BY <4>2, CloseSessionBack, BackTwice DEF Back, KnobsBack
      <4> HIDE DEF closed
      <4>4. Back(g, off) /\ IsState(off)
        BY <4>3, RestoreBack, BackTwice DEF Back, KnobsBack
      <4> DEFINE frame == [target |-> NoTarget, idle |-> FALSE]
      <4>5. g' = Publish(off, F, frame, proposal)
        BY <4>1 DEF OffTick, fresh, closed
      <4> HIDE DEF off, frame
      <4>6. QED
        BY <4>4, <4>5, PublishFollows, BackThenFollows
    <3>2. CASE \E mode \in Modes \ {"off"}, persona \in Personas : BeginTick(mode, persona, F)
      BY <2>1, <3>2, RefreshBack, BackFollows DEF BeginTick
    <3>3. CASE SampleAndApply(F)
      BY <1>1, <2>1, <3>3, EndTickMoves
    <3>4. CASE FastBoost(F)
      BY <1>1, <2>1, <3>4 DEF FastBoost, IsState, Fields, Follows, KnobsBack, CapFollows
    <3>5. CASE FastBoostEnds(F)
      <4> DEFINE ended == [g EXCEPT !.boost = FALSE]
      <4>1. Back(g, ended) /\ IsState(ended)
        BY <2>1 DEF IsState, Fields, Back, KnobsBack
      <4>2. g' = Restore(ended, F)
        BY <3>5 DEF FastBoostEnds
      <4> HIDE DEF ended
      <4>3. QED
        BY <4>1, <4>2, RestoreBack, BackTwice, BackFollows
    <3>6. CASE Close(F)
      <4> DEFINE freed == RestoreLanes(CloseSession(g, F), F)
      <4>1. Back(g, freed) /\ IsState(freed)
        BY <2>1, ReleasedLanesBack
      <4>2. g' = Restore(freed, F)
        BY <3>6 DEF Close
      <4> HIDE DEF freed
      <4>3. QED
        BY <4>1, <4>2, RestoreBack, BackTwice, BackFollows
    <3>7. QED
      BY <2>6, <3>1, <3>2, <3>3, <3>4, <3>5, <3>6 DEF Tick
  <2>7. CASE \E F : Tick(F)
    BY <2>2, <2>6, <2>7
  <2>8. QED
    BY <1>1, <2>3, <2>4, <2>5, <2>7 DEF Next, Tick
<1>2. IInv /\ [Next]_vars => [g.latched /\ g'.latched => OnlyRestores]_vars
  BY <1>1
<1>3. QED
  BY <1>2, Invariance, PTL DEF Spec, LatchStopsWrites

-----------------------------------------------------------------------------
(* What the governor believes.  The fields stay in their ranges, and what  *)
(* the governor believes applied is not contradicted by the knob: this is  *)
(* what a boost rests on, for an intent that is believed applied is not    *)
(* written again.                                                          *)

Actuations == {NoIntent, BoostIntent} \union {Wish(i) : i \in Intents}
CpuStates == {Baseline, Mixed, "capped", "perf", "epp"}
GpuStates == {Baseline, Mixed, "capped", "floored"}
Snaps == {None, Baseline, Mixed}

(* The ranges of the governor's fields.                                    *)
States ==
  [mode : Modes, persona : Personas, cpu : CpuStates, gpu : GpuStates, soft : Nat,
   floor : SUBSET running, shaped : BOOLEAN, cap : Proposals \union {IdleFps, NoFps},
   cpuSnap : Snaps, applied : Actuations, gpuSnap : Snaps, caps : GpuWishes,
   gpuLatched : BOOLEAN, softApplied : Nat, fg : Games \union {None}, bg : BOOLEAN,
   floorFailed : BOOLEAN, shapeFailed : BOOLEAN, latched : BOOLEAN, boost : BOOLEAN,
   sampled : BOOLEAN, key : [game : Games \union {None}, pl1 : Nat, fps : Nat],
   session : BOOLEAN, proposal : Proposals \union {NoFps}]

(* A knob without a snapshot carries nothing of ours but what a failed     *)
(* write left, and an actuation believed applied has its snapshot.         *)
Linked(s) ==
  /\ s.cpuSnap = None => s.cpu \in {Baseline, Mixed}
  /\ s.gpuSnap = None => s.gpu \in {Baseline, Mixed}
  /\ s.applied # NoIntent => s.cpuSnap # None
  /\ s.session <=> s.key # NoKey

(* What the governor believes applied is not contradicted by the knob.     *)
CpuBelieved(s) == s.applied = BoostIntent => s.cpu # "capped"
GpuBelieved(s) == s.caps = "floored" => s.gpu # "capped"

Typed(s) == s \in States /\ Linked(s)
Sound(s) == Typed(s) /\ CpuBelieved(s) /\ GpuBelieved(s)

(* t is s but for the fields in X.                                         *)
Same(s, t, X) == \A x \in Fields \ X : t[x] = s[x]

(* A record with two fields set is a state that differs there alone.       *)
LEMMA RestoredCpu ==
  ASSUME NEW s \in States, NEW k \in CpuStates, NEW l \in BOOLEAN
  PROVE  LET t == [s EXCEPT !.cpu = k, !.latched = l] IN
         t \in States /\ t.cpu = k /\ t.latched = l /\ Same(s, t, {"cpu", "latched"})
BY DEF States, Same, Fields

(* A restore leaves the knob as found or mixed, and the rest alone.        *)
LEMMA CpuBackTyped ==
  ASSUME NEW s, NEW F, Typed(s), s.cpuSnap # None
  PROVE  LET t == CpuBack(s, F) IN
         /\ Typed(t) /\ t.cpu \in {Baseline, Mixed}
         /\ Same(s, t, {"cpu", "latched"})
<1> DEFINE t == CpuBack(s, F)
<1>1. s \in States /\ s.cpuSnap \in {Baseline, Mixed} /\ s.latched \in BOOLEAN
  BY DEF Typed, States, Snaps
<1>2. PICK k \in {Baseline, Mixed}, l \in BOOLEAN : t = [s EXCEPT !.cpu = k, !.latched = l]
  <2>1. [s EXCEPT !.cpu = s.cpuSnap] = [s EXCEPT !.cpu = s.cpuSnap, !.latched = s.latched]
    BY <1>1 DEF States
  <2>2. QED
    BY <1>1, <2>1 DEF CpuBack
<1>3. k \in CpuStates
  BY <1>2 DEF CpuStates
<1> HIDE DEF t
<1>4. t \in States /\ t.cpu = k /\ Same(s, t, {"cpu", "latched"})
  BY <1>1, <1>2, <1>3, RestoredCpu
<1>5. Linked(t)
  BY <1>2, <1>4 DEF Same, Fields, Linked, Typed
<1>6. QED
  BY <1>2, <1>4, <1>5 DEF t, Typed

(* What the constants say of actuations, snapshots and keys.               *)
LEMMA Constants ==
  /\ None \notin {Baseline, Mixed, "capped", "perf", "epp", "floored"}
  /\ NoIntent # BoostIntent /\ NoIntent \in Actuations /\ BoostIntent \in Actuations
  /\ BoostIntent.cpu = "perf" /\ BoostIntent.gpu = "floored" /\ BoostIntent.soft = NoWatts
  /\ \A i \in Actuations : i.cpu \in CpuWishes /\ i.gpu \in GpuWishes /\ i.soft \in Nat
  /\ NoKey \in [game : Games \union {None}, pl1 : Nat, fps : Nat]
<1>1. /\ NoIntent.neutral = TRUE /\ BoostIntent.neutral = FALSE
      /\ NoIntent.cpu = None /\ NoIntent.gpu = None /\ NoIntent.soft = 0
      /\ BoostIntent.cpu = "perf" /\ BoostIntent.gpu = "floored" /\ BoostIntent.soft = 0
  BY DEF NoIntent, BoostIntent, Wish, NoWatts
<1>2. \A i \in Intents : Wish(i).cpu \in CpuWishes /\ Wish(i).gpu \in GpuWishes
                          /\ Wish(i).soft \in Nat
  BY GovernorAssumption DEF GovernorAssumption, Wish
<1>3. NoKey \in [game : Games \union {None}, pl1 : Nat, fps : Nat]
  BY DEF NoKey, NoWatts, NoFps
<1>4. None \notin {Baseline, Mixed, "capped", "perf", "epp", "floored"}
  BY DEF None, Baseline, Mixed
<1>. QED
  BY <1>1, <1>2, <1>3, <1>4 DEF Actuations, CpuWishes, GpuWishes, NoWatts

-----------------------------------------------------------------------------
(* One lemma per operator: fields stay in range, and only its own move.    *)
LEMMA ClearCapTyped ==
  ASSUME NEW s, NEW F, Typed(s)
  PROVE  Typed(ClearCap(s, F)) /\ Same(s, ClearCap(s, F), {"cap"})
<1> DEFINE t == [s EXCEPT !.cap = NoFps]
<1>1. t \in States /\ Same(s, t, {"cap"})
  BY DEF Typed, States, Same, Fields
<1> HIDE DEF t
<1>2. Typed(t)
  BY <1>1 DEF Typed, Linked, Same, Fields
<1>3. QED
  BY <1>1, <1>2 DEF ClearCap, t, Same

(* The same of the GPU.                                                    *)
LEMMA RestoredGpu ==
  ASSUME NEW s \in States, NEW k \in GpuStates, NEW l \in BOOLEAN
  PROVE  LET t == [s EXCEPT !.gpu = k, !.latched = l] IN
         t \in States /\ t.gpu = k /\ t.latched = l /\ Same(s, t, {"gpu", "latched"})
BY DEF States, Same, Fields

(* The envelope, too, comes back as found or mixed.                        *)
LEMMA GpuBackTyped ==
  ASSUME NEW s, NEW F, Typed(s), s.gpuSnap # None
  PROVE  LET t == GpuBack(s, F) IN
         /\ Typed(t) /\ t.gpu \in {Baseline, Mixed}
         /\ Same(s, t, {"gpu", "latched"})
<1> DEFINE t == GpuBack(s, F)
<1>1. s \in States /\ s.gpuSnap \in {Baseline, Mixed} /\ s.latched \in BOOLEAN
  BY DEF Typed, States, Snaps
<1>2. PICK k \in {Baseline, Mixed}, l \in BOOLEAN : t = [s EXCEPT !.gpu = k, !.latched = l]
  <2>1. [s EXCEPT !.gpu = s.gpuSnap] = [s EXCEPT !.gpu = s.gpuSnap, !.latched = s.latched]
    BY <1>1 DEF States
  <2>2. QED
    BY <1>1, <2>1 DEF GpuBack
<1>3. k \in GpuStates
  BY <1>2 DEF GpuStates
<1> HIDE DEF t
<1>4. t \in States /\ t.gpu = k /\ Same(s, t, {"gpu", "latched"})
  BY <1>1, <1>2, <1>3, RestoredGpu
<1>5. Linked(t)
  BY <1>2, <1>4 DEF Same, Fields, Linked, Typed
<1>6. QED
  BY <1>2, <1>4, <1>5 DEF t, Typed

(* Taken back, the envelope carries no cap.                                *)
LEMMA RestoreGpuTyped ==
  ASSUME NEW s, NEW F, Typed(s)
  PROVE  LET t == RestoreGpu(s, F) IN
         /\ Typed(t) /\ t.gpu \in {Baseline, Mixed}
         /\ Same(s, t, {"gpu", "latched", "gpuSnap", "caps"})
<1>1. CASE s.gpuSnap = None
  BY <1>1 DEF RestoreGpu, Typed, Linked, Same
<1>2. CASE s.gpuSnap # None
  <2> DEFINE u == GpuBack(s, F)
             t == [u EXCEPT !.gpuSnap = None, !.caps = None]
  <2>1. Typed(u) /\ u.gpu \in {Baseline, Mixed} /\ Same(s, u, {"gpu", "latched"})
    BY <1>2, GpuBackTyped
  <2>2. RestoreGpu(s, F) = t
    BY <1>2 DEF RestoreGpu
  <2> HIDE DEF u
  <2>3. t \in States /\ Same(u, t, {"gpuSnap", "caps"})
    BY <2>1 DEF Typed, States, Same, Fields, Snaps, GpuWishes
  <2> HIDE DEF t
  <2>4. Linked(t) /\ t.gpu \in {Baseline, Mixed}
    BY <2>1, <2>3 DEF Typed, Linked, Same, Fields
  <2>5. Same(s, t, {"gpu", "latched", "gpuSnap", "caps"})
    BY <2>1, <2>3 DEF Same
  <2>6. QED
    BY <2>2, <2>3, <2>4, <2>5 DEF Typed
<1>3. QED
  BY <1>1, <1>2

(* Clearing the overlay moves PL1 and what is believed of it.              *)
LEMMA ClearSoftTyped ==
  ASSUME NEW s, NEW F, Typed(s)
  PROVE  LET t == ClearSoft(s, F) IN
         Typed(t) /\ Same(s, t, {"softApplied", "latched", "soft"})
<1> DEFINE t == [s EXCEPT !.softApplied = NoWatts, !.latched = TRUE]
           u == [s EXCEPT !.softApplied = NoWatts, !.soft = NoWatts]
<1>1. t \in States /\ Same(s, t, {"softApplied", "latched"})
  BY DEF Typed, States, Same, Fields, NoWatts
<1>2. u \in States /\ Same(s, u, {"softApplied", "soft"})
  BY DEF Typed, States, Same, Fields, NoWatts
<1>3. ClearSoft(s, F) \in {s, t, u}
  BY DEF ClearSoft
<1> HIDE DEF t, u
<1>4. Linked(t) /\ Linked(u)
  BY <1>1, <1>2 DEF Typed, Linked, Same, Fields
<1>5. QED
  BY <1>1, <1>2, <1>3, <1>4 DEF Typed, Same

(* Taken back, the policies carry no cap and no intent is believed.        *)
LEMMA RestoreCpuTyped ==
  ASSUME NEW s, NEW F, Typed(s)
  PROVE  LET t == RestoreCpu(s, F) IN
         /\ Typed(t) /\ t.cpu \in {Baseline, Mixed} /\ t.cpuSnap = None
         /\ t.applied = NoIntent
         /\ Same(s, t, {"cpu", "latched", "cpuSnap", "applied"})
<1>1. CASE s.cpuSnap = None
  BY <1>1 DEF RestoreCpu, Typed, Linked, Same
<1>2. CASE s.cpuSnap # None
  <2> DEFINE u == CpuBack(s, F)
             t == [u EXCEPT !.cpuSnap = None, !.applied = NoIntent]
  <2>1. Typed(u) /\ u.cpu \in {Baseline, Mixed} /\ Same(s, u, {"cpu", "latched"})
    BY <1>2, CpuBackTyped
  <2>2. RestoreCpu(s, F) = t
    BY <1>2 DEF RestoreCpu
  <2> HIDE DEF u
  <2>3. /\ t \in States /\ Same(u, t, {"cpuSnap", "applied"})
        /\ t.cpuSnap = None /\ t.applied = NoIntent
    BY <2>1, Constants DEF Typed, States, Same, Fields, Snaps
  <2> HIDE DEF t
  <2>4. Linked(t) /\ t.cpu \in {Baseline, Mixed}
    BY <2>1, <2>3 DEF Typed, Linked, Same, Fields
  <2>5. Same(s, t, {"cpu", "latched", "cpuSnap", "applied"})
    BY <2>1, <2>3 DEF Same
  <2>6. QED
    BY <2>2, <2>3, <2>4, <2>5 DEF Typed
<1>3. QED
  BY <1>1, <1>2

Knobs == {"cap", "gpu", "gpuSnap", "caps", "latched", "softApplied", "soft", "cpu",
          "cpuSnap", "applied", "gpuLatched"}
LaneFields == {"floor", "fg", "floorFailed", "shapeFailed", "bg", "shaped"}

(* A full restore makes every belief true, whatever it started from.       *)
LEMMA RestoreSound ==
  ASSUME NEW s, NEW F, Typed(s)
  PROVE  LET t == Restore(s, F) IN
         Sound(t) /\ t.applied = NoIntent /\ Same(s, t, Knobs)
<1> DEFINE a == ClearCap(s, F)  b == RestoreGpu(a, F)
           c == ClearSoft(b, F) t == RestoreCpu(c, F)
<1>1. Typed(a) /\ Same(s, a, {"cap"})
  BY ClearCapTyped
<1>2. Typed(b) /\ b.gpu \in {Baseline, Mixed} /\ Same(a, b, {"gpu", "latched", "gpuSnap", "caps"})
  <2> HIDE DEF a
  <2>1. QED
    BY <1>1, RestoreGpuTyped DEF b
<1>3. Typed(c) /\ Same(b, c, {"softApplied", "latched", "soft"})
  <2> HIDE DEF b
  <2>1. QED
    BY <1>2, ClearSoftTyped DEF c
<1>4. /\ Typed(t) /\ t.cpu \in {Baseline, Mixed} /\ t.applied = NoIntent
      /\ Same(c, t, {"cpu", "latched", "cpuSnap", "applied"})
  <2> HIDE DEF c
  <2>1. QED
    BY <1>3, RestoreCpuTyped DEF t
<1>5. Restore(s, F) = t
  BY DEF Restore
<1> HIDE DEF a, b, c, t
<1>6. t.gpu = b.gpu
  BY <1>3, <1>4 DEF Same, Fields
<1>7. CpuBelieved(t) /\ GpuBelieved(t)
  BY <1>2, <1>4, <1>6 DEF CpuBelieved, GpuBelieved, Baseline, Mixed
<1>8. Same(s, t, Knobs)
  BY <1>1, <1>2, <1>3, <1>4 DEF Same, Knobs
<1>9. QED
  BY <1>4, <1>5, <1>7, <1>8 DEF Sound

(* Fields that no lane is about.                                           *)
LEMMA LanesKeepSound ==
  ASSUME NEW s, NEW t \in States, Sound(s), Same(s, t, LaneFields)
  PROVE  Sound(t)
BY DEF Sound, Typed, Linked, CpuBelieved, GpuBelieved, Same, Fields, LaneFields

(* Restoring a lane moves the fields of the lanes alone.                   *)
LEMMA RestoreFloorSound ==
  ASSUME NEW s, NEW F, Sound(s)
  PROVE  LET t == RestoreFloor(s, F) IN Sound(t) /\ Same(s, t, LaneFields)
<1> DEFINE t == [s EXCEPT !.floorFailed = TRUE]
           u == [s EXCEPT !.floor = @ \ {s.fg}, !.fg = None]
<1>0. s \in States
  BY DEF Sound, Typed
<1>1. t \in States /\ Same(s, t, LaneFields)
  BY <1>0 DEF States, Same, Fields, LaneFields
<1>2. u \in States /\ Same(s, u, LaneFields)
  BY <1>0 DEF States, Same, Fields, LaneFields
<1>3. RestoreFloor(s, F) \in {s, t, u}
  BY DEF RestoreFloor
<1> HIDE DEF t, u
<1>4. QED
  BY <1>1, <1>2, <1>3, LanesKeepSound DEF Same

(* The same of the shaping lane.                                           *)
LEMMA RestoreShapeSound ==
  ASSUME NEW s, NEW F, Sound(s)
  PROVE  LET t == RestoreShape(s, F) IN Sound(t) /\ Same(s, t, LaneFields)
<1> DEFINE t == [s EXCEPT !.shapeFailed = TRUE]
           u == [s EXCEPT !.bg = FALSE, !.shaped = FALSE]
<1>0. s \in States
  BY DEF Sound, Typed
<1>1. t \in States /\ Same(s, t, LaneFields)
  BY <1>0 DEF States, Same, Fields, LaneFields
<1>2. u \in States /\ Same(s, u, LaneFields)
  BY <1>0 DEF States, Same, Fields, LaneFields
<1>3. RestoreShape(s, F) \in {s, t, u}
  BY DEF RestoreShape
<1> HIDE DEF t, u
<1>4. QED
  BY <1>1, <1>2, <1>3, LanesKeepSound DEF Same

(* The same of both.                                                       *)
LEMMA RestoreLanesSound ==
  ASSUME NEW s, NEW F, Sound(s)
  PROVE  LET t == RestoreLanes(s, F) IN Sound(t) /\ Same(s, t, LaneFields)
<1> DEFINE u == RestoreFloor(s, F)
<1>1. Sound(u) /\ Same(s, u, LaneFields)
  BY RestoreFloorSound
<1>2. RestoreLanes(s, F) = RestoreShape(u, F)
  BY DEF RestoreLanes
<1> HIDE DEF u
<1>3. QED
  BY <1>1, <1>2, RestoreShapeSound DEF Same

(* The same of the writer that forgets.                                    *)
LEMMA ResetWriterSound ==
  ASSUME NEW s, NEW F, Sound(s)
  PROVE  LET t == ResetWriter(s, F) IN Sound(t) /\ Same(s, t, LaneFields)
<1> DEFINE u == RestoreLanes(s, F)
           t == [u EXCEPT !.fg = None, !.bg = FALSE,
                          !.floorFailed = FALSE, !.shapeFailed = FALSE]
<1>1. Sound(u) /\ Same(s, u, LaneFields)
  BY RestoreLanesSound
<1>2. ResetWriter(s, F) = t
  BY DEF ResetWriter
<1> HIDE DEF u
<1>3. u \in States
  BY <1>1 DEF Sound, Typed
<1>4. t \in States /\ Same(u, t, LaneFields)
  BY <1>3 DEF States, Same, Fields, LaneFields
<1> HIDE DEF t
<1>5. QED
  BY <1>1, <1>2, <1>4, LanesKeepSound DEF Same

(* A refused write ends latched, believing nothing false.                  *)
LEMMA RestoreAndLatchSound ==
  ASSUME NEW s, NEW F, Typed(s)
  PROVE  LET t == RestoreAndLatch(s, F) IN Sound(t) /\ t.latched /\ Same(s, t, Knobs)
<1> DEFINE u == Restore(s, F)
           t == [u EXCEPT !.latched = TRUE]
<1>1. Sound(u) /\ Same(s, u, Knobs)
  BY RestoreSound
<1>2. RestoreAndLatch(s, F) = t
  BY DEF RestoreAndLatch
<1> HIDE DEF u
<1>3. u \in States
  BY <1>1 DEF Sound, Typed
<1>4. t \in States /\ t.latched /\ Same(u, t, {"latched"})
  BY <1>3 DEF States, Same, Fields
<1> HIDE DEF t
<1>5. Sound(t)
  BY <1>1, <1>4 DEF Sound, Typed, Linked, CpuBelieved, GpuBelieved, Same, Fields
<1>6. Same(s, t, Knobs)
  BY <1>1, <1>4 DEF Same, Knobs
<1>7. QED
  BY <1>2, <1>4, <1>5, <1>6

(* A closed session has no key.                                            *)
LEMMA CloseSessionSound ==
  ASSUME NEW s, NEW F, Sound(s)
  PROVE  LET t == CloseSession(s, F) IN
         /\ Sound(t) /\ ~ t.session /\ t.key = NoKey
         /\ Same(s, t, Knobs \union {"session", "key"})
<1> DEFINE u == IF s.session /\ s.cpuSnap # None THEN Restore(s, F) ELSE s
           t == [u EXCEPT !.session = FALSE, !.key = NoKey]
<1>1. Sound(u) /\ Same(s, u, Knobs)
  BY RestoreSound DEF Sound, Same
<1>2. CloseSession(s, F) = t
  BY DEF CloseSession
<1> HIDE DEF u
<1>3. u \in States
  BY <1>1 DEF Sound, Typed
<1>4. t \in States /\ ~ t.session /\ t.key = NoKey /\ Same(u, t, {"session", "key"})
  BY <1>3, Constants DEF States, Same, Fields
<1> HIDE DEF t
<1>5. Sound(t)
  BY <1>1, <1>4 DEF Sound, Typed, Linked, CpuBelieved, GpuBelieved, Same, Fields
<1>6. Same(s, t, Knobs \union {"session", "key"})
  BY <1>1, <1>4 DEF Same
<1>7. QED
  BY <1>2, <1>4, <1>5, <1>6

-----------------------------------------------------------------------------
(* The CPU under a decision.                                               *)

(* Before a write there is a snapshot, of a knob that carries no cap.      *)
LEMMA CpuPreparedTyped ==
  ASSUME NEW s, NEW F, Typed(s)
  PROVE  LET t == CpuPrepared(s, F) IN
         Typed(t) /\ t.cpuSnap # None /\ Same(s, t, {"cpu", "latched", "cpuSnap"})
<1>1. CASE s.cpuSnap = None
  <2> DEFINE t == [s EXCEPT !.cpuSnap = s.cpu]
  <2>1. s.cpu \in Snaps /\ s.cpu # None
    BY <1>1, Constants DEF Typed, Linked, Snaps
  <2>2. t \in States /\ t.cpuSnap = s.cpu /\ Same(s, t, {"cpuSnap"})
    BY <2>1 DEF Typed, States, Same, Fields
  <2>3. CpuPrepared(s, F) = t
    BY <1>1 DEF CpuPrepared
  <2> HIDE DEF t
  <2>4. Linked(t) /\ t.cpuSnap # None
    BY <2>1, <2>2 DEF Typed, Linked, Same, Fields
  <2>5. QED
    BY <2>2, <2>3, <2>4 DEF Typed, Same
<1>2. CASE s.cpuSnap # None
  <2>1. CpuPrepared(s, F) \in {s, CpuBack(s, F)}
    BY <1>2 DEF CpuPrepared
  <2>2. CpuBack(s, F).cpuSnap # None
    BY <1>2, CpuBackTyped DEF Same, Fields
  <2>3. QED
    BY <1>2, <2>1, <2>2, CpuBackTyped DEF Same
<1>3. QED
  BY <1>1, <1>2

(* A write gives the knob what was asked, or leaves it mixed.              *)
LEMMA CpuWrittenTyped ==
  ASSUME NEW s, NEW F, NEW wish \in CpuWishes, Typed(s), s.cpuSnap # None
  PROVE  LET t == CpuWritten(s, F, wish) IN
         /\ Typed(t) /\ (wish = "perf" => t.cpu \in {"perf", Mixed})
         /\ Same(s, t, {"cpu"})
<1>1. PICK k \in CpuStates : CpuWritten(s, F, wish) = [s EXCEPT !.cpu = k]
                             /\ (wish = "perf" => k \in {"perf", Mixed})
  <2>1. s.cpu \in CpuStates /\ s = [s EXCEPT !.cpu = s.cpu]
    BY DEF Typed, States
  <2>2. wish # None => wish \in CpuStates
    BY DEF CpuWishes, CpuStates
  <2>3. "perf" # None /\ Mixed \in CpuStates
    BY Constants DEF CpuStates
  <2>4. QED
    BY <2>1, <2>2, <2>3 DEF CpuWritten
<1> DEFINE t == [s EXCEPT !.cpu = k]
<1>2. t \in States /\ t.cpu = k /\ Same(s, t, {"cpu"})
  BY DEF Typed, States, Same, Fields
<1> HIDE DEF t
<1>3. Linked(t)
  BY <1>2 DEF Typed, Linked, Same, Fields
<1>4. QED
  BY <1>1, <1>2, <1>3 DEF t, Typed

(* What every write to a knob leaves alone.                                *)
Moved == Knobs \union LaneFields

(* Not latched, the intent is what is believed applied.                    *)
LEMMA ApplyCpuSound ==
  ASSUME NEW s, NEW F, NEW intent \in Actuations, Sound(s), ~ s.latched
  PROVE  LET t == ApplyCpu(s, F, intent) IN
         /\ Sound(t) /\ Same(s, t, Moved)
         /\ ~ t.latched => t.applied = intent \/ intent = NoIntent
<1> DEFINE prepared == CpuPrepared(s, F)
           written  == CpuWritten(prepared, F, intent.cpu)
           back     == CpuBack(s, F)
           undone   == RestoreAndLatch(written, F)
           freed    == RestoreLanes(undone, F)
           r == [back EXCEPT !.applied = NoIntent]
           t == [written EXCEPT !.applied = intent]
<1>1. /\ Typed(prepared) /\ prepared.cpuSnap # None
      /\ Same(s, prepared, {"cpu", "latched", "cpuSnap"})
  BY CpuPreparedTyped DEF Sound
<1>2. /\ Typed(written) /\ (intent.cpu = "perf" => written.cpu \in {"perf", Mixed})
      /\ Same(prepared, written, {"cpu"})
  <2> HIDE DEF prepared
  <2>1. QED
    BY <1>1, CpuWrittenTyped, Constants
<1>3. s.cpuSnap # None =>
        /\ Typed(back) /\ back.cpu \in {Baseline, Mixed} /\ Same(s, back, {"cpu", "latched"})
  BY CpuBackTyped DEF Sound
<1>4. Sound(undone) /\ undone.latched /\ Same(written, undone, Knobs)
  <2> HIDE DEF written
  <2>1. QED
    BY <1>2, RestoreAndLatchSound
<1>5. Sound(freed) /\ freed.latched /\ Same(undone, freed, LaneFields)
  <2> HIDE DEF undone
  <2>1. Sound(freed) /\ Same(undone, freed, LaneFields)
    BY <1>4, RestoreLanesSound
  <2> HIDE DEF freed
  <2>2. QED
    BY <1>4, <2>1 DEF Same, Fields, LaneFields
<1>6. CASE intent = NoIntent
  <2>1. ApplyCpu(s, F, intent) = IF s.cpuSnap # None /\ s.applied # NoIntent THEN r ELSE s
    BY <1>6 DEF ApplyCpu
  <2>2. CASE s.cpuSnap # None /\ s.applied # NoIntent
    <3> HIDE DEF back
    <3>1. r \in States /\ r.applied = NoIntent /\ Same(back, r, {"applied"})
      BY <1>3, <2>2, Constants DEF Typed, States, Same, Fields
    <3> HIDE DEF r
    <3>2. Linked(r) /\ CpuBelieved(r)
      BY <1>3, <2>2, <3>1, Constants DEF Typed, Linked, CpuBelieved, Same, Fields
    <3>3. GpuBelieved(r)
      BY <1>3, <2>2, <3>1 DEF Sound, GpuBelieved, Same, Fields
    <3>4. Same(s, r, Moved)
      BY <1>3, <2>2, <3>1 DEF Same, Moved, Knobs
    <3>5. QED
      BY <1>6, <2>1, <2>2, <3>1, <3>2, <3>3, <3>4 DEF Sound, Typed
  <2>3. CASE ~ (s.cpuSnap # None /\ s.applied # NoIntent)
    BY <1>6, <2>1, <2>3 DEF Same
  <2>4. QED
    BY <2>2, <2>3
<1>7. CASE intent # NoIntent /\ intent = s.applied /\ s.cpuSnap # None
  <2>1. ApplyCpu(s, F, intent) = s
    BY <1>7 DEF ApplyCpu
  <2>2. QED
    BY <1>7, <2>1 DEF Same
<1>8. CASE intent # NoIntent /\ ~ (intent = s.applied /\ s.cpuSnap # None)
  <2>1. ApplyCpu(s, F, intent) =
          IF prepared.latched \/ written.cpu = Mixed THEN freed ELSE t
    BY <1>8 DEF ApplyCpu
  <2>2. CASE prepared.latched \/ written.cpu = Mixed
    <3> HIDE DEF prepared, written, undone, freed
    <3>1. Same(s, freed, Moved)
      BY <1>1, <1>2, <1>4, <1>5 DEF Same, Moved, Knobs
    <3>2. QED
      BY <1>5, <2>1, <2>2, <3>1
  <2>3. CASE ~ (prepared.latched \/ written.cpu = Mixed)
    <3> HIDE DEF prepared, written
    <3>1. t \in States /\ t.applied = intent /\ Same(written, t, {"applied"})
      BY <1>2 DEF Typed, States, Same, Fields
    <3> HIDE DEF t
    <3>2. written.cpuSnap # None
      BY <1>1, <1>2 DEF Same, Fields
    <3>3. Linked(t)
      BY <1>2, <3>1, <3>2 DEF Typed, Linked, Same, Fields
    <3>4. CpuBelieved(t)
      BY <1>2, <2>3, <3>1, Constants DEF CpuBelieved, Same, Fields
    <3>5. t.gpu = s.gpu /\ t.caps = s.caps
      BY <1>1, <1>2, <3>1 DEF Same, Fields
    <3>6. GpuBelieved(t)
      BY <3>5 DEF Sound, GpuBelieved
    <3>7. Same(s, t, Moved)
      BY <1>1, <1>2, <3>1 DEF Same, Moved, Knobs
    <3>8. QED
      BY <2>1, <2>3, <3>1, <3>3, <3>4, <3>6, <3>7 DEF Sound, Typed
  <2>4. QED
    BY <2>2, <2>3
<1>9. QED
  BY <1>6, <1>7, <1>8

-----------------------------------------------------------------------------
(* The GPU and PL1 under a decision.                                       *)

(* Before a write there is a snapshot.                                     *)
LEMMA GpuPreparedTyped ==
  ASSUME NEW s, NEW F, Typed(s)
  PROVE  LET t == GpuPrepared(s, F) IN
         Typed(t) /\ t.gpuSnap # None /\ Same(s, t, {"gpu", "gpuSnap"})
<1>1. CASE s.gpuSnap = None
  <2> DEFINE t == [s EXCEPT !.gpuSnap = s.gpu]
  <2>1. s.gpu \in Snaps /\ s.gpu # None
    BY <1>1, Constants DEF Typed, Linked, Snaps
  <2>2. t \in States /\ t.gpuSnap = s.gpu /\ Same(s, t, {"gpuSnap"})
    BY <2>1 DEF Typed, States, Same, Fields
  <2>3. GpuPrepared(s, F) = t
    BY <1>1 DEF GpuPrepared
  <2> HIDE DEF t
  <2>4. Linked(t) /\ t.gpuSnap # None
    BY <2>1, <2>2 DEF Typed, Linked, Same, Fields
  <2>5. QED
    BY <2>2, <2>3, <2>4 DEF Typed, Same
<1>2. CASE s.gpuSnap # None
  <2> DEFINE u == GpuBack(s, F)
             t == [u EXCEPT !.latched = s.latched]
  <2>1. Typed(u) /\ Same(s, u, {"gpu", "latched"})
    BY <1>2, GpuBackTyped
  <2>2. GpuPrepared(s, F) = t
    BY <1>2 DEF GpuPrepared
  <2>3. s.latched \in BOOLEAN
    BY DEF Typed, States
  <2> HIDE DEF u
  <2>4. t \in States /\ t.latched = s.latched /\ Same(u, t, {"latched"})
    BY <2>1, <2>3 DEF Typed, States, Same, Fields
  <2> HIDE DEF t
  <2>5. Linked(t) /\ t.gpuSnap # None
    BY <1>2, <2>1, <2>4 DEF Typed, Linked, Same, Fields
  <2>6. Same(s, t, {"gpu", "gpuSnap"})
    BY <2>1, <2>4 DEF Same
  <2>7. QED
    BY <2>2, <2>4, <2>5, <2>6 DEF Typed
<1>3. QED
  BY <1>1, <1>2

(* A write that is not refused gives the envelope what was asked.          *)
LEMMA GpuWrittenTyped ==
  ASSUME NEW s, NEW F, NEW wish \in GpuWishes \ {None}, Typed(s), s.gpuSnap # None
  PROVE  LET t == GpuWritten(s, F, wish) IN
         /\ Typed(t) /\ (~ t.gpuLatched => t.gpu \in {wish, Mixed})
         /\ Same(s, t, {"gpu", "gpuLatched"})
<1>1. wish \in GpuStates /\ Mixed \in GpuStates
  BY DEF GpuWishes, GpuStates
<1>2. s \in States
  BY DEF Typed
<1>3. CASE s.gpuLatched
  BY <1>3 DEF GpuWritten, Same
<1>4. CASE ~ s.gpuLatched /\ "gpu-apply" \in F
  <2> DEFINE t == [s EXCEPT !.gpu = Mixed, !.gpuLatched = TRUE]
  <2>1. GpuWritten(s, F, wish) = t
    BY <1>4 DEF GpuWritten
  <2>2. t \in States /\ t.gpuLatched /\ Same(s, t, {"gpu", "gpuLatched"})
    BY <1>1, <1>2 DEF States, Same, Fields
  <2> HIDE DEF t
  <2>3. Linked(t)
    BY <2>2 DEF Typed, Linked, Same, Fields
  <2>4. QED
    BY <2>1, <2>2, <2>3 DEF Typed
<1>5. CASE ~ s.gpuLatched /\ "gpu-apply" \notin F
  <2> DEFINE k == IF s.gpu = Baseline THEN wish ELSE Mixed
             t == [s EXCEPT !.gpu = k]
  <2>1. GpuWritten(s, F, wish) = t
    BY <1>5 DEF GpuWritten
  <2>2. k \in GpuStates /\ k \in {wish, Mixed}
    BY <1>1
  <2> HIDE DEF k
  <2>3. t \in States /\ t.gpu = k /\ Same(s, t, {"gpu"})
    BY <1>2, <2>2 DEF States, Same, Fields
  <2> HIDE DEF t
  <2>4. Linked(t)
    BY <2>3 DEF Typed, Linked, Same, Fields
  <2>5. Same(s, t, {"gpu", "gpuLatched"})
    BY <2>3 DEF Same
  <2>6. QED
    BY <2>1, <2>2, <2>3, <2>4, <2>5 DEF Typed
<1>6. QED
  BY <1>3, <1>4, <1>5

(* Not latched, the wish is what is believed of the envelope.              *)
LEMMA ApplyGpuSound ==
  ASSUME NEW s, NEW F, NEW wish \in GpuWishes, Sound(s)
  PROVE  LET t == ApplyGpu(s, F, wish) IN
         /\ Sound(t) /\ Same(s, t, Moved)
         /\ ~ t.latched => t.applied = s.applied /\ (wish # None => t.caps = wish)
<1> DEFINE prepared == GpuPrepared(s, F)
           written  == GpuWritten(prepared, F, wish)
           undone   == RestoreAndLatch(written, F)
           freed    == RestoreGpu(s, F)
           t == [written EXCEPT !.caps = wish]
<1>1. CASE wish = None
  <2>1. ApplyGpu(s, F, wish) = freed
    BY <1>1 DEF ApplyGpu
  <2>2. /\ Typed(freed) /\ freed.gpu \in {Baseline, Mixed}
        /\ Same(s, freed, {"gpu", "latched", "gpuSnap", "caps"})
    BY RestoreGpuTyped DEF Sound
  <2> HIDE DEF freed
  <2>3. CpuBelieved(freed) /\ GpuBelieved(freed) /\ freed.applied = s.applied
    BY <2>2, Constants DEF Sound, CpuBelieved, GpuBelieved, Same, Fields, Baseline, Mixed
  <2>4. Same(s, freed, Moved)
    BY <2>2 DEF Same, Moved, Knobs
  <2>5. QED
    BY <1>1, <2>1, <2>2, <2>3, <2>4 DEF Sound
<1>2. CASE wish # None /\ wish = s.caps
  BY <1>2 DEF ApplyGpu, Same
<1>3. CASE wish # None /\ wish # s.caps
  <2>1. ApplyGpu(s, F, wish) = IF written.gpuLatched THEN undone ELSE t
    BY <1>3 DEF ApplyGpu
  <2>2. Typed(prepared) /\ prepared.gpuSnap # None /\ Same(s, prepared, {"gpu", "gpuSnap"})
    BY GpuPreparedTyped DEF Sound
  <2>3. /\ Typed(written) /\ (~ written.gpuLatched => written.gpu \in {wish, Mixed})
        /\ Same(prepared, written, {"gpu", "gpuLatched"})
    <3> HIDE DEF prepared
    <3>1. QED
      BY <1>3, <2>2, GpuWrittenTyped
  <2>4. Same(s, written, {"gpu", "gpuSnap", "gpuLatched"})
    <3> HIDE DEF prepared, written
    <3>1. QED
      BY <2>2, <2>3 DEF Same
  <2>5. CASE written.gpuLatched
    <3> HIDE DEF written
    <3>1. Sound(undone) /\ undone.latched /\ Same(written, undone, Knobs)
      BY <2>3, RestoreAndLatchSound
    <3> HIDE DEF undone
    <3>2. Same(s, undone, Moved)
      BY <2>4, <3>1 DEF Same, Moved, Knobs
    <3>3. QED
      BY <2>1, <2>5, <3>1, <3>2
  <2>6. CASE ~ written.gpuLatched
    <3> HIDE DEF written
    <3>1. t \in States /\ t.caps = wish /\ Same(written, t, {"caps"})
      BY <2>3 DEF Typed, States, Same, Fields
    <3> HIDE DEF t
    <3>2. Linked(t)
      BY <2>3, <3>1 DEF Typed, Linked, Same, Fields
    <3>3. t.gpu \in {wish, Mixed}
      BY <2>3, <2>6, <3>1 DEF Same, Fields
    <3>4. GpuBelieved(t)
      BY <3>1, <3>3 DEF GpuBelieved, Mixed
    <3>5. t.applied = s.applied /\ t.cpu = s.cpu
      BY <2>4, <3>1 DEF Same, Fields
    <3>6. CpuBelieved(t)
      BY <3>5 DEF Sound, CpuBelieved
    <3>7. Same(s, t, Moved)
      BY <2>4, <3>1 DEF Same, Moved, Knobs
    <3>8. QED
      BY <2>1, <2>6, <3>1, <3>2, <3>4, <3>5, <3>6, <3>7 DEF Sound, Typed
  <2>7. QED
    BY <2>5, <2>6
<1>4. QED
  BY <1>1, <1>2, <1>3

(* Not latched, the watts asked for are the overlay.                       *)
LEMMA ApplySoftSound ==
  ASSUME NEW s, NEW F, NEW watts \in Nat, Sound(s)
  PROVE  LET t == ApplySoft(s, F, watts) IN
         /\ Sound(t) /\ Same(s, t, Moved)
         /\ ~ t.latched => /\ t.applied = s.applied /\ t.caps = s.caps
                           /\ t.softApplied = watts
<1> DEFINE undone == RestoreAndLatch(s, F)
           t == [s EXCEPT !.soft = watts, !.softApplied = watts]
<1>1. Sound(undone) /\ undone.latched /\ Same(s, undone, Knobs)
  BY RestoreAndLatchSound DEF Sound
<1>2. t \in States /\ t.softApplied = watts /\ Same(s, t, {"soft", "softApplied"})
  BY DEF Sound, Typed, States, Same, Fields
<1>3. \/ ApplySoft(s, F, watts) = s /\ watts = s.softApplied
      \/ ApplySoft(s, F, watts) \in {undone, t}
  BY DEF ApplySoft
<1> HIDE DEF undone, t
<1>4. Sound(t) /\ t.applied = s.applied /\ t.caps = s.caps
  BY <1>2 DEF Sound, Typed, Linked, CpuBelieved, GpuBelieved, Same, Fields
<1>5. Same(s, undone, Moved) /\ Same(s, t, Moved) /\ Same(s, s, Moved)
  BY <1>1, <1>2 DEF Same, Moved, Knobs
<1>6. QED
  BY <1>1, <1>2, <1>3, <1>4, <1>5

(* Not latched, both are, and the CPU is left alone.                       *)
LEMMA ApplyGpuAndSoftSound ==
  ASSUME NEW s, NEW F, NEW intent \in Actuations, Sound(s)
  PROVE  LET t == ApplyGpuAndSoft(s, F, intent) IN
         /\ Sound(t) /\ Same(s, t, Moved)
         /\ ~ t.latched => /\ t.applied = s.applied /\ t.softApplied = intent.soft
                           /\ intent.gpu # None => t.caps = intent.gpu
<1> DEFINE u == ApplyGpu(s, F, intent.gpu)
           t == ApplySoft(u, F, intent.soft)
<1>0. intent.gpu \in GpuWishes /\ intent.soft \in Nat
  BY Constants
<1>1. /\ Sound(u) /\ Same(s, u, Moved)
      /\ ~ u.latched => u.applied = s.applied /\ (intent.gpu # None => u.caps = intent.gpu)
  BY <1>0, ApplyGpuSound
<1>2. ApplyGpuAndSoft(s, F, intent) = IF u.latched THEN u ELSE t
  BY DEF ApplyGpuAndSoft
<1> HIDE DEF u
<1>3. /\ Sound(t) /\ Same(u, t, Moved)
      /\ ~ t.latched => t.applied = u.applied /\ t.caps = u.caps /\ t.softApplied = intent.soft
  BY <1>0, <1>1, ApplySoftSound
<1> HIDE DEF t
<1>4. Same(s, t, Moved)
  BY <1>1, <1>3 DEF Same
<1>5. QED
  BY <1>1, <1>2, <1>3, <1>4

-----------------------------------------------------------------------------
(* The gated lanes, and a whole target-balance decision.                   *)

(* A floor is only raised under a game that runs.                          *)
LEMMA ApplyFloorSound ==
  ASSUME NEW s, NEW F, NEW game \in Games \union {None}, Sound(s)
  PROVE  LET t == ApplyFloor(s, F, game) IN Sound(t) /\ Same(s, t, LaneFields)
<1> DEFINE freed == RestoreFloor(s, F)
           t == [freed EXCEPT !.floorFailed = TRUE]
           u == [freed EXCEPT !.floor = @ \union {game}, !.fg = game]
<1>1. Sound(freed) /\ Same(s, freed, LaneFields)
  BY RestoreFloorSound
<1>2. \/ ApplyFloor(s, F, game) \in {s, freed, t}
      \/ ApplyFloor(s, F, game) = u /\ game \in running
  BY DEF ApplyFloor
<1> HIDE DEF freed
<1>3. freed \in States
  BY <1>1 DEF Sound, Typed
<1>4. t \in States /\ Same(freed, t, LaneFields)
  BY <1>3 DEF States, Same, Fields, LaneFields
<1>5. game \in running => u \in States /\ Same(freed, u, LaneFields)
  BY <1>3 DEF States, Same, Fields, LaneFields
<1> HIDE DEF t, u
<1>6. Sound(t) /\ Same(s, t, LaneFields)
  BY <1>1, <1>4, LanesKeepSound DEF Same
<1>7. game \in running => Sound(u) /\ Same(s, u, LaneFields)
  BY <1>1, <1>5, LanesKeepSound DEF Same
<1>8. Same(s, s, LaneFields)
  BY DEF Same
<1>9. QED
  BY <1>1, <1>2, <1>6, <1>7, <1>8

(* The shaping lane moves the fields of the lanes alone.                   *)
LEMMA ApplyShapeSound ==
  ASSUME NEW s, NEW F, NEW wanted, Sound(s)
  PROVE  LET t == ApplyShape(s, F, wanted) IN Sound(t) /\ Same(s, t, LaneFields)
<1> DEFINE freed == RestoreShape(s, F)
           t == [s EXCEPT !.shapeFailed = TRUE]
           u == [s EXCEPT !.bg = TRUE, !.shaped = TRUE]
<1>0. s \in States
  BY DEF Sound, Typed
<1>1. Sound(freed) /\ Same(s, freed, LaneFields)
  BY RestoreShapeSound
<1>2. ApplyShape(s, F, wanted) \in {freed, t, u}
  BY DEF ApplyShape
<1>3. t \in States /\ Same(s, t, LaneFields)
  BY <1>0 DEF States, Same, Fields, LaneFields
<1>4. u \in States /\ Same(s, u, LaneFields)
  BY <1>0 DEF States, Same, Fields, LaneFields
<1> HIDE DEF freed, t, u
<1>5. QED
  BY <1>1, <1>2, <1>3, <1>4, LanesKeepSound

(* Lanes that were not refused leave the other knobs alone.                *)
LEMMA ApplyLanesSound ==
  ASSUME NEW s, NEW F, NEW lanes, NEW game \in Games \union {None}, Sound(s)
  PROVE  LET t == ApplyLanes(s, F, lanes, game) IN
         /\ Sound(t) /\ Same(s, t, Moved)
         /\ ~ t.latched => Same(s, t, LaneFields \union {"latched"})
<1> DEFINE floorGame == IF "floor" \in lanes THEN game ELSE None
           shape     == "shape" \in lanes /\ game # None
           floored   == ApplyFloor(s, F, floorGame)
           shaped    == ApplyShape(floored, F, shape)
           freed     == RestoreLanes(floored, F)
           freed2    == RestoreLanes(shaped, F)
           t == [shaped EXCEPT !.latched = shaped.floorFailed \/ shaped.shapeFailed]
<1>0. ApplyLanes(s, F, lanes, game) \in {RestoreAndLatch(freed, F), RestoreAndLatch(freed2, F), t}
  BY DEF ApplyLanes
<1>1. floorGame \in Games \union {None}
  OBVIOUS
<1> HIDE DEF floorGame, shape
<1>2. Sound(floored) /\ Same(s, floored, LaneFields)
  BY <1>1, ApplyFloorSound
<1> HIDE DEF floored
<1>3. Sound(shaped) /\ Same(floored, shaped, LaneFields)
  BY <1>2, ApplyShapeSound
<1> HIDE DEF shaped
<1>4. Sound(freed) /\ Same(floored, freed, LaneFields)
  BY <1>2, RestoreLanesSound
<1>5. Sound(freed2) /\ Same(shaped, freed2, LaneFields)
  BY <1>3, RestoreLanesSound
<1> HIDE DEF freed, freed2
<1>6. \A u \in {freed, freed2} : Sound(u) /\ Same(s, u, LaneFields)
  BY <1>2, <1>3, <1>4, <1>5 DEF Same
<1>7. ASSUME NEW u \in {freed, freed2}
      PROVE  LET r == RestoreAndLatch(u, F) IN Sound(r) /\ r.latched /\ Same(s, r, Moved)
  <2> DEFINE r == RestoreAndLatch(u, F)
  <2>1. Sound(r) /\ r.latched /\ Same(u, r, Knobs)
    BY <1>6, RestoreAndLatchSound DEF Sound
  <2> HIDE DEF r
  <2>2. Same(s, r, Moved)
    BY <1>6, <2>1 DEF Same, Moved
  <2>3. QED
    BY <2>1, <2>2 DEF r
<1>8. Sound(t) /\ Same(s, t, LaneFields \union {"latched"})
  <2>1. shaped \in States /\ (shaped.floorFailed \/ shaped.shapeFailed) \in BOOLEAN
    BY <1>3 DEF Sound, Typed
  <2>2. t \in States /\ Same(shaped, t, {"latched"})
    BY <2>1 DEF States, Same, Fields
  <2> HIDE DEF t
  <2>3. Sound(t)
    BY <1>3, <2>2 DEF Sound, Typed, Linked, CpuBelieved, GpuBelieved, Same, Fields
  <2>4. Same(s, t, LaneFields \union {"latched"})
    BY <1>2, <1>3, <2>2 DEF Same
  <2>5. QED
    BY <2>3, <2>4
<1> HIDE DEF t
<1>9. Same(s, t, Moved)
  BY <1>8 DEF Same, Moved, Knobs
<1>10. QED
  BY <1>0, <1>7, <1>8, <1>9

(* A boost that was not refused has been believed applied in full.         *)
Lifted(s) == s.applied = BoostIntent /\ s.caps = "floored" /\ s.softApplied = NoWatts

LEMMA ApplyTargetBalanceSound ==
  ASSUME NEW s, NEW F, NEW intent \in Actuations, NEW lanes,
         NEW game \in Games \union {None}, Sound(s)
  PROVE  LET t == ApplyTargetBalance(s, F, intent, lanes, game) IN
         /\ Sound(t) /\ Same(s, t, Moved)
         /\ ~ t.latched /\ intent = BoostIntent => Lifted(t)
<1> DEFINE cpuDone == ApplyCpu(s, F, intent)
           gpuDone == ApplyGpuAndSoft(cpuDone, F, intent)
           t       == ApplyLanes(gpuDone, F, lanes, game)
<1>0. ApplyTargetBalance(s, F, intent, lanes, game) =
        IF s.latched THEN s ELSE IF cpuDone.latched THEN cpuDone
        ELSE IF gpuDone.latched THEN gpuDone ELSE t
  BY DEF ApplyTargetBalance
<1>1. CASE s.latched
  BY <1>0, <1>1 DEF Same
<1>2. CASE ~ s.latched
  <2>1. /\ Sound(cpuDone) /\ Same(s, cpuDone, Moved)
        /\ ~ cpuDone.latched => cpuDone.applied = intent \/ intent = NoIntent
    BY <1>2, ApplyCpuSound
  <2> HIDE DEF cpuDone
  <2>2. /\ Sound(gpuDone) /\ Same(cpuDone, gpuDone, Moved)
        /\ ~ gpuDone.latched => /\ gpuDone.applied = cpuDone.applied
                                /\ gpuDone.softApplied = intent.soft
                                /\ intent.gpu # None => gpuDone.caps = intent.gpu
    BY <2>1, ApplyGpuAndSoftSound
  <2> HIDE DEF gpuDone
  <2>3. /\ Sound(t) /\ Same(gpuDone, t, Moved)
        /\ ~ t.latched => Same(gpuDone, t, LaneFields \union {"latched"})
    BY <2>2, ApplyLanesSound
  <2> HIDE DEF t
  <2>4. Same(s, gpuDone, Moved) /\ Same(s, t, Moved)
    BY <2>1, <2>2, <2>3 DEF Same
  <2>5. ASSUME ~ cpuDone.latched, ~ gpuDone.latched, ~ t.latched, intent = BoostIntent
        PROVE  Lifted(t)
    <3>1. gpuDone.applied = BoostIntent /\ gpuDone.caps = "floored" /\ gpuDone.softApplied = NoWatts
      BY <2>1, <2>2, <2>5, Constants
    <3>2. t.applied = gpuDone.applied /\ t.caps = gpuDone.caps
          /\ t.softApplied = gpuDone.softApplied
      BY <2>3, <2>5 DEF Same, Fields, LaneFields
    <3>3. QED
      BY <3>1, <3>2 DEF Lifted
  <2>6. QED
    BY <1>0, <1>2, <2>1, <2>2, <2>3, <2>4, <2>5
<1>3. QED
  BY <1>1, <1>2

-----------------------------------------------------------------------------
(* The other modes, the frame cap, the configuration and the context.      *)

(* GPU priority writes the CPU while no intent is believed applied.        *)
LEMMA PriorityWriteSound ==
  ASSUME NEW s, NEW F, NEW action, Sound(s), s.applied = NoIntent
  PROVE  LET t == PriorityWrite(s, F, action) IN Sound(t) /\ Same(s, t, Knobs)
<1> DEFINE snapped == IF s.cpuSnap = None THEN [s EXCEPT !.cpuSnap = s.cpu] ELSE s
           mixed == [snapped EXCEPT !.cpu = Mixed]
           k == IF s.cpu = Mixed THEN Mixed
                ELSE IF action = "cap" \/ s.cpu = "capped" THEN "capped" ELSE "epp"
           t == [snapped EXCEPT !.cpu = k]
<1>1. Typed(snapped) /\ snapped.cpuSnap # None /\ Same(s, snapped, {"cpuSnap"})
  <2>1. CASE s.cpuSnap = None
    <3> DEFINE r == [s EXCEPT !.cpuSnap = s.cpu]
    <3>1. s.cpu \in Snaps /\ s.cpu # None
      BY <2>1, Constants DEF Sound, Typed, Linked, Snaps
    <3>2. r \in States /\ r.cpuSnap = s.cpu /\ Same(s, r, {"cpuSnap"})
      BY <3>1 DEF Sound, Typed, States, Same, Fields
    <3>3. snapped = r
      BY <2>1
    <3> HIDE DEF r
    <3>4. Linked(r)
      BY <3>1, <3>2 DEF Sound, Typed, Linked, Same, Fields
    <3>5. QED
      BY <3>1, <3>2, <3>3, <3>4 DEF Typed
  <2>2. CASE s.cpuSnap # None
    BY <2>2 DEF Sound, Same
  <2>3. QED
    BY <2>1, <2>2
<1>2. PriorityWrite(s, F, action) = IF "cpu-apply" \in F THEN RestoreAndLatch(mixed, F) ELSE t
  BY DEF PriorityWrite
<1>3. k \in CpuStates /\ Mixed \in CpuStates
  BY DEF CpuStates
<1> HIDE DEF snapped, k
<1>4. snapped \in States
  BY <1>1 DEF Typed
<1>5. mixed \in States /\ Same(snapped, mixed, {"cpu"})
  BY <1>3, <1>4 DEF States, Same, Fields
<1>6. t \in States /\ Same(snapped, t, {"cpu"})
  BY <1>3, <1>4 DEF States, Same, Fields
<1> HIDE DEF mixed, t
<1>7. Linked(mixed) /\ Linked(t)
  BY <1>1, <1>5, <1>6 DEF Typed, Linked, Same, Fields
<1>8. Sound(RestoreAndLatch(mixed, F)) /\ Same(mixed, RestoreAndLatch(mixed, F), Knobs)
  BY <1>5, <1>7, RestoreAndLatchSound DEF Typed
<1>9. t.applied = NoIntent /\ t.gpu = s.gpu /\ t.caps = s.caps
  BY <1>1, <1>6 DEF Same, Fields
<1>10. Sound(t)
  BY <1>6, <1>7, <1>9, Constants DEF Sound, Typed, CpuBelieved, GpuBelieved
<1>11. Same(s, t, Knobs) /\ Same(s, mixed, Knobs)
  BY <1>1, <1>5, <1>6 DEF Same, Knobs
<1>12. Same(s, RestoreAndLatch(mixed, F), Knobs)
  BY <1>8, <1>11 DEF Same
<1>13. QED
  BY <1>2, <1>8, <1>10, <1>11, <1>12

(* A mode without balance forgets every intent before it writes.           *)
LEMMA ApplyOtherSound ==
  ASSUME NEW s, NEW F, NEW action, Sound(s)
  PROVE  LET t == ApplyOther(s, F, action) IN Sound(t) /\ Same(s, t, Knobs)
<1> DEFINE clean == IF s.applied # NoIntent \/ s.gpuSnap # None \/ s.softApplied # NoWatts
                    THEN Restore(s, F) ELSE s
<1>1. Sound(clean) /\ clean.applied = NoIntent /\ Same(s, clean, Knobs)
  BY RestoreSound DEF Sound, Same
<1>2. ApplyOther(s, F, action) \in {clean, Restore(clean, F), PriorityWrite(clean, F, action)}
  BY DEF ApplyOther
<1> HIDE DEF clean
<1>3. Sound(Restore(clean, F)) /\ Same(clean, Restore(clean, F), Knobs)
  BY <1>1, RestoreSound DEF Sound
<1>4. Sound(PriorityWrite(clean, F, action)) /\ Same(clean, PriorityWrite(clean, F, action), Knobs)
  BY <1>1, PriorityWriteSound
<1>5. \A t \in {Restore(clean, F), PriorityWrite(clean, F, action)} : Same(s, t, Knobs)
  BY <1>1, <1>3, <1>4 DEF Same
<1>6. QED
  BY <1>1, <1>2, <1>3, <1>4, <1>5

(* Publishing a tick moves the frame cap and the proposal alone.           *)
LEMMA PublishSound ==
  ASSUME NEW s, NEW F, NEW frame, NEW proposal \in Proposals \union {NoFps}, Sound(s)
  PROVE  LET t == Publish(s, F, frame, proposal) IN
         Sound(t) /\ Same(s, t, {"cap", "proposal"})
<1> DEFINE told == IF proposal = NoFps THEN s ELSE [s EXCEPT !.proposal = proposal]
<1>1. told \in States /\ Same(s, told, {"proposal"})
  <2> DEFINE r == [s EXCEPT !.proposal = proposal]
  <2>1. s \in States
    BY DEF Sound, Typed
  <2>2. r \in States /\ Same(s, r, {"proposal"})
    BY <2>1 DEF States, Same, Fields
  <2>3. told \in {s, r}
    OBVIOUS
  <2> HIDE DEF r, told
  <2>4. QED
    BY <2>1, <2>2, <2>3 DEF Same
<1>2. \A fps \in Proposals \union {IdleFps, NoFps} :
        [told EXCEPT !.cap = fps] \in States /\ Same(told, [told EXCEPT !.cap = fps], {"cap"})
  <2> HIDE DEF told
  <2>1. QED
    BY <1>1 DEF States, Same, Fields
<1>3. told.proposal \in Proposals \union {NoFps}
  <2> HIDE DEF told
  <2>1. QED
    BY <1>1 DEF States
<1>4. Publish(s, F, frame, proposal) = FrameCap(told, F, frame)
  BY DEF Publish
<1> HIDE DEF told
<1>5. \/ FrameCap(told, F, frame) = told
      \/ \E fps \in Proposals \union {IdleFps, NoFps} :
           FrameCap(told, F, frame) = [told EXCEPT !.cap = fps]
  BY <1>3 DEF FrameCap, WriteCap, ClearCap
<1>6. FrameCap(told, F, frame) \in States /\ Same(told, FrameCap(told, F, frame), {"cap"})
  BY <1>1, <1>2, <1>5 DEF Same
<1> DEFINE t == FrameCap(told, F, frame)
<1> HIDE DEF t
<1>7. t \in States /\ Same(s, t, {"cap", "proposal"})
  BY <1>1, <1>6 DEF Same, t
<1>8. Sound(t)
  BY <1>7 DEF Sound, Typed, Linked, CpuBelieved, GpuBelieved, Same, Fields
<1>9. QED
  BY <1>4, <1>7, <1>8 DEF t

(* A new configuration ends a boost.                                       *)
LEMMA RefreshSound ==
  ASSUME NEW s, NEW F, NEW mode \in Modes, NEW persona \in Personas, Sound(s)
  PROVE  LET t == Refresh(s, F, mode, persona) IN
         Sound(t) /\ t.mode = mode /\ (t.boost => s.boost /\ s.mode = mode)
<1> DEFINE closed == CloseSession(s, F)
           freed == RestoreLanes(closed, F)
           clean == IF \/ s.mode = "target-balance" \/ freed.applied # NoIntent
                       \/ freed.gpuSnap # None \/ freed.softApplied # NoWatts
                    THEN Restore(freed, F) ELSE freed
           reset == ResetWriter(clean, F)
           t == [reset EXCEPT !.mode = mode, !.persona = persona,
                              !.boost = FALSE, !.latched = FALSE]
<1>1. Refresh(s, F, mode, persona) = IF mode = s.mode /\ persona = s.persona THEN s ELSE t
  BY DEF Refresh
<1>2. Sound(closed)
  BY CloseSessionSound
<1> HIDE DEF closed
<1>3. Sound(freed)
  BY <1>2, RestoreLanesSound
<1> HIDE DEF freed
<1>4. Sound(clean)
  BY <1>3, RestoreSound DEF Sound
<1> HIDE DEF clean
<1>5. Sound(reset)
  BY <1>4, ResetWriterSound
<1> HIDE DEF reset
<1>6. reset \in States
  BY <1>5 DEF Sound, Typed
<1>7. /\ t \in States /\ t.mode = mode /\ t.boost = FALSE
      /\ Same(reset, t, {"mode", "persona", "boost", "latched"})
  BY <1>6 DEF States, Same, Fields
<1> HIDE DEF t
<1>8. Sound(t)
  BY <1>5, <1>7 DEF Sound, Typed, Linked, CpuBelieved, GpuBelieved, Same, Fields
<1>9. QED
  BY <1>1, <1>7, <1>8

(* A new context moves its key and what it gives back.                     *)
LEMMA PrepareContextSound ==
  ASSUME NEW s, NEW F, NEW game \in Games \union {None}, NEW fps \in Nat, Sound(s)
  PROVE  LET t == PrepareContext(s, F, game, fps) IN
         Sound(t) /\ Same(s, t, Moved \union {"session", "key"})
<1> DEFINE key == IF game = None THEN NoKey ELSE [game |-> game, pl1 |-> s.soft, fps |-> fps]
           closed == CloseSession(s, F)
           freed == RestoreLanes(closed, F)
           open == key # NoKey
           t == [freed EXCEPT !.key = key, !.session = open]
<1>1. PrepareContext(s, F, game, fps) = IF key = s.key THEN s ELSE t
  BY DEF PrepareContext
<1>2. key \in [game : Games \union {None}, pl1 : Nat, fps : Nat]
  <2>1. s.soft \in Nat
    BY DEF Sound, Typed, States
  <2>2. QED
    BY <2>1, Constants
<1>3. Sound(closed) /\ Same(s, closed, Knobs \union {"session", "key"})
  BY CloseSessionSound
<1>0. open \in BOOLEAN /\ (open <=> key # NoKey)
  OBVIOUS
<1> HIDE DEF closed, key, open
<1>4. Sound(freed) /\ Same(closed, freed, LaneFields)
  BY <1>3, RestoreLanesSound
<1> HIDE DEF freed
<1>5. freed \in States
  BY <1>4 DEF Sound, Typed
<1>6. /\ t \in States /\ t.key = key /\ t.session = open
      /\ Same(freed, t, {"session", "key"})
  BY <1>0, <1>2, <1>5 DEF States, Same, Fields
<1> HIDE DEF t
<1>7. Sound(t)
  BY <1>0, <1>4, <1>6 DEF Sound, Typed, Linked, CpuBelieved, GpuBelieved, Same, Fields
<1>8. Same(s, t, Moved \union {"session", "key"}) /\ Same(s, s, Moved \union {"session", "key"})
  BY <1>3, <1>4, <1>6 DEF Same, Moved
<1>9. QED
  BY <1>1, <1>7, <1>8

-----------------------------------------------------------------------------
(* The invariant.                                                          *)

(* Beside what is believed: a boost belongs to target-balance, and between *)
(* ticks it has been applied in full unless a write was refused.           *)
GInv ==
  /\ Sound(g) /\ running \subseteq Games
  /\ pc \in {"idle", "sampling", "closed"} /\ broken \subseteq FailPoints
  /\ g.boost => g.mode = "target-balance"
  /\ pc = "idle" /\ g.boost /\ ~ g.latched => Lifted(g)

(* The service starts with every knob as found and no boost.               *)
LEMMA InitGInv == Init => GInv
<1> SUFFICES ASSUME Init PROVE GInv
  OBVIOUS
<1>1. PICK m \in Modes, p \in Personas :
       g = [mode |-> m, persona |-> p,
            cpu |-> Baseline, gpu |-> Baseline, soft |-> NoWatts,
            floor |-> {}, shaped |-> FALSE, cap |-> NoFps,
            cpuSnap |-> None, applied |-> NoIntent,
            gpuSnap |-> None, caps |-> None, gpuLatched |-> FALSE,
            softApplied |-> NoWatts,
            fg |-> None, bg |-> FALSE, floorFailed |-> FALSE, shapeFailed |-> FALSE,
            latched |-> FALSE, boost |-> FALSE, sampled |-> FALSE,
            key |-> NoKey, session |-> FALSE, proposal |-> NoFps]
  BY DEF Init
<1>2. g \in States
  BY <1>1, Constants DEF States, CpuStates, GpuStates, Snaps, GpuWishes, NoWatts
<1>3. Linked(g) /\ CpuBelieved(g) /\ GpuBelieved(g) /\ ~ g.boost
  BY <1>1, Constants DEF Linked, CpuBelieved, GpuBelieved, Baseline
<1>4. QED
  BY <1>2, <1>3 DEF Init, GInv, Sound, Typed

(* Every action of the governor keeps it: a chain of its operators.        *)
LEMMA TickGInv ==
  ASSUME GInv, NEW F \in FailureSets \union {{}}, Tick(F)
  PROVE  GInv'
<1>1. /\ Sound(g) /\ running \subseteq Games /\ UNCHANGED running
      /\ g.boost => g.mode = "target-balance"
      /\ broken' \subseteq FailPoints
  <2>1. broken' = broken \union F /\ UNCHANGED running
    BY DEF Tick, OffTick, BeginTick, SampleAndApply, EndTick, FastBoost, FastBoostEnds,
       Close, Fails
  <2>2. F \subseteq FailPoints
    BY GovernorAssumption DEF GovernorAssumption
  <2>3. QED
    BY <2>1, <2>2 DEF GInv
<1> SUFFICES /\ Sound(g') /\ pc' \in {"idle", "sampling", "closed"}
             /\ g'.boost => g'.mode = "target-balance"
             /\ pc' = "idle" /\ g'.boost /\ ~ g'.latched => Lifted(g')
  BY <1>1 DEF GInv, Sound, Typed, States, Linked, CpuBelieved, GpuBelieved, Lifted
<1>2. CASE \E persona \in Personas, proposal \in Proposals \union {NoFps} :
             OffTick(persona, proposal, F)
  <2>1. PICK persona \in Personas, proposal \in Proposals \union {NoFps} :
               OffTick(persona, proposal, F)
    BY <1>2
  <2> DEFINE fresh == Refresh(g, F, "off", persona)
             closed == CloseSession(fresh, F)
             off == Restore(closed, F)
             frame == [target |-> NoTarget, idle |-> FALSE]
  <2>2. g' = Publish(off, F, frame, proposal) /\ pc' = "idle"
    BY <2>1 DEF OffTick
  <2>3. Sound(fresh) /\ fresh.mode = "off" /\ ~ fresh.boost
    <3>1. "off" \in Modes /\ "off" # "target-balance"
      BY GovernorAssumption DEF GovernorAssumption
    <3>2. QED
      BY <1>1, <3>1, RefreshSound
  <2> HIDE DEF fresh, frame
  <2>4. Sound(closed) /\ Same(fresh, closed, Knobs \union {"session", "key"})
    BY <2>3, CloseSessionSound
  <2> HIDE DEF closed
  <2>5. Sound(off) /\ Same(closed, off, Knobs)
    BY <2>4, RestoreSound DEF Sound
  <2> HIDE DEF off
  <2>6. Sound(g') /\ Same(off, g', {"cap", "proposal"})
    BY <2>2, <2>5, PublishSound
  <2>7. g'.boost = fresh.boost
    BY <2>4, <2>5, <2>6 DEF Same, Fields, Knobs
  <2>8. QED
    BY <2>2, <2>3, <2>6, <2>7
<1>3. CASE \E mode \in Modes \ {"off"}, persona \in Personas : BeginTick(mode, persona, F)
  <2>1. PICK mode \in Modes \ {"off"}, persona \in Personas : BeginTick(mode, persona, F)
    BY <1>3
  <2>2. g' = Refresh(g, F, mode, persona) /\ pc' = "sampling"
    BY <2>1 DEF BeginTick
  <2>3. QED
    BY <1>1, <2>1, <2>2, RefreshSound
<1>4. CASE SampleAndApply(F)
  <2>0. PICK game \in running \union {None}, frame \in Frames, active \in BOOLEAN,
             proposal \in Proposals \union {NoFps} :
               \E d \in Decisions(game) :
                 EndTick(game, frame, d.intent, active, d.action, d.lanes, proposal, F)
    BY <1>4 DEF SampleAndApply
  <2>1. PICK d \in Decisions(game) :
               EndTick(game, frame, d.intent, active, d.action, d.lanes, proposal, F)
    BY <2>0
  <2> DEFINE prepared == PrepareContext(g, F, game, frame.target.fps)
             ready == [prepared EXCEPT !.sampled = TRUE]
             wanted == [ready EXCEPT !.boost = active]
             intent == Boosted(d.intent, active)
             balanced == ApplyTargetBalance(wanted, F, intent, d.lanes, game)
             other == ApplyOther(ready, F, d.action)
             done == IF g.mode = "target-balance" THEN balanced ELSE other
  <2>2. game \in Games \union {None} /\ frame.target.fps \in Nat
    BY <1>1, GovernorAssumption DEF GovernorAssumption, FrameTargets
  <2>3. intent \in Actuations /\ (active => intent = BoostIntent)
    BY Constants DEF Decisions, Boosted, Actuations
  <2>4. g' = Publish(done, F, frame, proposal) /\ pc' = "idle"
    BY <2>1 DEF EndTick
  <2> HIDE DEF intent
  <2>5. Sound(prepared) /\ Same(g, prepared, Moved \union {"session", "key"})
    BY <1>1, <2>2, PrepareContextSound
  <2> HIDE DEF prepared
  <2>6. Sound(ready) /\ Same(prepared, ready, {"sampled"})
    <3>1. ready \in States /\ Same(prepared, ready, {"sampled"})
      BY <2>5 DEF Sound, Typed, States, Same, Fields
    <3> HIDE DEF ready
    <3>2. QED
      BY <2>5, <3>1 DEF Sound, Typed, Linked, CpuBelieved, GpuBelieved, Same, Fields
  <2> HIDE DEF ready
  <2>7. Sound(wanted) /\ wanted.boost = active /\ Same(ready, wanted, {"boost"})
    <3>1. wanted \in States /\ wanted.boost = active /\ Same(ready, wanted, {"boost"})
      BY <2>6 DEF Sound, Typed, States, Same, Fields
    <3> HIDE DEF wanted
    <3>2. QED
      BY <2>6, <3>1 DEF Sound, Typed, Linked, CpuBelieved, GpuBelieved, Same, Fields
  <2> HIDE DEF wanted
  <2>8. /\ Sound(balanced) /\ Same(wanted, balanced, Moved)
        /\ ~ balanced.latched /\ intent = BoostIntent => Lifted(balanced)
    BY <2>2, <2>3, <2>7, ApplyTargetBalanceSound
  <2>9. Sound(other) /\ Same(ready, other, Knobs)
    BY <2>6, ApplyOtherSound
  <2> HIDE DEF balanced, other
  <2>10. ready.mode = g.mode /\ ready.boost = g.boost
    BY <2>5, <2>6 DEF Same, Fields, Moved, Knobs, LaneFields
  <2>11. balanced.mode = g.mode /\ balanced.boost = active
    BY <2>7, <2>8, <2>10 DEF Same, Fields, Moved, Knobs, LaneFields
  <2>12. other.mode = g.mode /\ other.boost = g.boost
    BY <2>9, <2>10 DEF Same, Fields, Knobs
  <2>13. /\ Sound(done) /\ done.mode = g.mode /\ (done.boost => g.mode = "target-balance")
         /\ done.boost /\ ~ done.latched => Lifted(done)
    BY <1>1, <2>3, <2>8, <2>9, <2>11, <2>12
  <2> HIDE DEF done
  <2>14. Sound(g') /\ Same(done, g', {"cap", "proposal"})
    BY <2>4, <2>13, PublishSound
  <2>15. /\ g'.mode = done.mode /\ g'.boost = done.boost /\ g'.latched = done.latched
         /\ g'.applied = done.applied /\ g'.caps = done.caps
         /\ g'.softApplied = done.softApplied
    BY <2>14 DEF Same, Fields
  <2>16. QED
    BY <2>4, <2>13, <2>14, <2>15 DEF Lifted
<1>5. CASE FastBoost(F)
  <2> DEFINE start == [g EXCEPT !.boost = TRUE]
             cpuDone == ApplyCpu(start, F, BoostIntent)
             done == ApplyGpuAndSoft(cpuDone, F, BoostIntent)
  <2>1. /\ g' = IF g.latched THEN start ELSE IF cpuDone.latched THEN cpuDone ELSE done
        /\ pc' = "idle" /\ g.mode = "target-balance"
    BY <1>5 DEF FastBoost
  <2>2. Sound(start) /\ Same(g, start, {"boost"})
    <3>1. start \in States /\ Same(g, start, {"boost"})
      BY <1>1 DEF Sound, Typed, States, Same, Fields
    <3> HIDE DEF start
    <3>2. QED
      BY <1>1, <3>1 DEF Sound, Typed, Linked, CpuBelieved, GpuBelieved, Same, Fields
  <2>3. start.latched = g.latched /\ start.mode = g.mode
    BY <2>2 DEF Same, Fields
  <2> HIDE DEF start
  <2>4. ~ g.latched => /\ Sound(cpuDone) /\ Same(start, cpuDone, Moved)
                       /\ ~ cpuDone.latched => cpuDone.applied = BoostIntent
    BY <2>2, <2>3, Constants, ApplyCpuSound
  <2> HIDE DEF cpuDone
  <2>5. ~ g.latched => /\ Sound(done) /\ Same(cpuDone, done, Moved)
                       /\ ~ done.latched => /\ done.applied = cpuDone.applied
                                            /\ done.softApplied = NoWatts
                                            /\ done.caps = "floored"
    BY <2>4, Constants, ApplyGpuAndSoftSound
  <2> HIDE DEF done
  <2>6. ~ g.latched => cpuDone.mode = g.mode /\ done.mode = g.mode
    BY <2>3, <2>4, <2>5 DEF Same, Fields, Moved, Knobs, LaneFields
  <2>7. QED
    BY <2>1, <2>2, <2>3, <2>4, <2>5, <2>6 DEF Lifted
<1>6. CASE FastBoostEnds(F)
  <2> DEFINE ended == [g EXCEPT !.boost = FALSE]
  <2>1. g' = Restore(ended, F) /\ pc' = "idle"
    BY <1>6 DEF FastBoostEnds
  <2>2. Sound(ended) /\ ~ ended.boost
    <3>1. ended \in States /\ ~ ended.boost /\ Same(g, ended, {"boost"})
      BY <1>1 DEF Sound, Typed, States, Same, Fields
    <3> HIDE DEF ended
    <3>2. QED
      BY <1>1, <3>1 DEF Sound, Typed, Linked, CpuBelieved, GpuBelieved, Same, Fields
  <2> HIDE DEF ended
  <2>3. Sound(g') /\ Same(ended, g', Knobs)
    BY <2>1, <2>2, RestoreSound DEF Sound
  <2>4. ~ g'.boost
    BY <2>2, <2>3 DEF Same, Fields, Knobs
  <2>5. QED
    BY <2>1, <2>3, <2>4
<1>7. CASE Close(F)
  <2> DEFINE closed == CloseSession(g, F)
             freed == RestoreLanes(closed, F)
  <2>1. g' = Restore(freed, F) /\ pc' = "closed"
    BY <1>7 DEF Close
  <2>2. Sound(closed) /\ Same(g, closed, Knobs \union {"session", "key"})
    BY <1>1, CloseSessionSound
  <2> HIDE DEF closed
  <2>3. Sound(freed) /\ Same(closed, freed, LaneFields)
    BY <2>2, RestoreLanesSound
  <2> HIDE DEF freed
  <2>4. Sound(g') /\ Same(freed, g', Knobs)
    BY <2>1, <2>3, RestoreSound DEF Sound
  <2>5. g'.boost = g.boost /\ g'.mode = g.mode
    BY <2>2, <2>3, <2>4 DEF Same, Fields, Knobs, LaneFields
  <2>6. QED
    BY <1>1, <2>1, <2>4, <2>5
<1>8. QED
  BY <1>2, <1>3, <1>4, <1>5, <1>6, <1>7 DEF Tick

(* So does what happens around the governor.                               *)
LEMMA NextGInv == GInv /\ [Next]_vars => GInv'
<1> SUFFICES ASSUME GInv, [Next]_vars PROVE GInv'
  OBVIOUS
<1>0. g \in States /\ Sound(g) /\ running \subseteq Games
  BY DEF GInv, Sound, Typed
<1>1. CASE \E F \in FailureSets \union {{}} : Tick(F)
  BY <1>1, TickGInv
<1>2. CASE SliderWrite
  <2> DEFINE t == [g EXCEPT !.soft = NoWatts]
  <2>1. t \in States /\ Same(g, t, {"soft"})
    BY <1>0 DEF States, Same, Fields, NoWatts
  <2>2. g' = t /\ UNCHANGED <<pc, running, broken>>
    BY <1>2 DEF SliderWrite
  <2> HIDE DEF t
  <2>3. Linked(t) /\ CpuBelieved(t) /\ GpuBelieved(t)
    BY <1>0, <2>1 DEF Sound, Typed, Linked, CpuBelieved, GpuBelieved, Same, Fields
  <2>4. (g \in States)'
    BY <2>1, <2>2 DEF States
  <2>5. /\ t.boost = g.boost /\ t.mode = g.mode /\ t.latched = g.latched
        /\ t.applied = g.applied /\ t.caps = g.caps /\ t.softApplied = g.softApplied
    BY <2>1 DEF Same, Fields
  <2>6. QED
    BY <1>0, <2>2, <2>3, <2>4, <2>5 DEF GInv, Lifted, Sound, Typed, Linked, CpuBelieved, GpuBelieved
<1>3. CASE \E game \in Games : GameStarts(game)
  <2>1. UNCHANGED <<g, pc, broken>> /\ running \subseteq running' /\ running' \subseteq Games
    BY <1>0, <1>3 DEF GameStarts
  <2>2. (g \in States)'
    BY <1>0, <2>1 DEF States
  <2>3. QED
    BY <2>1, <2>2 DEF GInv, Lifted, Sound, Typed, Linked, CpuBelieved, GpuBelieved
<1>4. CASE \E game \in Games : GameExits(game)
  <2>1. PICK game \in Games : GameExits(game)
    BY <1>4
  <2> DEFINE t == [g EXCEPT !.floor = @ \ {game}]
  <2>2. /\ g' = t /\ UNCHANGED <<pc, broken>> /\ running' = running \ {game}
    BY <2>1 DEF GameExits
  <2>3. t \in States /\ t.floor = g.floor \ {game} /\ Same(g, t, {"floor"})
    BY <1>0 DEF States, Same, Fields
  <2> HIDE DEF t
  <2>4. (g \in States)'
    <3>1. t.floor \subseteq running'
      BY <1>0, <2>2, <2>3 DEF States
    <3>2. QED
      BY <2>2, <2>3, <3>1 DEF States
  <2>5. Linked(t) /\ CpuBelieved(t) /\ GpuBelieved(t)
    BY <1>0, <2>3 DEF Sound, Typed, Linked, CpuBelieved, GpuBelieved, Same, Fields
  <2>6. /\ t.boost = g.boost /\ t.mode = g.mode /\ t.latched = g.latched
        /\ t.applied = g.applied /\ t.caps = g.caps /\ t.softApplied = g.softApplied
    BY <2>3 DEF Same, Fields
  <2>7. QED
    BY <2>2, <2>4, <2>5, <2>6, <1>0 DEF GInv, Lifted, Sound, Typed, Linked, CpuBelieved, GpuBelieved
<1>5. CASE UNCHANGED vars
  BY <1>5 DEF vars, GInv, Lifted, Sound, Typed, States, Linked, CpuBelieved, GpuBelieved
<1>6. QED
  BY <1>1, <1>2, <1>3, <1>4, <1>5 DEF Next, Tick

LEMMA GInvariance == Spec => []GInv
BY InitGInv, NextGInv, PTL DEF Spec

(* GamePowerGovernor: every field and every knob stays in its range, for    *)
(* all games, modes, personas, intents and failures: no knob is ever left  *)
(* in a state that neither a write nor a restore of the governor gives it, *)
(* no floor outlives its game, and a session is open exactly with a key.   *)
THEOREM GovernorTyped == Spec => []TypeOK
<1>1. ASSUME g \in States, Linked(g), running \subseteq Games
      PROVE  /\ g.mode \in Modes /\ g.persona \in Personas
             /\ g.cpu \in CpuStates /\ g.gpu \in GpuStates
             /\ g.soft \in Nat /\ g.softApplied \in Nat
             /\ g.floor \subseteq running
             /\ g.cap \in Proposals \union {IdleFps, NoFps}
             /\ g.cpuSnap \in Snaps /\ g.gpuSnap \in Snaps
             /\ g.applied \in Actuations
             /\ g.caps \in GpuWishes /\ g.fg \in Games \union {None}
             /\ {g.shaped, g.bg, g.gpuLatched, g.floorFailed, g.shapeFailed, g.latched,
                 g.boost, g.sampled, g.session} \subseteq BOOLEAN
             /\ g.key.game \in Games \union {None}
             /\ g.proposal \in Proposals \union {NoFps}
  BY <1>1 DEF States
<1>2. GInv => TypeOK
  BY <1>1 DEF GInv, Sound, Typed, Linked, TypeOK, CpuStates, GpuStates, Snaps, Actuations
<1>3. QED
  BY <1>2, GInvariance, PTL

(* _maybe_apply_boost and _fast_lane_tick: while a boost is held and no     *)
(* write was refused, no cap of ours is on the CPU or the GPU, and no      *)
(* overlay that could be lifted is left, whichever loop began it.          *)
THEOREM BoostsLift == Spec => []BoostLifts
<1>1. GInv /\ IInv => BoostLifts
  <2> SUFFICES ASSUME GInv, IInv, pc = "idle", g.boost, ~ g.latched
               PROVE  /\ g.cpu # "capped" /\ g.gpu # "capped"
                      /\ "soft" \notin broken => g.soft = NoWatts
    BY DEF BoostLifts
  <2>1. Lifted(g) /\ CpuBelieved(g) /\ GpuBelieved(g)
    BY DEF GInv, Sound
  <2>2. "soft" \notin broken /\ g.softApplied = NoWatts => g.soft = NoWatts
    BY DEF IInv, InPlace, Found
  <2>3. QED
    BY <2>1, <2>2 DEF Lifted, CpuBelieved, GpuBelieved
<1>2. QED
  BY <1>1, GInvariance, Invariance, PTL

=============================================================================
