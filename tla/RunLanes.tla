------------------------------ MODULE RunLanes ------------------------------
(***************************************************************************)
(* The lanes of the profiler.  One controlled pair measures a baseline, a  *)
(* candidate and the baseline again; the candidate holds one more knob of  *)
(* the machine for the time of its run: the weight or the clamp of the     *)
(* helper cgroups, the affinity of the game's threads, the uclamp floor of *)
(* the game, the GPU's lowest frequency, or a sched_ext scheduler.  Every  *)
(* lane is applied by a guarded writer that leaves a report, and released  *)
(* from that report; the script accepts a run only as restored.            *)
(*                                                                         *)
(* A policy selects at most one lane and the steps of the other lanes do   *)
(* nothing, so the sequence of the script is: apply, hold, release (or     *)
(* undo and exit), summarise.  A command that fails outside a condition    *)
(* ends the script through its EXIT trap.                                  *)
(***************************************************************************)
EXTENDS Integers, FiniteSets, TLC

CONSTANTS
  Helpers,      (* cgroups on the allowlist of the background writer        *)
  Units,        (* those that are services of the user's systemd            *)
  Tids, Gts,
  MaxMoves,     (* bound on what the machine does on its own                *)
  MaxFaults     (* bound on writes that fail                                *)

ASSUME RunLanesAssumption ==
  /\ Units \subseteq Helpers /\ "scx" \notin Gts
  /\ {MaxMoves, MaxFaults} \subseteq Nat

Shaping == {"weight", "clamp"}
Lanes == Shaping \cup {"affinity", "uclamp", "gpu", "scx"}
NoTask == [born |-> 0, mask |-> "wide", heir |-> FALSE]

VARIABLES
  pc, position, candidate, restored, marks,    (* the script                *)
  snap,      (* what snapshot_affinity_restore_state and the .before found  *)
  report,    (* the files of the run directory                              *)
  knob, helpers, tasks, uclamp, freq, scx,     (* the machine               *)
  births, moves, faults,
  unverified,  (* history: helpers whose write was not reported as written  *)
  crashed,     (* history: the scheduler of this run died by itself         *)
  inForce,     (* history: the lane of this run held when the window closed *)
  refused      (* history: what could not be put back, or was not recorded  *)

script == <<pc, position, candidate, restored, marks>>
machine == <<knob, helpers, tasks, uclamp, freq, scx>>
history == <<unverified, crashed, inForce, refused>>
counters == <<births, moves, faults>>
vars == <<script, snap, report, machine, history, counters>>

lane == IF position = 2 THEN candidate ELSE "off"

NoReport == [shape |-> {}, pinned |-> {}, uclamp |-> "none", gpu |-> "none",
             scx |-> "none"]

TypeOK ==
  /\ pc \in {"idle", "apply", "hold", "release", "undo", "summary", "trap", "end"}
  /\ position \in 0 .. 3 /\ candidate \in Lanes /\ restored \in BOOLEAN
  /\ marks \in SUBSET {"gpu", "scx"} /\ Cardinality(marks) <= 1
  /\ report \in [shape : SUBSET Helpers, pinned : SUBSET Tids,
                 uclamp : {"none", "skip", "failed", "applied"},
                 gpu : {"none", "skip", "failed", "applied"},
                 scx : {"none", "skip", "started", "invalid", "valid"}]
  /\ knob \in [Shaping -> [Helpers -> {"full", "low", "odd"}]]
  /\ helpers \in SUBSET Helpers
  /\ tasks \in [Tids -> [born : 0 .. births, mask : {"wide", "compact"},
                         heir : BOOLEAN]]
  /\ uclamp \in {"zero", "floor", "odd", "gone"}
  /\ freq \in [Gts -> {"low", "floor"}]
  /\ scx \in {"disabled", "enabled", "foreign"}
  \* a marker stands exactly while its lane may be applied
  /\ "gpu" \in marks => candidate = "gpu" /\ position = 2
  /\ scx = "enabled" => "scx" \in marks \/ "scx" \in refused

Init ==
  /\ pc = "idle" /\ position = 0 /\ candidate \in Lanes /\ restored = TRUE
  /\ marks = {} /\ report = NoReport
  /\ knob = [l \in Shaping |-> [h \in Helpers |-> "full"]]
  /\ helpers = Helpers
  /\ births = 1
  /\ \E free \in Tids :
       tasks = [t \in Tids |-> IF t = free THEN NoTask
                               ELSE [born |-> 1, mask |-> "wide", heir |-> FALSE]]
  /\ uclamp = "zero"
  /\ freq = [gt \in Gts |-> "low"]
  /\ scx \in {"disabled", "foreign"}
  /\ snap = [tasks |-> tasks, helpers |-> helpers, uclamp |-> uclamp, freq |-> freq]
  /\ moves = 0 /\ faults = 0 /\ unverified = {} /\ crashed = FALSE
  /\ inForce = FALSE /\ refused = {}

Faulty(n) == faults + n <= MaxFaults /\ faults' = faults + n

(* The next run of the pair: a new directory and what is to be put back.    *)
Begin ==
  /\ pc = "idle" /\ position < 3
  /\ position' = position + 1
  /\ pc' = "apply" /\ restored' = TRUE
  /\ snap' = [tasks |-> tasks, helpers |-> helpers, uclamp |-> uclamp, freq |-> freq]
  /\ report' = NoReport /\ crashed' = FALSE /\ inForce' = FALSE
  /\ UNCHANGED <<candidate, marks, machine, unverified, refused, counters>>

(* A baseline run applies nothing.                                          *)
ApplyNothing ==
  /\ pc = "apply" /\ lane = "off"
  /\ pc' = "hold"
  /\ UNCHANGED <<position, candidate, restored, marks, snap, report, machine,
                 history, counters>>

----------------------------------------------------------------------------
(* Helper cgroups.                                                          *)

Method(h) == IF lane = "weight" /\ h \in Units THEN "systemd" ELSE "file"

(* Only a value that the write lowers is written.                           *)
Lowered == {h \in snap.helpers \cap helpers : knob[lane][h] = "full"}

(* What a write comes to: the value left and the status in the report.  A   *)
(* property may be set and then not be read back.                           *)
WriteOutcomes(h) ==
  {<<"low", "written">>, <<"odd", "write-mismatch">>} \cup
  (IF Method(h) = "systemd"
   THEN {<<"low", "write-failed">>, <<"full", "write-failed">>} ELSE {})

Mishaps(o) == {h \in DOMAIN o : o[h][2] # "written"}

Reported(o) == {h \in DOMAIN o : o[h][2] = "written"}

ApplyShaping ==
  /\ pc = "apply" /\ lane \in Shaping
  /\ \E o \in [Lowered -> UNION {WriteOutcomes(h) : h \in Lowered}] :
       /\ \A h \in Lowered : o[h] \in WriteOutcomes(h)
       /\ Faulty(Cardinality(Mishaps(o)))
       /\ knob' = [knob EXCEPT ![lane] =
                     [h \in Helpers |-> IF h \in Lowered THEN o[h][1] ELSE @[h]]]
       /\ report' = [report EXCEPT !.shape = Reported(o)]
       /\ unverified' = unverified \cup Mishaps(o)
  /\ pc' = "hold"
  /\ UNCHANGED <<position, candidate, restored, marks, snap, helpers, tasks, uclamp,
                 freq, scx, crashed, inForce, refused, births, moves>>

(* A control file that refuses the write, or a first property that cannot   *)
(* be read, raises: some helpers are written, no report is left, and the    *)
(* script, which calls this outside a condition, exits.                     *)
ShapingRaises ==
  /\ pc = "apply" /\ lane \in Shaping
  /\ \E h \in Lowered : \E done \in SUBSET (Lowered \ {h}) :
       /\ Faulty(1)
       /\ knob' = [knob EXCEPT ![lane] =
                     [i \in Helpers |-> IF i \in done THEN "low" ELSE @[i]]]
  /\ pc' = "trap"
  /\ UNCHANGED <<position, candidate, restored, marks, snap, report, helpers, tasks,
                 uclamp, freq, scx, history, births, moves>>

(* Mutant: every inline restore is followed by || true.                     *)
ReleasedRegardless(ok) ==
  /\ pc \in {"release", "undo"}
  /\ restored' = restored
  /\ pc' = IF pc = "release" THEN "summary" ELSE "trap"

(* An inline restore: its result counts for the run, or the script was on   *)
(* its way out.                                                             *)
Released(ok) ==
  /\ pc \in {"release", "undo"}
  /\ IF pc = "release" THEN restored' = (restored /\ ok) /\ pc' = "summary"
     ELSE restored' = restored /\ pc' = "trap"

(* Every write reported as written is put back; a cgroup that is gone, or   *)
(* that does not take its value, makes the run unrestored.                  *)
PutBack(failing) == {h \in report.shape : h \in helpers /\ h \notin failing}

ReleaseShaping ==
  /\ lane \in Shaping
  /\ \E failing \in SUBSET report.shape :
       /\ Faulty(Cardinality(failing))
       /\ knob' = [knob EXCEPT ![lane] =
                     [h \in Helpers |-> IF h \in PutBack(failing) THEN "full" ELSE @[h]]]
       /\ Released(PutBack(failing) = report.shape)
  /\ UNCHANGED <<position, candidate, marks, snap, report, helpers, tasks, uclamp,
                 freq, scx, history, births, moves>>

----------------------------------------------------------------------------
(* Threads of the game.                                                     *)

Masked(T, mask) ==
  [t \in Tids |-> IF t \in T THEN [tasks[t] EXCEPT !.mask = mask[t]] ELSE tasks[t]]

Snapped == {t \in Tids : snap.tasks[t].born > 0}

(* The start time tells a thread from the one that had its number before.   *)
Stale == {t \in Snapped : tasks[t].born # snap.tasks[t].born}

ApplyAffinity ==
  /\ pc = "apply" /\ lane = "affinity"
  /\ \E failing \in SUBSET (Snapped \ Stale) :
       LET written == (Snapped \ Stale) \ failing IN
       /\ Faulty(Cardinality(failing))
       /\ tasks' = Masked(written, [t \in Tids |-> "compact"])
       /\ report' = [report EXCEPT !.pinned = written]
       /\ pc' = IF written # {} /\ Stale \cup failing = {} THEN "hold" ELSE "undo"
  /\ UNCHANGED <<position, candidate, restored, marks, snap, knob, helpers, uclamp,
                 freq, scx, history, births, moves>>

(* The plan has no candidate that is ready, or its mask is too narrow.      *)
NoCandidate ==
  /\ pc = "apply" /\ lane = "affinity" /\ pc' = "undo"
  /\ UNCHANGED <<position, candidate, restored, marks, snap, report, machine, history,
                 counters>>

(* The report of a write carries the number and the name of the thread, not *)
(* its start time: a thread that has the number of a dead one passes.       *)
Unpinned(failing) == {t \in report.pinned : tasks[t].born > 0 /\ t \notin failing}

ReleaseAffinity ==
  /\ lane = "affinity"
  /\ \E failing \in SUBSET report.pinned :
       /\ Faulty(Cardinality(failing))
       /\ tasks' = Masked(Unpinned(failing), [t \in Tids |-> snap.tasks[t].mask])
       /\ Released(Unpinned(failing) = report.pinned)
  /\ UNCHANGED <<position, candidate, marks, snap, report, knob, helpers, uclamp, freq,
                 scx, history, births, moves>>

----------------------------------------------------------------------------
(* The floor of the game's cgroup, through ForegroundUclampMinWriter.       *)

(* What one write comes to: the value left, what the report says, faults.   *)
FloorOutcomes ==
  IF snap.uclamp = "gone" THEN {<<uclamp, "skip", 0>>}
  ELSE IF uclamp = "gone" THEN {<<"gone", "failed", 0>>}
  ELSE {<<"floor", "applied", 0>>,
        <<uclamp, "failed", 1>>,     \* refused, or another value put back
        <<"odd", "failed", 2>>}      \* another value, and not put back

ApplyUclamp ==
  /\ pc = "apply" /\ lane = "uclamp"
  /\ \E o \in FloorOutcomes :
       /\ Faulty(o[3])
       /\ uclamp' = o[1]
       /\ report' = [report EXCEPT !.uclamp = o[2]]
       /\ pc' = IF o[2] = "applied" THEN "hold" ELSE "undo"
  /\ UNCHANGED <<position, candidate, restored, marks, snap, knob, helpers, tasks, freq,
                 scx, history, births, moves>>

FloorHeld == report.uclamp = "applied" /\ uclamp # "gone"

ReleaseUclamp ==
  /\ lane = "uclamp"
  /\ \E failing \in BOOLEAN :
       /\ failing => FloorHeld
       /\ Faulty(IF failing THEN 1 ELSE 0)
       /\ uclamp' = IF FloorHeld /\ ~failing THEN snap.uclamp ELSE uclamp
       /\ Released(\/ report.uclamp = "skip"
                   \/ FloorHeld /\ ~failing)
  /\ UNCHANGED <<position, candidate, marks, snap, report, knob, helpers, tasks, freq,
                 scx, history, births, moves>>

----------------------------------------------------------------------------
(* The GPU's lowest frequency.                                              *)

ApplyGpu ==
  /\ pc = "apply" /\ lane = "gpu"
  /\ marks' = marks \cup {"gpu"}
  /\ \/ /\ report' = [report EXCEPT !.gpu = "skip"]      \* a GT is missing
        /\ pc' = "hold"
        /\ UNCHANGED <<freq, faults>>
     \/ \E failing \in SUBSET Gts :
          /\ Faulty(Cardinality(failing))
          /\ freq' = [gt \in Gts |-> IF gt \in failing THEN freq[gt] ELSE "floor"]
          /\ report' = [report EXCEPT !.gpu = IF failing = {} THEN "applied" ELSE "failed"]
          /\ pc' = IF failing = {} THEN "hold" ELSE "undo"
     \/ \E raised \in SUBSET Gts :     \* killed, or no report can be written
          /\ Faulty(1)
          /\ freq' = [gt \in Gts |-> IF gt \in raised THEN "floor" ELSE freq[gt]]
          /\ pc' \in {"undo", "trap"} /\ UNCHANGED report
  /\ UNCHANGED <<position, candidate, restored, snap, knob, helpers, tasks, uclamp, scx,
                 history, births, moves>>

(* Mutant: only a floor applied to every GT is put back.                    *)
GpuBackWhenApplied(failing) ==
  [gt \in Gts |-> IF report.gpu # "applied" \/ gt \in failing
                  THEN freq[gt] ELSE snap.freq[gt]]

(* restore_gpu_floor_variant: the marker goes first, so that the trap does  *)
(* not try again what failed here, and without a report nothing is done.    *)
GpuBack(failing) ==
  [gt \in Gts |-> IF report.gpu \in {"none", "skip"} \/ gt \in failing
                  THEN freq[gt] ELSE snap.freq[gt]]

Unrecorded ==
  IF report.gpu = "none" THEN {gt \in Gts : freq[gt] = "floor"} ELSE {}

RestoreGpu(failing) ==
  /\ marks' = marks \ {"gpu"}
  /\ report.gpu \in {"none", "skip"} => failing = {}
  /\ Faulty(Cardinality(failing))
  /\ freq' = GpuBack(failing)
  /\ refused' = refused \cup failing \cup Unrecorded

ReleaseGpu ==
  /\ lane = "gpu"
  /\ \E failing \in SUBSET Gts : RestoreGpu(failing) /\ Released(failing = {})
  /\ UNCHANGED <<position, candidate, snap, report, knob, helpers, tasks, uclamp, scx,
                 unverified, crashed, inForce, births, moves>>

----------------------------------------------------------------------------
(* The sched_ext scheduler.                                                 *)

(* Mutant: the marker is set when the scheduler is seen to be enabled, and  *)
(* a slow one is left behind.                                               *)
StartScxMarksLate ==
  /\ pc = "apply" /\ lane = "scx"
  /\ scx = "disabled"
  /\ scx' = "enabled"
  /\ \/ /\ report' = [report EXCEPT !.scx = "started"]
        /\ marks' = marks \cup {"scx"}
        /\ pc' = "hold" /\ UNCHANGED faults
     \/ /\ Faulty(1)
        /\ report' = [report EXCEPT !.scx = "invalid"]
        /\ marks' = marks
        /\ pc' = "undo"
  /\ UNCHANGED <<position, candidate, restored, snap, knob, helpers, tasks, uclamp, freq,
                 history, births, moves>>

StartScx ==
  /\ pc = "apply" /\ lane = "scx"
  /\ \/ /\ report' = [report EXCEPT !.scx = "skip"]      \* no binary, or in use
        /\ pc' = "hold"
        /\ UNCHANGED <<scx, marks, faults>>
     \/ /\ scx = "disabled"
        /\ marks' = marks \cup {"scx"}
        /\ \/ /\ scx' = "enabled"
              /\ report' = [report EXCEPT !.scx = "started"]
              /\ pc' = "hold" /\ UNCHANGED faults
           \/ /\ Faulty(1)                                \* crashed, or too slow
              /\ scx' \in {"disabled", "enabled"}
              /\ report' = [report EXCEPT !.scx = "invalid"]
              /\ pc' = "undo"
           \/ /\ Faulty(1)                       \* no report, or the script is killed
              /\ scx' \in {"disabled", "enabled"} /\ UNCHANGED report
              /\ pc' \in {"trap", IF scx' = "enabled" THEN "hold" ELSE "undo"}
  /\ UNCHANGED <<position, candidate, restored, snap, knob, helpers, tasks, uclamp, freq,
                 history, births, moves>>

(* stop_scx_lavd_variant: TERM, then KILL, each with its time to see the    *)
(* scheduler disabled.  A scheduler found disabled is one that was stopped. *)
(* Whether one was started is remembered with the marker, not by a report.  *)
StopEndings ==
  IF scx = "enabled" THEN {"term", "kill", "neither"} ELSE {"term"}

Valid(ending) == report.scx = "started" /\ ending = "term"

StopScx(ending) ==
  /\ marks' = marks \ {"scx"}
  /\ IF "scx" \notin marks
     THEN ending = "term" /\ UNCHANGED <<scx, report, refused, faults>>
     ELSE /\ Faulty(IF ending = "term" THEN 0 ELSE 1)
          /\ scx' = IF ending = "neither" THEN scx ELSE "disabled"
          /\ refused' = IF ending = "neither" THEN refused \cup {"scx"} ELSE refused
          /\ report' = IF report.scx = "none" THEN report
                       ELSE [report EXCEPT !.scx = IF Valid(ending) THEN "valid" ELSE "invalid"]

(* What it returns; a report that is missing or cut short has no verdict.   *)
StopResults(ending) ==
  IF "scx" \notin marks THEN {TRUE}
  ELSE IF report.scx = "none" THEN {ending # "neither", FALSE} ELSE {Valid(ending)}

ReleaseScx ==
  /\ lane = "scx"
  /\ \E ending \in StopEndings :
       StopScx(ending) /\ \E ok \in StopResults(ending) : Released(ok)
  /\ UNCHANGED <<position, candidate, snap, knob, helpers, tasks, uclamp, freq,
                 unverified, crashed, inForce, births, moves>>

----------------------------------------------------------------------------
(* The rest of the script.                                                  *)

ReleaseNothing ==
  /\ lane = "off" /\ Released(TRUE)
  /\ UNCHANGED <<position, candidate, marks, snap, report, machine, history, counters>>

InForce ==
  CASE lane = "gpu"      -> \A gt \in Gts : freq[gt] = "floor"
    [] lane = "uclamp"   -> uclamp = "floor"
    [] lane = "affinity" -> \A t \in Snapped : tasks[t].mask = "compact"
    [] lane = "scx"      -> scx = "enabled"
    [] OTHER             -> TRUE

(* The measured process ends well, or badly.                                *)
Capture ==
  /\ pc = "hold" /\ pc' = "release"
  /\ inForce' = InForce
  /\ UNCHANGED <<position, candidate, restored, marks, snap, report, machine, unverified,
                 crashed, refused, counters>>

CaptureFails ==
  /\ pc = "hold" /\ pc' = "undo"
  /\ Faulty(1)
  /\ UNCHANGED <<position, candidate, restored, marks, snap, report, machine, history,
                 births, moves>>

(* A command outside a condition fails, or the connection is gone.          *)
Abort ==
  /\ pc \in {"hold", "release", "summary"} /\ pc' = "trap"
  /\ Faulty(1)
  /\ UNCHANGED <<position, candidate, restored, marks, snap, report, machine, history,
                 births, moves>>

(* A run that is not as it was found ends the profile.                      *)
Accepted == restored /\ freq = snap.freq

(* Mutant: a lane that was put back, or that had nothing to put back, is    *)
(* proven.                                                                  *)
ProvenWhenBack ==
  IF lane = "scx" THEN report.scx \in {"skip", "valid"} ELSE restored

(* summarize_foreground_affinity_artifacts.  A failed pin ends the run.      *)
PinsProven == report.pinned # {} /\ restored

(* What the aggregate asks of the files of a lane before its candidate may  *)
(* be BETTER.  The background lanes are not asked for anything.             *)
Proven ==
  CASE lane = "scx"      -> report.scx = "valid"
    [] lane = "gpu"      -> report.gpu = "applied" /\ restored
    [] lane = "uclamp"   -> report.uclamp = "applied" /\ restored
    [] lane = "affinity" -> PinsProven
    [] OTHER             -> TRUE

Summarize ==
  /\ pc = "summary"
  /\ pc' = IF Accepted /\ position < 3 THEN "idle" ELSE "trap"
  /\ restored' = Accepted
  /\ UNCHANGED <<position, candidate, marks, snap, report, machine, history, counters>>

(* restore_state, on every way out.                                         *)
RestoreState ==
  /\ pc = "trap"
  /\ \/ /\ "scx" \in marks
        /\ \E ending \in StopEndings : StopScx(ending)
        /\ pc' = pc /\ freq' = freq
     \/ /\ "gpu" \in marks
        /\ \E failing \in SUBSET Gts : RestoreGpu(failing)
        /\ pc' = pc /\ UNCHANGED <<scx, report>>
     \/ /\ marks = {}
        /\ pc' = "end" /\ UNCHANGED <<marks, freq, scx, report, refused, faults>>
  /\ UNCHANGED <<position, candidate, restored, snap, knob, helpers, tasks, uclamp,
                 unverified, crashed, inForce, births, moves>>

----------------------------------------------------------------------------
(* What the machine does meanwhile.                                         *)

Moves == pc \notin {"idle", "trap", "end"} /\ moves < MaxMoves /\ moves' = moves + 1

HelperExits(h) ==
  /\ Moves /\ h \in helpers \ Units
  /\ helpers' = helpers \ {h}
  /\ knob' = [l \in Shaping |-> [knob[l] EXCEPT ![h] = "full"]]
  /\ UNCHANGED <<script, snap, report, tasks, uclamp, freq, scx, history, births, faults>>

(* The property of a unit outlives its cgroup; the value in a file does not.*)
HelperRestarts(h) ==
  /\ Moves
  /\ helpers' = helpers \cup {h}
  /\ knob' = [l \in Shaping |->
               [knob[l] EXCEPT ![h] = IF l = "weight" /\ h \in Units THEN @ ELSE "full"]]
  /\ UNCHANGED <<script, snap, report, tasks, uclamp, freq, scx, history, births, faults>>

ThreadEnds(t) ==
  /\ Moves /\ tasks[t].born > 0
  /\ tasks' = [tasks EXCEPT ![t] = NoTask]
  /\ UNCHANGED <<script, snap, report, knob, helpers, uclamp, freq, scx, history, births,
                 faults>>

(* A new thread has the mask of the thread that made it.                    *)
ThreadStarts(t, parent) ==
  /\ Moves /\ tasks[t].born = 0 /\ tasks[parent].born > 0
  /\ births' = births + 1
  /\ tasks' = [tasks EXCEPT ![t] = [born |-> births + 1, mask |-> tasks[parent].mask,
                                    heir |-> tasks[parent].mask = "compact"]]
  /\ UNCHANGED <<script, snap, report, knob, helpers, uclamp, freq, scx, history, faults>>

GameExits ==
  /\ Moves /\ uclamp # "gone"
  /\ uclamp' = "gone" /\ tasks' = [t \in Tids |-> NoTask]
  /\ UNCHANGED <<script, snap, report, knob, helpers, freq, scx, history, births, faults>>

ScxCrashes ==
  /\ Moves /\ scx = "enabled"
  /\ scx' = "disabled" /\ crashed' = TRUE
  /\ UNCHANGED <<script, snap, report, knob, helpers, tasks, uclamp, freq, unverified,
                 inForce, refused, births, faults>>

Machine ==
  \/ \E h \in Helpers : HelperExits(h) \/ HelperRestarts(h)
  \/ \E t \in Tids : ThreadEnds(t) \/ \E p \in Tids : ThreadStarts(t, p)
  \/ GameExits \/ ScxCrashes

Script ==
  \/ Begin \/ ApplyNothing \/ ApplyShaping \/ ShapingRaises \/ ReleaseShaping
  \/ ApplyAffinity \/ NoCandidate \/ ReleaseAffinity \/ ApplyUclamp \/ ReleaseUclamp
  \/ ApplyGpu \/ ReleaseGpu \/ StartScx \/ ReleaseScx \/ ReleaseNothing
  \/ Capture \/ CaptureFails \/ Abort \/ Summarize \/ RestoreState

Next == Script \/ Machine

Spec == Init /\ [][Next]_vars

----------------------------------------------------------------------------
(* A baseline is measured on a machine without any lane: whatever the       *)
(* candidate before it wrote, and whatever happened to cgroups, threads and *)
(* the scheduler meanwhile, the run was put back or the profile stopped.    *)
(* Two things get through, and are named: a helper whose write was not      *)
(* confirmed is never put back, and a thread started by a pinned one keeps  *)
(* the mask.                                                                *)
BaselineUntouched ==
  pc = "hold" /\ lane = "off" =>
    /\ \A l \in Shaping, h \in helpers \ unverified : knob[l][h] = "full"
    /\ \A t \in Tids : tasks[t].mask = "compact" => tasks[t].heir
    /\ uclamp \in {"zero", "gone"}
    /\ \A gt \in Gts : freq[gt] = "low"
    /\ scx # "enabled"

(* However the script ends, neither the scheduler nor the floor of the GPU  *)
(* outlives it, except where the machine refused to take them back or no    *)
(* report was left of what was raised.                                      *)
TrapReleases ==
  pc = "end" =>
    /\ scx = "enabled" => "scx" \in refused
    /\ \A gt \in Gts : freq[gt] = "floor" => gt \in refused

(* The markers of the script are a lease on the scheduler and on the GTs.   *)
Contract == INSTANCE Lease WITH
  Things <- Gts \cup {"scx"},
  Marks <- {"gpu", "scx"},
  Owner <- [x \in Gts \cup {"scx"} |-> IF x = "scx" THEN "scx" ELSE "gpu"],
  lent <- {gt \in Gts : freq[gt] = "floor"} \cup {x \in {"scx"} : scx = "enabled"},
  marked <- marks,
  over <- pc = "end"

(* Every step of the script, on every path, keeps to that lease.            *)
ImplementsLease == Contract!Spec

Replaced == \E t \in report.pinned : tasks[t].born # snap.tasks[t].born

(* What may count for a lane: its knob was in force when the window closed, *)
(* on every GT, thread or cgroup it is for, and the machine is back as it   *)
(* was found.  Two things get through: a scheduler that crashed in the      *)
(* window, and a thread that ended and whose number was taken again.        *)
EvidenceMeansHeld ==
  pc = "summary" /\ lane \in Lanes \ Shaping /\ Accepted /\ Proven =>
    /\ inForce \/ crashed \/ Replaced
    /\ freq = snap.freq /\ scx # "enabled" /\ uclamp # "floor"
    /\ \A t \in Tids : tasks[t].mask = "compact" => tasks[t].heir

(* The comment of restore_state: an abort "must not leave scx_lavd running  *)
(* or the GPU floor pinned".  A floor that no report tells of is left.      *)
FloorIsRecorded == pc = "end" /\ report.gpu = "none" => \A gt \in Gts : freq[gt] = "low"

(* The comment at the end of stop_scx_lavd_variant: valid only when the     *)
(* full transition held with no crash.                                      *)
ScxValidMeansHeld == report.scx = "valid" => ~crashed

==============================================================================
