# A verified model of steamos-intel-handheld

TLA+ modules, TLC runs and TLAPS proofs kept beside the power-control service of
this repository. Everything is translated from `src/steamos_intel_handheld/`,
the profiler's script and the Decky plugin (paths below are relative to the
repository; `PROJECT.json` maps every definition to the lines it stands for).

    tlasany M.tla                        parse
    tlc -config X.cfg MC_M.tla           model-check
    tlapm MProofs.tla                    prove

Short names used below: `power_control.py` is PC, `game_power.py` GP.

## 1. The system

A root service on a handheld (MSI Claw 8 AI+) gives the Steam client a TDP slider
over D-Bus and, beside it, runs a governor that trims power while a game keeps its
frame target. One asyncio thread runs the D-Bus handlers, the power-source poller
and the governor task. Timer threads write the embedded controller (EC), a daemon
thread watches the input devices. Around the service: a command line tool and a
Decky plugin that change one control file, a profiler whose verdicts unlock the
governor's riskier lanes, and a boot service that puts the package's files back
after an OS update.

| Component | State it keeps | Operations | Module |
| --- | --- | --- | --- |
| TDP policy (PC 160-330, 836-961) | none: arithmetic | mode of a power source, PL2, burst window, effective PL1, EC bytes | TdpPolicy |
| TDP backend (PC 497-1000) | slider in a state file, overlay, last applied source | slider write, overlay, poll, start, stop | TdpBackend |
| Debounced EC writer (PC 360-490, 724-771) | pending watts, timer, lock, three EC bytes | schedule, fire, take, dump, write bytes, verify | TdpBackend |
| Target-balance controller (GP 2231-3180) | phase, ladder step, hold, breach, backoff | `evaluate` once per poll | TrimLadder |
| Governor (GP 3540-4500) | snapshots, postures, overlay, boost, latch, session | `run_once`, fast lane tick, refresh, restore, close | Governor |
| CPU and GPU actuators, cgroup writers | sysfs and cgroup files | snapshot, apply, restore with read back | Governor, RunLanes |
| Auto frame target, frame cap, input monitor | windows, drops, last proposal, applied cap, watched devices, idle time | sample, propose, search, cap, lift | AutoTarget |
| GPU-priority controller, hint store (GP 1270-1520, 2290-2380) | counters, session, aggregates, hints and their file | tick, close a session, promote, contradict, prune, load, save | Learning |
| Runtime control file | JSON file with three fields | set, clear, restore defaults; read and validate | RuntimeControl |
| Frame feed, runtime snapshot, plugin's view | two files with an age | sample, publish, show | RuntimeControl |
| Profiler's lanes (script, PR, cgroup writers) | one knob of the machine, report, markers | snapshot, apply, hold, release, undo, EXIT trap | RunLanes, Lease |
| Profiler's evidence and the verdict ledger | summaries, groups, ledger file, the daemon's copy | record, aggregate, compare, export, reload, look up | Verdicts |
| restore_etc, SteamOS manager profile | files under /etc and /usr, lock of the partition | unlock, copy, link, relock, reload managers | RestoreEtc |
| EC charge control | one EC byte | read, set | - |
| Coloring, PMU reader | counters | telemetry only | - |
| Installers, CI, plugins' user interface | offline | - | - |

Interactions. The Steam client writes the slider through the backend. The governor
calls `set_soft_pl1_w` in process and writes CPU, GPU, cgroups and the compositor's
frame limiter itself. A slider write clears the overlay in the backend and tells the
governor nothing. The poller reapplies the policy when the source changes. Each
backend operation ends by scheduling an EC write that a timer thread carries out.
The governor rereads the control file on every tick and the ledger when its
modification time changes. On stop, the tasks are cancelled at their awaits and the
governor is closed.

What is hard here: operations of three callers over the same registers; register
writes that fail one by one; two clocks (poll and fast lane) over the same knobs;
restores that must find every reduction after any history of modes, personas,
boosts, failures and games; threads that outlive a debounce; restarts that forget
memory but not registers; files that several processes replace or read in two steps;
a script that may end at any command with the machine half changed; evidence that
is counted long after the run it came from.

What makes each component correct:

* policy: the overlay only reduces, PL2 never below PL1 and never over the ceiling;
* backend: registers follow slider, overlay and source; a stop gives the slider back;
* EC writer: what is last scheduled is what the EC holds, and it is written;
* controller: a failed step stays locked, a confirmed miss releases everything,
  boosts end with their phase, a healthy game is trimmed all the way;
* governor: whatever it took can be given back, is given back on every path, and
  nothing is adopted as the baseline that was its own reduction;
* frame cap: it is known to the one who has to lift it, a player is never taken for
  idle, and the estimator takes a rung from a game only for its own samples;
* hints: what shortens a warm-up or blocks a hint rests on sessions that happened;
* control file: fields set one after the other do not disturb each other, and the
  governor comes to run under what the file says;
* profiler: a lane is given back on every way out of the script, a baseline is
  measured on an untouched machine, and what counts as evidence was in force;
* verdicts: an unlocked lane rests on whole, fair pairs measured where it is used;
* restore: success means restored, read-only again and reloaded; booting heals.

## 2. The modules

`TdpPolicy` - constants for limits, the overlay's floor, policy mode and shift
policy, and one operator per function of the policy code. Watts are integers.
`None` is 0, which no slider value is.

`TdpBackend` (extends TdpPolicy) - an operation of the asyncio thread is the record
`main`: the entry point, and the statement it is about to execute (`save`, `policy`,
`pl1`, `pl2`, `finish`). The thread finishes one operation before it starts the next,
but the power supply, timer threads, failures and crashes come between its steps.
`flush[t]` is where timer thread t is. `govSoft` and `govFailed` are the two fields
by which the governor takes part; its decision is an input. Three variables are
history: `applied` is the source whose policy the registers were last given, `steady`
says that nothing disturbed the last operation (the source kept still while anything
of it was under way, and its EC write ran alone), `ioFailed` that an I/O error cut an
operation short, and that none has been through all its writes since. Abstracted: the tau write
(its value is `ModeTau` and `LimitTau` of TdpPolicy), debounce 0, several PL1
constraints in one domain, the D-Bus getters. `--restore-on-start` is modelled, off
in every run because the installed unit does not pass it.

`TrimLadder` - `GamePowerController._evaluate_target_balance` and all its handlers.
`Tick(s)` is one poll; `Observe(s)` commits phases and counts misses; one disjunct
per handler then says what is actuated. A sample is what the controller asks of it:
raw phase, target known, satisfied, paced, cadence, verdicts (`Samples` says which
combinations `classify_game_power_phase` can produce). `rungs` is the ladder part of
the last actuation, `posture` who shaped it. Counters that the code only compares
with a limit stop at that limit.

`Governor` - `GamePowerGovernor`. A tick makes many fallible writes at one await, so
it is a composition of operators on one record `g` that holds the governor's fields
beside the knobs they are about; `F` is the set of knobs that refuse a write in that
tick, `broken` the ones that ever did. A knob is `base` as found, a posture, or
`mixed` when some of its files were written. `pc` is the await the loop stands at,
which is where a stop may find it. The decision, boost trigger, frame sample, lanes
unlocked and Auto proposal are inputs. Abstracted: sessions and telemetry, a LOADING
boost (it writes the same knobs as a boost of the lane), one background lane for
its variants, a lane's files as one knob, the GPU's range as known, `close()` once
although it is harmless twice. What the backend keeps of an overlay whose register
write failed is TdpBackend's business.

`AutoTarget` - the estimator (`est`: game, drops, the two windows) as pure operators
`Counted`, `DropTo`, `ClimbTo` composed in `Observe`; the reading of the limit with
its cache; the input monitor; and the governor's writer. Governor takes the proposal
and the idle time as inputs, and this module says where they come from; Governor has
the order in which restores happen, so here `Restore` may come at any time. `Tick` is
one poll and time is counted in polls. Abstracted: the panel's rate is a constant,
frame rates are drawn from a small set below whatever limits them, the wake-ups of
the monitor's thread between two polls are one search at the poll. `quiet`, `earned`
and `orphan` are history: they say what the player did, what the game delivered and
whether a cap was lost, and no action reads them.

`Learning` - the GPU-priority controller, the session it belongs to, and the hint
store with its file, composed on one record `g` like Governor, because one tick does
all of it. `hist` records what really happened: the log of samples of the session,
and per context the sessions that were clean or contradicted the hint. Abstracted:
record and size limits, the target_appid filter, the choice among CPU postures.

`RuntimeControl` - a command is two steps, `Begin` (read and change) and `Store`
(write a temporary file and rename it, or unlink); the governor's tick is
`LookForFile`, `ReadFile`, `Sample`, `Publish`. A file that does not parse is the one
value `Damaged`. `View` is the plugin's function of the snapshot and its age.
`intent` applies the commands to three independent settings; `serial` says whether
no command overtook another.

`Verdicts` - a profiling session records three runs per pair, each possibly with a
flaw; `Aggregate` groups them by the profiler's key and compares the groups;
the export writes the BETTER ones in place; the daemon loads in steps (`Load`,
`Read`, `Stat`) and looks lanes up on each tick. The 1% low stands for the metrics.
Entries carry the runs they were computed from, which the file does not: it lets the
property ask what the evidence was. Abstracted: p99 and averages, imported runs of
several policies, experiment plans, reports for people. A group is a set of recorded
runs and `twice` is the set of those that count double: two `--root` arguments may reach
the same directory and so the same runs, all of a group or some, which must not pass
the gate (`PairsMatch`). The charger may be moved inside a run (a flaw) or between two
(`MovePlug`), and a reboot may bring another kernel; the one an export is asked for is
taken to be the one that runs. A report whose `candidate_policy_actuators` were edited
by hand is left out. The names say Verdict (`VerdictSpec`, `VerdictTypeOK`) so that one
module can extend this one and `RunLanes`, whose runs it continues.

`RunLanes` - one controlled pair of `profile-game-power-on-device.sh` with the lane
under test: apply, hold, release, or undo and exit, then the EXIT trap. The machine
(helper cgroups, threads, clamp of the game, GPU floors, scheduler) moves on its own
in between. A policy selects at most one lane, and the application of a lane is one
step; a failure inside it is one of its outcomes, and so is an end without a report:
a GPU floor raised by a script that cannot write its report or is killed before, or a
scheduler that was started and has none. What such a release finds and returns is
`Unrecorded` and `StopResults`.

`Lease` - the abstract contract of a marker: nothing is held without a mark but what
the machine refused to take back, and the script does not end while a mark stands.
RunLanes implements it (`ImplementsLease == Contract!Spec`) under the mapping in its
`Contract` instance: lent are the floored GTs and the scheduler, marked are the
script's GPU_FLOOR_ACTIVE_RUN_DIR and SCX_LAVD_ACTIVE_RUN_DIR.

`RestoreEtc` - one run of `restore_etc.py --apply` statement by statement (`run.pc`),
started at boot or by hand, killed anywhere, with every write and command failing.
A destination holds nothing, something else, the content with a foreign mode, or
what the manifest says. `owed` are the actions whose manager has not read what is on
disk. Two variables are history: `skipped` are the actions of this boot that a run
planned and did not come to, or failed at, `modeless` the files a run left complete
and without their mode. An upgrade that changes nothing but the mode of a file is left
out, as the code does not see it.

`MC_*` give the constants of the runs; `*Proofs` hold the theorems. A definition
preceded by a comment that starts with "Mutant" is a plausible bug of the definition
it stands beside. It is used by no specification; each property is known to fail
when its mutant replaces the original.

## 3. What the runs check

| Run | Instance | Shows |
| --- | --- | --- |
| `backend_rapl` | two domains (one with a burst ceiling), a request below the overlay's floor, one clamped to the maximum and one refused, an overlay, source changes at any step, two faults | TypeOK, SettledMatchesPolicy, StopGivesSliderBack, ReductionOnly, SourceIsFollowed |
| `backend_ec` | one domain, EC enabled, three timers of which two may write at once, a request, one refused, an overlay, one fault | EcSettled, EcDebounceEnds |
| `ladder` | two base rungs and one deep rung of each kind, counters of 1 to 6, three verdict sets | TypeOK, FailedStepLocked, BoostEndsWithPhase, ConfirmedMissReleases, ClimbsWhenHealthy |
| `governor` | two games (symmetric), four modes, two personas, two intents, three frame samples, any one knob broken | TypeOK, SnapshotIsBaseline, UnmanagedMeansRestored, BoostLifts, FloorFollowsGame, LatchStopsWrites |
| `learning` | a context that can be learnt and one that cannot, hints after two sessions, seven ticks, one fault | TypeOK, HintHasEvidence, ActivationHasEvidence |
| `restore` | three manifests, four destinations, one change of release or OS, two faults | TypeOK, SuccessMeansRestored, PartitionRelocked, BootsHeal |
| `control` | two clients, six commands, an edit by hand, one fault | TypeOK, SerialIntent, InvalidHasCause, ClaimIsFresh, ConfigConverges |
| `verdicts_evidence` | five plans, two sessions, one accident anywhere (a flaw, a moved charger, a reboot), one export of any roots, overlapping or not | VerdictTypeOK, UnlockHasEvidence |
| `verdicts_ledger` | three writes of the ledger, one kill or reboot | LedgerCatchesUp |
| `lanes` | every lane, two helpers, two threads and a free number, two GTs, three moves, three faults | TypeOK, BaselineUntouched, EvidenceMeansHeld, ImplementsLease |
| `auto_target` | two games, two devices, 120 Hz, windows of two, grace of two polls, three changes, one fault | IdleNeedsQuiet, CapIsOwned, DropIsEarned |

One more run states what a docstring says of the program, and the code does
otherwise; TLC shows how:

| Run | Statement | What happens |
| --- | --- | --- |
| `claim_own_cap` | game_power_frame_target.py:133, only samples with nothing of ours applied count | the estimator is told of trims, not of the governor's own frame cap, and counts a rate at that cap as a miss of the game |

Thirteen further instances are kept beside the runs. Each reproduces a disagreement
between a document and the code, or what happens in a case that a property of a run
names as an exception; `tlc -config X.cfg MC_...` ends in a counterexample for each:

| Instance | Statement | What happens |
| --- | --- | --- |
| `claim_restart` | docs/design.md:71, no old PL1 is forced after a restart | the first poll after a start sees a "change" of source and writes the persisted PL1 |
| `claim_failed_overlay` | docs/game-power-v10-framework-plan.md:81, a stop clears the overlay | an overlay whose register write failed is stored in the backend and unknown to the governor, so nobody clears it |
| `claim_ec_stop` | the same for the EC | the clearing EC write is debounced on a daemon thread and the process exits first |
| `claim_ec_overlap` | README.md:175, the final settled EC target is written (`EcAlwaysSettled`: EcSettled without `steady`) | the EC is written outside the lock; a thread slower than the debounce writes the older value last |
| `claim_source_flicker` | README.md:154, the policy follows the source (`SourceIsAlwaysFollowed`) | a poll reads the source twice and records the first reading over the second |
| `claim_latch` | docs/game-power-v9-ultimate-design.md:291, any write failure restores everything | a neutral decision whose CPU restore fails latches and leaves the GPU floored |
| `claim_latch_cap` | message at game_power.py:4156, a failed write disables writes (`LatchStopsTheCap`) | the frame cap does not ask the latch: under it a tick applies the proposal or the idle cap |
| `claim_off_frame_cap` | docs/game-power-v10-framework-plan.md:194, every release lifts the frame cap | in mode OFF each tick lifts it and applies the surviving proposal again |
| `claim_ledger_corrupt` | docs/design.md:126, a missing or corrupt ledger disables every gated lane | the file is read and then its time is taken: an export that is killed in between leaves the old copy under the new time |
| `claim_scx_crash` | comment at scripts/profile-game-power-on-device.sh:1717, a window in which the scheduler died is not evidence | a scheduler that crashes in the window and is found disabled afterwards leaves valid evidence |
| `claim_gpu_report` | comment of restore_state in the same script, an abort leaves no GPU floor pinned (`FloorIsRecorded`) | the floor is raised before its report is written; without one the release finds nothing to undo |
| `claim_file_mode` | manifest.toml gives each file its mode (`SuccessMeansModes`) | a run that stops between the copy and the mode leaves a file that compares equal ever after |
| `claim_reload_lost` | manifest.toml gives each unit its reload (`SuccessMeansTold`) | a run that fails after it has written a unit reloads nothing, and the next one finds the unit in place |

One instance passes and is kept for its size (3,022,572 states, some minutes):
`backend_ec_sources` is `backend_ec` with EcSettled alone, without fairness, and with
a charger that is moved whenever nothing is being applied.

### Bounds

* `Requests` and `Overlays` pick what tells the paths apart: 6 W is below the overlay's
  floor of 8 (nothing to reduce), 35 W is clamped to 30 and reduced, 40 W is refused
  after it has dropped the overlay; an overlay of 3 W is raised to the floor in
  `backend_rapl`, one of 10 W stands as it is in `backend_ec`. The 30 W that firmware
  leaves are a value of the slider too, so that the start-up comparison can succeed by
  chance. All other watts are the arithmetic's business, which is proved.
* `MaxFaults` bounds crashes, reboots and failed accesses together: two let a second
  failure hit the recovery from a first.
* `MaxInFlight = 2` in `backend_ec`: a timer thread may still write when the next one
  fires. EcSettled excepts what two threads leave until an operation has run alone;
  `claim_ec_overlap` is the exception itself.
* `SourceFlicker = TRUE` in `backend_rapl`: the source may change at any step, between
  the two readings of a poll as well. `backend_ec` has one source, so that its threads
  stay within reach; the other two are in `backend_ec_sources`.
* Ladder: MaxDepth 4 has base and deep rungs of both kinds, so a verdict may be lost
  under an applied rung; `BackoffSamples` exceeds `HoldSamples`, or a lock would be
  over before the ladder can climb again. `ReleaseSamples` is 2, so that one
  unconfirmed miss exists.
* Governor: two games make a successor, one persona is capped and one is not, the
  intents have a CPU part with and without GPU and overlay. `MaxBroken = 1` lets any
  single knob break at any time and any number of times.
* Learning: seven ticks hold two sessions that earn a hint, a third that uses it and
  one that contradicts it; `HintAge = 0` and `MaxClock = 2` let a hint expire.
* Restore: two faults let a kill be followed by a failure of the run that repairs it;
  the manifests include one that names a destination twice.
* Control: two commands of two clients are enough for one to overtake the other; the
  feed and the snapshot are fresh at age 0, stale at 1.
* Verdicts: `MinRuns = 2` with one pair per session asks for two sessions, which may
  differ in scene (plan), source (`MovePlug`) or kernel (`Reboot`); the real
  threshold of 3 only adds sessions. The third write of `verdicts_ledger` is the one after a killed or missed one.
* Lanes: three thread numbers for two threads let a number be taken again; three
  faults let apply, release and trap fail in one pair.
* AutoTarget: `ShortWindow = 2` has a window that is part full; rates of 39 and 70
  with a limit of 60 are a game that holds 40 and one that needs no help; MaxChanges
  of 3 is game, limit or persona, and device in any order. `Rediscover = 1` and
  `Grace = 2` let a device come after the search and the cap come before the next.

### Fairness

Liveness is checked under weak fairness only. `TdpBackend!Fairness`: an operation in
progress goes on and the poller comes round (the asyncio loop; `Poll` sleeps a fixed
time), a timer thread that fired is scheduled, systemd starts the service again
(`Restart=on-failure` in the unit), a stop that was asked for is carried out. No
fairness is asked of requests, the governor, faults or the power supply.
`TdpBackend!TimersSpec` asks for the timer threads alone, which is all that
EcDebounceEnds needs.
`TrimLadder!FairSpec` asks only that the poll of a healthy game goes on happening as
long as it would change something. `RestoreEtc!FairSpec`: a run that started goes on,
and the machine is booted again, which is when the oneshot unit runs. It is not
assumed that boots finish: `BootsHeal` holds because faults are bounded.
`RuntimeControl!FairSpec`: the governor's steps go on, systemd restarts it, and a
command that has read the file ends. `Verdicts!FairVerdictSpec`: the daemon's loop goes on.
Governor, Learning, RunLanes and AutoTarget have safety properties only: what they
promise is that a thing is given back on the step that ends it, not later.

## 4. What is proved

For every value of the constants that satisfies the named assumptions, which TLC
evaluates on each run:

* `TdpBackendProofs`, the policy: EffectiveIsReduction, BurstWithinCeiling,
  DomainBurstOrdered, BurstMonotone, ModesOrdered, WindowsOrdered, EcBytesOrdered.
  These are arithmetic and are cited by what follows. ModesOrdered is stated for 8 to
  30 W, the range of the device: below it the formulas cross.
* `TdpBackendProofs`, the service: `BackendTyped` and `OverlayOnlyReduces`
  (ReductionOnly). TypeOK is not inductive: a write of PL1 computes from `main.watts`,
  so one needs to know that an operation past its save carries the value on disk
  (`OperationInv`) and that a timer thread past the lock carries a slider value
  (`TakenInv`). `IInv` is their conjunction, preserved action by action. ReductionOnly
  then follows from `IInv` and EffectiveIsReduction, as `WritePl1` is the only step
  that changes PL1 while the service is up.
* `TdpBackendProofs`, the registers: `SettledRegisters` (SettledMatchesPolicy) and
  `StopGivesBack` (StopGivesSliderBack), from `RInv`. `ProgressInv` is the loop
  invariant of the register writes: the domains the operation has been through, or
  the half it has done of the present one, hold its policy. `OverlayInv` ties the
  overlay in the service to the one the governor believes in, which is where a
  request that drops it and a write that fails make them differ. PL2 is compared
  with the policy of `applied`, the source it was computed from; that this is also the
  source on record holds of a `steady` operation (`claim_source_flicker` is the other
  case). Nothing is asked of the constants but their types.
* `TdpBackendProofs`, the EC: `SettledEc` (EcSettled), from `EcInv`. `Delivered` says
  where the settled value is: pending, taken by a thread, computed, partly written, or
  in the EC. Any number of threads may write at once and the source may change at any
  time: `steady` falls when either touches what the last operation started, and rises
  with the next policy read. An older thread may still be writing then; if it is when
  the new value is taken, `steady` falls again, and that is why `Delivered` can say of
  the thread that carries the settled value that it is alone (`Alone`).
* `TrimLadderProofs`: `LadderTyped`, `FailedStepStaysLocked` (FailedStepLocked),
  `ConfirmedMissesRelease` (ConfirmedMissReleases) and, when phases commit no faster
  than misses are confirmed (`SlowToCommit`, which the default configuration meets),
  `BoostsEnd` (BoostEndsWithPhase). FailedStepLocked carries itself; for BoostsEnd one
  needs `UnknownStreak`: the samples that wait to commit UNKNOWN have been counted as
  misses too, so the tick that commits it has a confirmed miss and takes the boost off.
  ConfirmedMissesRelease relates two states: of all that a poll may do under a confirmed
  miss only a climb would add a rung, and it cannot come, as the band is left with the
  first sample outside it (`LadderIsSatisfied`) and a sample that qualifies ends the
  streak.
* `GovernorProofs`, the knobs: `SnapshotsAreBaseline`, `UnmanagedRestored`,
  `FloorFollows`, `LatchHolds`. A tick makes its writes through some twenty operators on
  `g`, so the proof has one lemma per operator and an action is the composition of
  lemmas. `Found` says of each knob that has not failed what the fields next to it
  promise: without a snapshot the CPU is as it was found, without `softApplied` PL1 is
  whole, the floor is under `fg`, which is the game of the context. `Held` says what a
  mode may hold: outside target-balance nothing but the snapshot of a gpu-priority
  session, which is why closing the session is enough when that mode is left. `InPlace
  /\ Held`, with what a closed service has left, is inductive. `LatchHolds` is a
  relation between two states: `Back` composes, every restore is `Back`, and a latched
  decision makes nothing else of the knobs the latch guards. The frame cap is not among
  them; of it the theorem says that it is lifted or goes where a proposal or the idle
  rule puts it, and `claim_latch_cap` shows the latter.
* `GovernorProofs`, the record: `GovernorTyped` (TypeOK) and `BoostsLift` (BoostLifts),
  from `GInv`. `Typed` bounds every field and links snapshots to knobs and the session
  to its key. BoostLifts is about knobs, yet a boost does not look at them: it skips the
  write when the actuation the governor believes applied is already the boost's. `Sound`
  therefore says that no such belief is contradicted by the knob, which holds because a
  refused write is not recorded as applied, and `Lifted` what a tick or the fast lane
  leaves believed under a boost that nothing latched. Each operator of a tick has a
  lemma that keeps `Sound`; a step is their composition.
* `ProfilerProofs`: `LanesImplementLease`, the refinement: every step of the script
  and of the machine is a step of Lease or a stutter, for every set of helpers,
  threads and GTs. The invariant is `Typed /\ MarkedWhereHeld /\ Explained`: the
  markers stand only where their lane is held, and whatever the machine holds without
  a marker it was asked to take back and refused, or no report told the release of it
  (`refused` has both). Without the second conjunct a
  release could take the mark off a lane that is still applied. What the contract is
  worth is proved of it alone, `AlwaysAccounted` and `LeaseLeaksNothing`, and
  `NothingOutlives` says the same of the script.
* `ProfilerProofs`, the runs: `LanesTyped`, `BaselinesUntouched` (BaselineUntouched)
  and `EvidenceIsHeld` (EvidenceMeansHeld). `Back` has one conjunct per lane: whatever
  is on the machine outside the window of that lane is named by the report that will
  take it back, is an exception the property names, or has stopped the profile. `Held`
  says the converse of a run that has its lane: what the report names is in force until
  a step of the machine takes it off, and such a step shows in `inForce`.
* `ProfilerProofs`, the evidence: `VerdictsTyped` (VerdictTypeOK) and
  `UnlocksHaveEvidence` (UnlockHasEvidence), for any plans and any `--min-runs`.
  UnlockHasEvidence speaks of lanes the daemon holds, at the end of a long way, so
  `VInv` says the same of every place on it: each comparison in a kept report is
  `Backed`; each entry in a file, in an export under way, in what the daemon has read,
  in its copy and behind a lane is `Evidenced`. The substance is in `BetterCompared`:
  the gate counts positions per pair, and from a count of one in each (`CountsOne`: no
  run is counted twice) come three different runs, so a pair is whole (`GatePair`); the
  candidates are one to a pair, so as many runs as `--min-runs` asks for are as many
  pairs. Recording appends and moves no run (`RunsStay`): what was evidence stays it.
* `AutoTargetProofs`: `CapAlwaysOwned` (CapIsOwned is inductive alone: one lemma about
  the writer covers every caller). `IdleNeverOverstated` (IdleNeedsQuiet) needs
  `UnseenIsYoung`: a device that is there and not watched is younger than the
  search's interval, so touching it cannot reset `quiet` below the idle time.
  `DropsAreEarned` (DropIsEarned) needs `WindowIsOfGame`: the window holds samples of
  one game, no more than that game has delivered since its last drop. It speaks of the
  drops of the estimator; the proposal that outlives a game is in section 5.
* `RestoreEtcProofs`: `RestoreTyped`, `PartitionRelocks` (PartitionRelocked) and
  `SuccessRestores` (SuccessMeansRestored), for every set of manifests that have an
  entry (the code accepts an empty list too, no release ships one). None of the three
  is inductive. `Positioned` says where a run is: idle, or at an entry of a manifest
  that loads. `DoneSoFar` says that a run without a failure has the entries behind it
  in place; it survives a write because destinations differ, which is all that the
  rejection of duplicates is for. `PlannedIsOwed` says that what no manager has read
  is planned, belongs to the entry being written or was skipped, `ModesKnown` that a
  file without its mode is at its last statement or was left there by a run that
  ended, and `UnlockedIsOwned` that an unlocked partition belongs to a run that has its
  relock before it. The two exceptions of success are those histories: a file left
  without its mode (`modeless`), a reload that an earlier run of the same boot failed
  to make (`skipped`).

* `RuntimeControlProofs`: `ControlTyped`, `CommandsAreSettings` (SerialIntent),
  `InvalidIsCaused` (InvalidHasCause) and `ClaimsAreFresh` (ClaimIsFresh). `CleanInv`
  follows the content of the file into what each client has read: until somebody edits
  it, no order of reads, replaces and unlinks makes it anything but clean. `SerialInv`
  adds what SerialIntent leaves out, that the file parses. It is assumed
  (`InputAssumption`) that no command asks for a setting the parser of the CLI rejects.
* `LearningProofs`: `LearningTyped`, `HintsHaveEvidence` (HintHasEvidence) and
  `TuningHasEvidence` (ActivationHasEvidence). A tick is a composition of operators on
  the governor's record, as in Governor, so there is a lemma per operator, and the
  invariant is one predicate `LInv` of that record, the history of what was observed
  and the number of ticks. `SessionOf` and `RunOf` tie the controller's counters to the
  log of the session: the counted hits are the hits of the log, `positive` is the run
  it ends in, the window its last samples, and the hint is disabled exactly if the log
  has `Threshold` misses in a row. `ToldOf` and `KnobOf` say what the session knows of
  the CPU, which is why a session that counts as clean left it as it was found.
  `StoreOf` says that no aggregate and no entry, in memory and in the file, claims more
  than the clean sessions of its context, and `OffenceOf` that contradictions are
  counted from the last of them, in the file too once a save has gone through. A start
  after a failed save or with a damaged file does forget what was not saved; the
  history forgets the same offences there, and no others.

Every type invariant, safety invariant and action property of the runs has a theorem.
Model-checked only are the liveness properties (SourceIsFollowed, EcDebounceEnds,
ClimbsWhenHealthy, BootsHeal, ConfigConverges, LedgerCatchesUp): they rest on ENABLED,
which is out of the prover's reach, as is induction over data. No proof needs the
latter: aggregates are set constructions, and no property turns on what a median is,
only on the conditions next to it.

## 5. What the models make visible

Behaviour that the documents do not mention, that the models contain as the code has
it, and that a property names as an exception rather than hides:

* Frame cap. The last proposal is never forgotten (GP 3897), so the next game may be
  capped by what the one before it could hold. The cap makes the player's target
  unreachable while the target stays what it was, so the ladder sees a game below
  target. A climb is proposed and refused as no reduction (GP 4006), so a cap that
  dropped is given back only by a restore, a persona or a manual target. An idle cap
  stays while a proposal that is no reduction is around (GP 3995-4007). A compositor
  that restarts without the cap is not noticed. A monitor without any device reports
  a growing idle time, although its builder says a missing signal never engages it.
  The cap is outside the latch of a failed write (GP 3969-4011): it goes on following
  proposals while everything else only goes back.
* EC. Two timer threads may write at once; what the older one leaves stays until the
  next operation. A poll may record another source than the one it applied.
* Lanes. Two of them have a marker for the EXIT trap; the others are undone only where
  the script knows that they failed. A helper whose write was not confirmed is not
  put back (`unverified`), and a thread started by a pinned thread keeps its mask
  (`heir`). A GPU floor raised before its report is written is not taken back when
  the report never comes. A restore clears its marker first, so the EXIT trap does not
  try again what failed there. What a session leaves is the baseline of the next: the
  properties speak of one. A scheduler and its marker are started in one step of the
  model; the script may be stopped between the two.
* Evidence. The ledger's lookup uses PL1 as reduced by the overlay, so a trim may move
  the daemon to another bucket. `--min-runs 1` exports what one pair says. A later
  REJECTED does not revoke a BETTER. An unrestored run disqualifies its whole group.
* Hints. Any sample that is not positive tells against a hint. A session that
  contradicted never enters the aggregate, a promoted entry is not demoted, and
  expiry forgets the count of contradictions. A save that failed leaves memory ahead
  of the file. Two services would be last writer wins.
* Control file. A command that overtakes another loses its field (`serial` exempts
  it). Setting a target or persona keeps an invalid mode. The governor reads the file
  twice per tick.
* Restore. The composed device profile's drift is not part of `--check`. A failed
  unlock fails the whole run, managed files under /etc included. The mode of a file that
  compares equal is never looked at, and a reload that a failed run owed is made by no
  later one of the same boot.

## 6. What is not modelled

The observer turns sysfs, MangoHud and /proc into a sample with numeric heuristics:
the sample is an input. Coloring and the PMU reader are telemetry. The profiler's
figures for people, its plans and its imports decide nothing the daemon reads. EC
charge control writes one byte with read back, and shares the EC interface with the
backend but none of its bytes. Installers, packaging, CI, plugins' user interface and
session wrappers keep no state of the running service. `PROJECT.json` lists each with
its reason, and each hazard no property covers with a note.

## 7. Plan

1. (done) TdpPolicy, TdpBackend, TrimLadder, Governor; RestoreEtc, RuntimeControl,
   Verdicts, Learning, RunLanes with Lease, AutoTarget; their runs; the proofs above.
2. `LadderLoop`: TrimLadder, Governor, AutoTarget and TdpBackend composed. The context
   key holds PL1, which a trim changes (GP 1207, 4398), and the target stays while the
   frame cap holds the frames below it: does a trim reset its own baseline, does a cap
   cost a trim?
3. `PowerContract`: slider, overlay and registers as one atomic step; TdpBackend shown
   to implement it under the mapping "the operation takes effect at its last write".
4. `EcCharge`: two processes on one EC interface.
