----------------------------- MODULE TrimLadder -----------------------------
(***************************************************************************)
(* The target-balance controller of game_power.py (GamePowerController):   *)
(* every poll it classifies one sample into a phase, commits the phase     *)
(* with asymmetric hysteresis, and at or above the frame target climbs a   *)
(* ladder of power trims one rung at a time.  A confirmed miss drops every *)
(* rung and locks the failed step out for a while.                         *)
(*                                                                         *)
(* A sample is reduced to what the controller asks of it: the raw phase,   *)
(* whether a target is known, whether it is satisfied, whether the p95     *)
(* frame time is inside the pacing guard, whether the cadence is high      *)
(* enough to leave LOADING, and which deep rungs a verdict unlocks.        *)
(* Counters are capped where the code only compares them with a limit.     *)
(***************************************************************************)
EXTENDS Integers, Sequences, FiniteSets

CONSTANTS
  BaseRungs,          (* _filtered_base_rungs() of the persona             *)
  GpuDeepRungs,       (* unlocked by a gpu-cap verdict                     *)
  CpuDeepRungs,       (* unlocked by a ladder-step-5 verdict               *)
  HoldSamples,        (* ladder_hold_samples                               *)
  StableSamples,      (* phase_stable_samples                              *)
  LoadingExitSamples, (* loading_exit_samples                              *)
  ReleaseSamples,     (* ladder_release_samples                            *)
  BackoffSamples,     (* _backoff_samples()                                *)
  LoadingBudget,      (* ticks of LOADING in loading_boost_max_s           *)
  WideGuard,          (* persona ac-quiet: the guard exceeds the allowance *)
  HasTargetAppid,     (* target_appid is configured                        *)
  Verdicts            (* the combinations of deep verdicts that occur      *)

NoGame == "no-game"
NoTarget == "no-target"
Loading == "loading"
Unknown == "unknown"
Below == {"below-target-cpu-bound", "below-target-gpu-bound"}
Band == {"at-target", "above-target"}
Phases == {NoGame, NoTarget, Loading, Unknown} \union Below \union Band
NoPhase == "none"

Deep == {"gpu-cap", "ladder-step-5"}
VerdictSets == SUBSET Deep

ASSUME LadderAssumption ==
  /\ BaseRungs \in Seq(STRING) /\ GpuDeepRungs \in Seq(STRING)
  /\ CpuDeepRungs \in Seq(STRING)
  /\ HoldSamples \in Nat \ {0} /\ StableSamples \in Nat \ {0}
  /\ LoadingExitSamples \in Nat \ {0} /\ ReleaseSamples \in Nat \ {0}
  /\ BackoffSamples \in Nat \ {0} /\ LoadingBudget \in Nat
  /\ WideGuard \in BOOLEAN /\ HasTargetAppid \in BOOLEAN
  /\ Verdicts \subseteq VerdictSets

VARIABLES
  committed,     (* _committed_phase                                       *)
  pending,       (* _pending_phase                                         *)
  pendingCount,  (* _pending_phase_count                                   *)
  loadingTicks,  (* _loading_ticks, capped one above LoadingBudget         *)
  breach,        (* _ladder_breach, capped at ReleaseSamples               *)
  step,          (* _ladder_step                                           *)
  hold,          (* _ladder_hold, capped at HoldSamples                    *)
  backoff,       (* ticks _ladder_backoff still locks each step            *)
  posture,       (* which handler shaped _last_actuation                   *)
  rungs,         (* the rungs in _last_actuation                           *)
  last           (* _current_sample: its raw phase, fitness and verdicts   *)

phaseVars == <<committed, pending, pendingCount, loadingTicks>>
vars == <<committed, pending, pendingCount, loadingTicks, breach, step, hold,
          backoff, posture, rungs, last>>

Least(a, b) == IF a <= b THEN a ELSE b

MaxDepth == Len(BaseRungs) + Len(GpuDeepRungs) + Len(CpuDeepRungs)
Steps == 1 .. MaxDepth

(* _rung_sequence(): the persona's rungs, then what the verdicts unlock.   *)
RungSequence(verdicts) ==
  BaseRungs \o (IF "gpu-cap" \in verdicts THEN GpuDeepRungs ELSE << >>)
            \o (IF "ladder-step-5" \in verdicts THEN CpuDeepRungs ELSE << >>)

Top(verdicts) == Len(RungSequence(verdicts))

(* _active_rungs(): a slice, so a step beyond the end adds nothing.        *)
ActiveRungs(verdicts, n) ==
  {RungSequence(verdicts)[i] : i \in 1 .. Least(n, Top(verdicts))}

(* What a sample may be.  Satisfaction needs a known target and a frame    *)
(* rate well above the loading cadence; without a target every sample has  *)
(* the cadence.                                                            *)
Samples ==
  {s \in [raw : Phases, known : BOOLEAN, sat : BOOLEAN, paced : BOOLEAN,
          cadence : BOOLEAN, verdicts : Verdicts] :
     /\ s.sat => s.known /\ s.cadence
     /\ s.paced => s.known
     /\ ~ s.known => s.cadence
     /\ s.raw = NoTarget => ~ s.known
     /\ s.raw = Loading => s.known
     /\ s.raw \in Band => s.sat
     /\ s.raw \in Below \union {Unknown} => s.known /\ ~ s.sat}

(* A sample is fit when it neither misses the target nor breaches the      *)
(* pacing guard.                                                           *)
Fit(s) == s.sat /\ s.paced
NoSample == [raw |-> NoGame, fit |-> FALSE, verdicts |-> {}]

Init ==
  /\ committed = NoGame /\ pending = NoPhase /\ pendingCount = 0
  /\ loadingTicks = 0
  /\ breach = 0 /\ step = 0 /\ hold = 0
  /\ backoff = [k \in Steps |-> 0]
  /\ posture = "neutral" /\ rungs = {}
  /\ last = NoSample

----------------------------------------------------------------------------
(* The part of a tick every phase shares.                                  *)

(* _phase_commit_samples: fast to give power back, slow to take it away.   *)
CommitSamples(raw) ==
  IF raw = Loading THEN 1
  ELSE IF committed = Loading THEN LoadingExitSamples
  ELSE IF committed \in Band /\ raw \notin Band THEN 1
  ELSE StableSamples

(* Mutant: the pending phase survives being committed.                     *)
CommitPhaseKeepsPending(s) ==
  LET count == IF committed = Loading /\ ~ s.cadence THEN 0
               ELSE IF pending = s.raw THEN pendingCount + 1
               ELSE 1
  IN  IF s.raw = committed \/ count >= CommitSamples(s.raw)
      THEN committed' = s.raw /\ UNCHANGED <<pending, pendingCount>>
      ELSE committed' = committed /\ pending' = s.raw /\ pendingCount' = count

(* _commit_phase: a raw phase is committed once it has been seen often     *)
(* enough in a row; a sample below the cadence does not count toward       *)
(* leaving LOADING.                                                        *)
CommitPhase(s) ==
  LET count == IF committed = Loading /\ ~ s.cadence THEN 0
               ELSE IF pending = s.raw THEN pendingCount + 1
               ELSE 1
  IN  IF s.raw = committed \/ count >= CommitSamples(s.raw)
      THEN committed' = s.raw /\ pending' = NoPhase /\ pendingCount' = 0
      ELSE committed' = committed /\ pending' = s.raw /\ pendingCount' = count

(* The miss streak: a missed target or a breach of the pacing guard.       *)
CountMiss(s) ==
  breach' = IF Fit(s) THEN 0 ELSE Least(breach + 1, ReleaseSamples)

MissConfirmed == breach = ReleaseSamples

CountLoading ==
  loadingTicks' = IF committed' = Loading
                  THEN Least(loadingTicks + 1, LoadingBudget + 1) ELSE 0

Observe(s) ==
  /\ CommitPhase(s) /\ CountMiss(s) /\ CountLoading
  /\ last' = [raw |-> s.raw, fit |-> Fit(s), verdicts |-> s.verdicts]

(* Mutant: time does not unlock a step.                                    *)
AgedFrozen == backoff

(* One tick later.                                                         *)
Aged == [k \in Steps |-> IF backoff[k] = 0 THEN 0 ELSE backoff[k] - 1]

(* The present step is locked out, and the ladder starts over.             *)
FailStep ==
  /\ backoff' = IF step = 0 THEN Aged ELSE [Aged EXCEPT ![step] = BackoffSamples]
  /\ step' = 0 /\ hold' = 0

Actuate(p, r) == posture' = p /\ rungs' = r

(* Outside the band the ladder is not actuated; only a confirmed miss      *)
(* loses its position, and only a missed target earns a backoff.           *)
LeaveBand ==
  IF MissConfirmed' /\ committed' \in Below
  THEN FailStep
  ELSE /\ backoff' = Aged
       /\ step' = IF MissConfirmed' THEN 0 ELSE step
       /\ hold' = 0

(* The handlers ask again whether the target is satisfied.  The answer may *)
(* differ from the one counted above only at step 0, where this very       *)
(* sample may have moved the learned p95 baseline in between.              *)
SatisfiedNow(s) ==
  IF step # 0 \/ ~ s.known THEN {s.sat}
  ELSE IF Fit(s) /\ ~ WideGuard THEN {TRUE}
  ELSE BOOLEAN

----------------------------------------------------------------------------
(* One handler per committed phase.                                        *)

(* NO_GAME and NO_TARGET fall back to gpu-priority, which without a game   *)
(* asks for nothing.                                                       *)
FallBack(s) ==
  /\ committed' \in {NoGame, NoTarget}
  /\ LeaveBand
  /\ \/ Actuate("neutral", {})
     \/ /\ s.raw # NoGame /\ FALSE \in SatisfiedNow(s)
        /\ Actuate("gpu-priority", {})

LoadingBoost ==
  /\ committed' = Loading
  /\ LeaveBand
  /\ Actuate(IF loadingTicks' > LoadingBudget THEN "neutral" ELSE "loading", {})

BelowTarget ==
  /\ committed' \in Below
  /\ LeaveBand
  /\ Actuate(committed', {})

(* Mutant: UNKNOWN always holds.                                           *)
UnknownHolds(s) ==
  /\ committed' = Unknown
  /\ backoff' = Aged
  /\ UNCHANGED <<step, hold, posture, rungs>>

(* UNKNOWN holds the last actuation, except on a confirmed target miss.    *)
UnknownPhase(s) ==
  /\ committed' = Unknown
  /\ IF s.known /\ ~ s.sat /\ MissConfirmed'
     THEN FailStep /\ Actuate("neutral", {})
     ELSE backoff' = Aged /\ UNCHANGED <<step, hold, posture, rungs>>

(* A foreground game that is not the configured one.                       *)
ForeignGame ==
  /\ HasTargetAppid
  /\ committed' = NoGame /\ pending' = NoPhase /\ pendingCount' = 0
  /\ loadingTicks' = 0
  /\ step' = 0 /\ hold' = 0
  /\ backoff' = Aged
  /\ Actuate("neutral", {})
  /\ last' = NoSample
  /\ UNCHANGED breach

----------------------------------------------------------------------------
(* _target_balance_ladder: at or above the target.                         *)

Trim(s, n) ==
  LET r == ActiveRungs(s.verdicts, n)
  IN  Actuate(IF r = {} THEN "neutral" ELSE "trim", r)

OnLadder == committed' \in Band

(* The verdict that unlocked the present step no longer matches.           *)
LockLost(s) ==
  /\ OnLadder
  /\ step > Top(s.verdicts)
  /\ step' = Top(s.verdicts) /\ hold' = 0
  /\ backoff' = Aged
  /\ Trim(s, step')

Missing(s) == \E sat \in SatisfiedNow(s) : ~ (sat /\ s.paced)
Qualifying(s) == s.paced /\ TRUE \in SatisfiedNow(s)

(* Mutant: a confirmed miss may be held as well.                           *)
HoldAnyBreach(s) ==
  /\ OnLadder
  /\ step <= Top(s.verdicts)
  /\ Missing(s)
  /\ hold' = 0
  /\ backoff' = Aged
  /\ Trim(s, step)
  /\ UNCHANGED step

HoldUnconfirmed(s) ==
  /\ OnLadder
  /\ step <= Top(s.verdicts)
  /\ Missing(s) /\ ~ MissConfirmed'
  /\ hold' = 0
  /\ backoff' = Aged
  /\ Trim(s, step)
  /\ UNCHANGED step

FastRelease(s) ==
  /\ OnLadder
  /\ step <= Top(s.verdicts)
  /\ Missing(s) /\ MissConfirmed'
  /\ FailStep
  /\ Trim(s, 0)

HoldRequired ==
  IF committed' = "above-target" THEN IF HoldSamples < 2 THEN 1 ELSE HoldSamples \div 2
  ELSE HoldSamples

(* Mutant: the backoff is not asked.                                       *)
MayClimbRegardless(s) == hold + 1 >= HoldRequired /\ step < Top(s.verdicts)

MayClimb(s) ==
  /\ hold + 1 >= HoldRequired
  /\ step < Top(s.verdicts)
  /\ Aged[step + 1] = 0

StepUp(s) ==
  /\ OnLadder
  /\ step <= Top(s.verdicts)
  /\ Qualifying(s) /\ MayClimb(s)
  /\ step' = step + 1 /\ hold' = 0
  /\ backoff' = Aged
  /\ Trim(s, step')

(* Not held long enough yet, locked by a backoff, or at the last rung.     *)
HoldStep(s) ==
  /\ OnLadder
  /\ step <= Top(s.verdicts)
  /\ Qualifying(s) /\ ~ MayClimb(s)
  /\ hold' = Least(hold + 1, HoldSamples)
  /\ backoff' = Aged
  /\ Trim(s, step)
  /\ UNCHANGED step

----------------------------------------------------------------------------
(* One poll: the shared part, then the handler of the committed phase.     *)
Tick(s) ==
  /\ Observe(s)
  /\ \/ FallBack(s) \/ LoadingBoost \/ BelowTarget \/ UnknownPhase(s)
     \/ LockLost(s) \/ HoldUnconfirmed(s) \/ FastRelease(s) \/ StepUp(s) \/ HoldStep(s)

Next == (\E s \in Samples : Tick(s)) \/ ForeignGame

Spec == Init /\ [][Next]_vars

(* The loop never stops polling.  A poll that changes nothing is a stutter *)
(* here, so fairness is asked of the poll ClimbsWhenHealthy is about: it   *)
(* goes on happening as long as it would change anything.                  *)
HealthyPoll ==
  Tick([raw |-> "at-target", known |-> TRUE, sat |-> TRUE, paced |-> TRUE,
        cadence |-> TRUE, verdicts |-> Deep])

FairSpec == Spec /\ WF_vars(HealthyPoll)

----------------------------------------------------------------------------
(* Properties.                                                             *)

Postures == {"neutral", "gpu-priority", "loading", "trim"} \union Below

AllRungs == ActiveRungs(Deep, MaxDepth)

(* Every variable keeps its type; a pending phase differs from the         *)
(* committed one.                                                          *)
TypeOK ==
  /\ committed \in Phases
  /\ pending \in (Phases \union {NoPhase}) \ {committed}
  /\ pendingCount \in Nat
  /\ loadingTicks \in 0 .. LoadingBudget + 1
  /\ breach \in 0 .. ReleaseSamples
  /\ step \in 0 .. MaxDepth
  /\ hold \in 0 .. HoldSamples
  /\ backoff \in [Steps -> 0 .. BackoffSamples]
  /\ posture \in Postures
  /\ rungs \subseteq AllRungs
  /\ last \in [raw : Phases, fit : BOOLEAN, verdicts : Verdicts \union {{}}]

(* Anti-oscillation: after a confirmed miss at step k the controller is at *)
(* a step below k until the backoff is over, whatever phases it passes     *)
(* through on the way and whatever verdicts come and go.                   *)
FailedStepLocked == \A k \in Steps : backoff[k] > 0 => step < k

(* Fast release: the tick after a miss is confirmed no rung is left - save *)
(* in UNKNOWN, which may hold them, and on a tick that also loses a        *)
(* verdict, which only drops the rungs that verdict had unlocked.          *)
ConfirmedMissReleases ==
  [][MissConfirmed /\ MissConfirmed' /\ committed' # Unknown
       => rungs' = {} \/ step' \in 1 .. step - 1]_vars

(* UNKNOWN holds the last actuation, yet no boost outlives its own phase   *)
(* that way, nor the time LOADING may boost.                               *)
BoostEndsWithPhase ==
  /\ posture = "loading" => committed = Loading /\ loadingTicks <= LoadingBudget
  /\ posture \in Below => committed = posture
  /\ posture = "gpu-priority" => committed \in {NoGame, NoTarget}

(* A game that stays at its target with healthy pacing and every deep rung *)
(* unlocked is trimmed all the way, whatever came before: locks run out    *)
(* and the ladder reaches its last rung.                                   *)
ClimbsWhenHealthy ==
  <>[](last = [raw |-> "at-target", fit |-> TRUE, verdicts |-> Deep])
    => <>[](step = MaxDepth)

=============================================================================
