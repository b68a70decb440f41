-------------------------- MODULE TrimLadderProofs --------------------------
(***************************************************************************)
(* TrimLadder for every ladder and every length of its counters: type      *)
(* correctness, the lock on a failed step, and - where a change of phase   *)
(* takes at least as many samples as a confirmed miss - the end of every   *)
(* boost with its phase.                                                   *)
(***************************************************************************)
EXTENDS TrimLadder, SequenceTheorems, TLAPS

(* The defaults of GamePowerConfig: 3 and 5 samples against 2.             *)
SlowToCommit ==
  StableSamples >= ReleaseSamples /\ LoadingExitSamples >= ReleaseSamples

----------------------------------------------------------------------------
(* Rungs.                                                                  *)

(* A verdict set unlocks a sequence no longer than the whole ladder.       *)
LEMMA TopFacts ==
  ASSUME NEW v \in VerdictSets
  PROVE  /\ RungSequence(v) \in Seq(STRING)
         /\ Top(v) \in 0 .. MaxDepth
         /\ MaxDepth \in Nat
<1>0. BaseRungs \in Seq(STRING) /\ GpuDeepRungs \in Seq(STRING) /\ CpuDeepRungs \in Seq(STRING)
  BY LadderAssumption
<1>. DEFINE gpu == IF "gpu-cap" \in v THEN GpuDeepRungs ELSE << >>
            cpu == IF "ladder-step-5" \in v THEN CpuDeepRungs ELSE << >>
<1>1. gpu \in {<< >>, GpuDeepRungs} /\ cpu \in {<< >>, CpuDeepRungs}
  OBVIOUS
<1>2. RungSequence(v) = BaseRungs \o gpu \o cpu
  BY DEF RungSequence
<1>. HIDE DEF gpu, cpu
<1>e. << >> \in Seq(STRING) /\ Len(<< >>) = 0
  BY EmptySeq
<1>l. Len(GpuDeepRungs) \in Nat /\ Len(CpuDeepRungs) \in Nat
  BY <1>0, LenProperties
<1>3. gpu \in Seq(STRING) /\ Len(gpu) <= Len(GpuDeepRungs)
  <2>1. CASE gpu = << >>
    BY <2>1, <1>e, <1>l
  <2>2. CASE gpu = GpuDeepRungs
    BY <2>2, <1>0, <1>l
  <2>. QED
    BY <1>1, <2>1, <2>2
<1>4. cpu \in Seq(STRING) /\ Len(cpu) <= Len(CpuDeepRungs)
  <2>1. CASE cpu = << >>
    BY <2>1, <1>e, <1>l
  <2>2. CASE cpu = CpuDeepRungs
    BY <2>2, <1>0, <1>l
  <2>. QED
    BY <1>1, <2>1, <2>2
<1>5. /\ BaseRungs \o gpu \o cpu \in Seq(STRING)
      /\ Len(BaseRungs \o gpu \o cpu) = Len(BaseRungs) + Len(gpu) + Len(cpu)
  BY <1>0, <1>3, <1>4
<1>6. /\ Len(BaseRungs) \in Nat /\ Len(GpuDeepRungs) \in Nat /\ Len(CpuDeepRungs) \in Nat
      /\ Len(gpu) \in Nat /\ Len(cpu) \in Nat
  BY <1>0, <1>3, <1>4
<1>. QED
  BY <1>2, <1>3, <1>4, <1>5, <1>6 DEF Top, MaxDepth

(* Every applied rung is a rung of the whole ladder.                       *)
LEMMA RungsInLadder ==
  ASSUME NEW v \in VerdictSets, NEW n \in Nat
  PROVE  ActiveRungs(v, n) \subseteq AllRungs
<1>. DEFINE B == BaseRungs  G == GpuDeepRungs  C == CpuDeepRungs
<1>1. B \in Seq(STRING) /\ G \in Seq(STRING) /\ C \in Seq(STRING)
  BY LadderAssumption
<1>2. RungSequence(Deep) = B \o G \o C
  BY DEF RungSequence, Deep
<1>3. \A i \in 1 .. MaxDepth : RungSequence(Deep)[i] \in AllRungs
  <2>1. Top(Deep) = MaxDepth /\ MaxDepth \in Nat
    <3>1. Len(B \o G \o C) = Len(B) + Len(G) + Len(C) /\ Len(B \o G \o C) \in Nat
      BY <1>1
    <3>. QED
      BY <1>2, <3>1 DEF Top, MaxDepth
  <2>. QED
    BY <2>1 DEF AllRungs, ActiveRungs, Least
<1>4. \A i \in 1 .. Top(v) : \E j \in 1 .. MaxDepth : RungSequence(v)[i] = (B \o G \o C)[j]
  <2>. SUFFICES ASSUME NEW i \in 1 .. Top(v)
                PROVE  \E j \in 1 .. MaxDepth : RungSequence(v)[i] = (B \o G \o C)[j]
    OBVIOUS
  <2>0. MaxDepth = Len(B) + Len(G) + Len(C) /\ Len(B) \in Nat /\ Len(G) \in Nat /\ Len(C) \in Nat
    BY <1>1 DEF MaxDepth
  <2>1. CASE "gpu-cap" \in v /\ "ladder-step-5" \in v
    <3>1. RungSequence(v) = B \o G \o C
      BY <2>1 DEF RungSequence
    <3>. QED
      BY <3>1, TopFacts DEF Top
  <2>2. CASE "gpu-cap" \in v /\ "ladder-step-5" \notin v
    <3>1. RungSequence(v) = B \o G \o << >>
      BY <2>2 DEF RungSequence
    <3>2. Top(v) = Len(B) + Len(G)
      BY <1>1, <3>1 DEF Top
    <3>3. RungSequence(v)[i] = (B \o G \o C)[i] /\ i \in 1 .. MaxDepth
      BY <1>1, <2>0, <3>1, <3>2
    <3>. QED
      BY <3>3
  <2>3. CASE "gpu-cap" \notin v /\ "ladder-step-5" \in v
    <3>1. RungSequence(v) = B \o << >> \o C
      BY <2>3 DEF RungSequence
    <3>2. Top(v) = Len(B) + Len(C)
      BY <1>1, <3>1 DEF Top
    <3>3. CASE i <= Len(B)
      <4>1. RungSequence(v)[i] = (B \o G \o C)[i] /\ i \in 1 .. MaxDepth
        BY <1>1, <2>0, <3>1, <3>2, <3>3
      <4>. QED
        BY <4>1
    <3>4. CASE i > Len(B)
      <4>. DEFINE j == i + Len(G)
      <4>1. j \in 1 .. MaxDepth
        BY <2>0, <3>2, <3>4
      <4>2. RungSequence(v)[i] = (B \o G \o C)[j]
        BY <1>1, <2>0, <3>1, <3>2, <3>4
      <4>. QED
        BY <4>1, <4>2
    <3>. QED
      BY <3>3, <3>4, <2>0, <3>2
  <2>4. CASE "gpu-cap" \notin v /\ "ladder-step-5" \notin v
    <3>1. RungSequence(v) = B \o << >> \o << >>
      BY <2>4 DEF RungSequence
    <3>2. Top(v) = Len(B)
      BY <1>1, <3>1 DEF Top
    <3>3. RungSequence(v)[i] = (B \o G \o C)[i] /\ i \in 1 .. MaxDepth
      BY <1>1, <2>0, <3>1, <3>2
    <3>. QED
      BY <3>3
  <2>. QED
    BY <2>1, <2>2, <2>3, <2>4
<1>5. ActiveRungs(v, n) \subseteq {RungSequence(v)[i] : i \in 1 .. Top(v)}
  <2>1. Top(v) \in Nat
    BY TopFacts
  <2>. QED
    BY <2>1 DEF ActiveRungs, Least
<1>6. \A i \in 1 .. Top(v) : RungSequence(v)[i] \in AllRungs
  BY <1>2, <1>3, <1>4
<1>. QED
  BY <1>5, <1>6

(* Taking more rungs than there are adds nothing; taking none leaves none. *)
LEMMA NoRungs == \A v \in VerdictSets : ActiveRungs(v, 0) = {}
<1>. SUFFICES ASSUME NEW v \in VerdictSets PROVE ActiveRungs(v, 0) = {}
  OBVIOUS
<1>1. Top(v) \in Nat
  BY TopFacts
<1>. QED
  BY <1>1 DEF ActiveRungs, Least

----------------------------------------------------------------------------
(* The inductive invariant.                                                *)

(* A sample that reads UNKNOWN misses its target, so the misses counted in *)
(* a row are at least the samples that wait to commit UNKNOWN.             *)
UnknownStreak ==
  pending = Unknown => breach >= pendingCount \/ breach = ReleaseSamples

IInv == TypeOK /\ FailedStepLocked /\ UnknownStreak

LEMMA SampleFacts ==
  ASSUME NEW s \in Samples
  PROVE  /\ s.raw \in Phases
         /\ Fit(s) \in BOOLEAN
         /\ s.verdicts \in Verdicts /\ s.verdicts \in VerdictSets
         /\ s.raw = Unknown => s.known /\ ~ s.sat
BY LadderAssumption DEF Samples, Fit, Unknown

LEMMA DepthFacts == MaxDepth \in Nat /\ Steps = 1 .. MaxDepth
<1>1. {} \in VerdictSets
  BY DEF VerdictSets
<1>. QED
  BY <1>1, TopFacts DEF Steps

LEMMA ConstantFacts ==
  /\ ReleaseSamples \in Nat \ {0} /\ BackoffSamples \in Nat \ {0}
  /\ HoldSamples \in Nat \ {0} /\ LoadingBudget \in Nat
  /\ StableSamples \in Nat \ {0} /\ LoadingExitSamples \in Nat \ {0}
BY LadderAssumption

(* The phases are pairwise different, and none of them is NoPhase.         *)
LEMMA PhaseFacts ==
  /\ {NoGame, NoTarget, Loading, Unknown} \subseteq Phases
  /\ NoPhase \notin Phases
  /\ Unknown \notin Band /\ Unknown \notin Below
  /\ Unknown \notin {NoGame, NoTarget, Loading}
  /\ Unknown # NoPhase
BY DEF Phases, NoGame, NoTarget, Loading, Unknown, NoPhase, Band, Below

LEMMA InitIInv == Init => IInv
<1>. SUFFICES ASSUME Init PROVE IInv
  OBVIOUS
<1>1. TypeOK
  <2>1. committed \in Phases /\ pending \in (Phases \union {NoPhase}) \ {committed}
    BY DEF Init, Phases, NoGame, NoPhase, NoTarget, Loading, Unknown, Band, Below
  <2>2. step \in 0 .. MaxDepth /\ hold \in 0 .. HoldSamples /\ breach \in 0 .. ReleaseSamples
    BY DepthFacts, ConstantFacts DEF Init
  <2>3. loadingTicks \in 0 .. LoadingBudget + 1 /\ pendingCount \in Nat
    BY ConstantFacts DEF Init
  <2>4. backoff \in [Steps -> 0 .. BackoffSamples]
    BY ConstantFacts DEF Init
  <2>5. posture \in Postures /\ rungs \subseteq AllRungs
    BY DEF Init, Postures
  <2>6. last \in [raw : Phases, fit : BOOLEAN, verdicts : Verdicts \union {{}}]
    BY PhaseFacts DEF Init, NoSample
  <2>. QED
    BY <2>1, <2>2, <2>3, <2>4, <2>5, <2>6 DEF TypeOK
<1>2. FailedStepLocked
  BY DEF Init, FailedStepLocked
<1>3. UnknownStreak
  BY DEF Init, UnknownStreak, Unknown, NoPhase
<1>. QED
  BY <1>1, <1>2, <1>3 DEF IInv

----------------------------------------------------------------------------
(* The part of a tick every phase shares.                                  *)

(* The classification half of the state after a tick.                      *)
Observed ==
  /\ committed \in Phases
  /\ pending \in (Phases \union {NoPhase}) \ {committed}
  /\ pendingCount \in Nat
  /\ loadingTicks \in 0 .. LoadingBudget + 1
  /\ breach \in 0 .. ReleaseSamples
  /\ last \in [raw : Phases, fit : BOOLEAN, verdicts : Verdicts \union {{}}]

(* The actuation half.                                                     *)
Actuated ==
  /\ step \in 0 .. MaxDepth
  /\ hold \in 0 .. HoldSamples
  /\ backoff \in [Steps -> 0 .. BackoffSamples]
  /\ posture \in Postures
  /\ rungs \subseteq AllRungs

LEMMA Halves == TypeOK <=> Observed /\ Actuated
BY DEF TypeOK, Observed, Actuated

LEMMA CountMissFacts ==
  ASSUME IInv, NEW s \in Samples, CountMiss(s)
  PROVE  /\ breach' \in 0 .. ReleaseSamples
         /\ ~ Fit(s) => breach' = breach + 1 \/ breach' = ReleaseSamples
BY ConstantFacts DEF IInv, TypeOK, CountMiss, Least

(* Committing a phase keeps the streak of UNKNOWN within the streak of     *)
(* misses, and UNKNOWN is committed only as CommitSamples allows.          *)
LEMMA ObserveStep ==
  ASSUME IInv, NEW s \in Samples, Observe(s)
  PROVE  /\ Observed'
         /\ UnknownStreak'
         /\ committed' \in {committed, s.raw}
         /\ committed' = Unknown /\ committed # Unknown
              => /\ s.raw = Unknown
                 /\ \/ CommitSamples(Unknown) <= breach'
                    \/ breach' = ReleaseSamples
<1>. DEFINE count == IF committed = Loading /\ ~ s.cadence THEN 0
                     ELSE IF pending = s.raw THEN pendingCount + 1
                     ELSE 1
<1>1. CommitPhase(s) /\ CountMiss(s) /\ CountLoading
  BY DEF Observe
<1>2. count \in Nat /\ (count = 0 \/ count = 1 \/ (pending = s.raw /\ count = pendingCount + 1))
  BY DEF IInv, TypeOK
<1>3. \/ /\ s.raw = committed \/ count >= CommitSamples(s.raw)
         /\ committed' = s.raw /\ pending' = NoPhase /\ pendingCount' = 0
      \/ /\ s.raw # committed
         /\ committed' = committed /\ pending' = s.raw /\ pendingCount' = count
  BY <1>1 DEF CommitPhase
<1>. HIDE DEF count
<1>4. /\ breach' \in 0 .. ReleaseSamples
      /\ s.raw = Unknown => breach' = breach + 1 \/ breach' = ReleaseSamples
  BY <1>1, CountMissFacts, SampleFacts DEF Fit
<1>5. breach \in 0 .. ReleaseSamples /\ pendingCount \in Nat
  BY DEF IInv, TypeOK
<1>6. s.raw = Unknown => count <= breach' \/ breach' = ReleaseSamples \/ count = 0
  BY <1>2, <1>4, <1>5, ConstantFacts DEF IInv, UnknownStreak
<1>7. Observed'
  <2>1. committed' \in Phases /\ pending' \in (Phases \union {NoPhase}) \ {committed'}
    BY <1>3, SampleFacts, PhaseFacts DEF IInv, TypeOK
  <2>2. pendingCount' \in Nat
    BY <1>2, <1>3
  <2>3. loadingTicks' \in 0 .. LoadingBudget + 1
    BY <1>1, ConstantFacts DEF CountLoading, Least, IInv, TypeOK
  <2>4. last' \in [raw : Phases, fit : BOOLEAN, verdicts : Verdicts \union {{}}]
    BY SampleFacts DEF Observe
  <2>. QED
    BY <1>4, <2>1, <2>2, <2>3, <2>4 DEF Observed
<1>8. UnknownStreak'
  BY <1>3, <1>4, <1>6, <1>2, PhaseFacts, ConstantFacts DEF UnknownStreak
<1>9. CommitSamples(s.raw) \in Nat \ {0}
  BY ConstantFacts DEF CommitSamples
<1>10. committed' = Unknown /\ committed # Unknown
         => /\ s.raw = Unknown
            /\ \/ CommitSamples(Unknown) <= breach'
               \/ breach' = ReleaseSamples
  BY <1>2, <1>3, <1>4, <1>6, <1>9, ConstantFacts
<1>. QED
  BY <1>3, <1>7, <1>8, <1>10

----------------------------------------------------------------------------
(* The handlers.                                                           *)

LEMMA AgedFacts ==
  ASSUME IInv
  PROVE  /\ Aged \in [Steps -> 0 .. BackoffSamples]
         /\ \A k \in Steps : Aged[k] > 0 => backoff[k] > 0
BY ConstantFacts DEF IInv, TypeOK, Aged

(* Ageing, with a step no higher than before, keeps every lock.            *)
LEMMA AgedKeepsLocks ==
  ASSUME IInv, backoff' = Aged, step' \in 0 .. step
  PROVE  /\ backoff' \in [Steps -> 0 .. BackoffSamples]
         /\ step' \in 0 .. MaxDepth
         /\ FailedStepLocked'
<1>1. step \in 0 .. MaxDepth /\ \A k \in Steps : backoff[k] > 0 => step < k
  BY DEF IInv, TypeOK, FailedStepLocked
<1>. QED
  BY <1>1, AgedFacts, DepthFacts DEF FailedStepLocked

LEMMA FailStepKeepsLocks ==
  ASSUME IInv, FailStep
  PROVE  /\ backoff' \in [Steps -> 0 .. BackoffSamples]
         /\ step' = 0 /\ hold' = 0
         /\ FailedStepLocked'
<1>1. backoff' \in [Steps -> 0 .. BackoffSamples]
  <2>1. Aged \in [Steps -> 0 .. BackoffSamples] /\ BackoffSamples \in 0 .. BackoffSamples
    BY AgedFacts, ConstantFacts
  <2>2. CASE step = 0
    BY <2>1, <2>2 DEF FailStep
  <2>3. CASE step # 0
    BY <2>1, <2>3 DEF FailStep
  <2>. QED
    BY <2>2, <2>3
<1>2. step' = 0 /\ hold' = 0
  BY DEF FailStep
<1>3. FailedStepLocked'
  BY <1>2, DepthFacts DEF FailedStepLocked
<1>. QED
  BY <1>1, <1>2, <1>3

(* Leaving the band.                                                       *)
LEMMA LeaveBandKeepsLocks ==
  ASSUME IInv, LeaveBand
  PROVE  /\ backoff' \in [Steps -> 0 .. BackoffSamples]
         /\ step' \in 0 .. MaxDepth /\ hold' = 0
         /\ FailedStepLocked'
<1>1. CASE MissConfirmed' /\ committed' \in Below
  BY <1>1, FailStepKeepsLocks, DepthFacts DEF LeaveBand
<1>2. CASE ~ (MissConfirmed' /\ committed' \in Below)
  <2>1. backoff' = Aged /\ step' \in {0, step} /\ hold' = 0
    BY <1>2 DEF LeaveBand
  <2>2. step' \in 0 .. step
    BY <2>1, DepthFacts DEF IInv, TypeOK
  <2>. QED
    BY <2>1, <2>2, AgedKeepsLocks
<1>. QED
  BY <1>1, <1>2

(* Trimming to any depth of the ladder keeps the actuation's types.        *)
LEMMA TrimFacts ==
  ASSUME NEW s \in Samples, NEW n \in Nat, Trim(s, n)
  PROVE  posture' \in {"neutral", "trim"} /\ rungs' \subseteq AllRungs
BY SampleFacts, RungsInLadder DEF Trim, Actuate

(* What every handler but ForeignGame must show.                           *)
Handled == Actuated /\ FailedStepLocked

LEMMA FallBackStep ==
  ASSUME IInv, NEW s \in Samples, FallBack(s)
  PROVE  Handled'
<1>1. posture' \in Postures /\ rungs' = {}
  BY DEF FallBack, Actuate, Postures
<1>. QED
  BY <1>1, LeaveBandKeepsLocks, ConstantFacts DEF FallBack, Handled, Actuated

LEMMA LoadingStep ==
  ASSUME IInv, LoadingBoost
  PROVE  Handled'
<1>1. posture' \in Postures /\ rungs' = {}
  BY DEF LoadingBoost, Actuate, Postures
<1>. QED
  BY <1>1, LeaveBandKeepsLocks, ConstantFacts DEF LoadingBoost, Handled, Actuated

LEMMA BelowStep ==
  ASSUME IInv, BelowTarget
  PROVE  Handled'
<1>1. posture' \in Postures /\ rungs' = {}
  BY DEF BelowTarget, Actuate, Postures
<1>. QED
  BY <1>1, LeaveBandKeepsLocks, ConstantFacts DEF BelowTarget, Handled, Actuated

LEMMA UnknownStep ==
  ASSUME IInv, NEW s \in Samples, UnknownPhase(s)
  PROVE  Handled'
<1>1. CASE s.known /\ ~ s.sat /\ MissConfirmed'
  <2>1. FailStep /\ posture' = "neutral" /\ rungs' = {}
    BY <1>1 DEF UnknownPhase, Actuate
  <2>. QED
    BY <2>1, FailStepKeepsLocks, DepthFacts, ConstantFacts
       DEF Handled, Actuated, Postures
<1>2. CASE ~ (s.known /\ ~ s.sat /\ MissConfirmed')
  <2>1. backoff' = Aged /\ UNCHANGED <<step, hold, posture, rungs>>
    BY <1>2 DEF UnknownPhase
  <2>2. step' \in 0 .. step
    BY <2>1, DepthFacts DEF IInv, TypeOK
  <2>3. hold' \in 0 .. HoldSamples /\ posture' \in Postures /\ rungs' \subseteq AllRungs
    <3>1. /\ hold \in 0 .. HoldSamples /\ posture \in Postures /\ rungs \subseteq AllRungs
          /\ AllRungs' = AllRungs
      BY DEF IInv, TypeOK
    <3>. QED
      BY <2>1, <3>1
  <2>. QED
    BY <2>1, <2>2, <2>3, AgedKeepsLocks DEF Handled, Actuated
<1>. QED
  BY <1>1, <1>2

(* On the ladder every handler but StepUp stays or goes down.              *)
LEMMA LadderDown ==
  ASSUME IInv, NEW s \in Samples, backoff' = Aged, step' \in 0 .. step,
         hold' \in 0 .. HoldSamples, Trim(s, step')
  PROVE  Handled'
<1>1. step' \in Nat
  BY DepthFacts DEF IInv, TypeOK
<1>2. posture' \in Postures /\ rungs' \subseteq AllRungs
  BY <1>1, TrimFacts DEF Postures
<1>. QED
  BY <1>2, AgedKeepsLocks DEF Handled, Actuated

LEMMA LockLostStep ==
  ASSUME IInv, NEW s \in Samples, LockLost(s)
  PROVE  Handled'
<1>1. step' \in 0 .. step
  BY TopFacts, SampleFacts, DepthFacts DEF LockLost, IInv, TypeOK
<1>. QED
  BY <1>1, LadderDown, ConstantFacts DEF LockLost

LEMMA HoldUnconfirmedStep ==
  ASSUME IInv, NEW s \in Samples, HoldUnconfirmed(s)
  PROVE  Handled'
<1>1. step' \in 0 .. step /\ Trim(s, step')
  BY DepthFacts DEF HoldUnconfirmed, IInv, TypeOK
<1>. QED
  BY <1>1, LadderDown, ConstantFacts DEF HoldUnconfirmed

LEMMA HoldStepStep ==
  ASSUME IInv, NEW s \in Samples, HoldStep(s)
  PROVE  Handled'
<1>1. step' \in 0 .. step /\ Trim(s, step')
  BY DepthFacts DEF HoldStep, IInv, TypeOK
<1>2. hold' \in 0 .. HoldSamples
  BY ConstantFacts DEF HoldStep, IInv, TypeOK, Least
<1>. QED
  BY <1>1, <1>2, LadderDown DEF HoldStep

LEMMA FastReleaseStep ==
  ASSUME IInv, NEW s \in Samples, FastRelease(s)
  PROVE  Handled'
<1>1. FailStep /\ Trim(s, 0)
  BY DEF FastRelease
<1>2. posture' \in Postures /\ rungs' \subseteq AllRungs
  BY <1>1, TrimFacts DEF Postures
<1>. QED
  BY <1>1, <1>2, FailStepKeepsLocks, DepthFacts, ConstantFacts DEF Handled, Actuated

(* The one step up: the rung it takes is not locked, and those above stay  *)
(* above.                                                                  *)
LEMMA StepUpStep ==
  ASSUME IInv, NEW s \in Samples, StepUp(s)
  PROVE  Handled'
<1>1. step \in 0 .. MaxDepth /\ \A k \in Steps : backoff[k] > 0 => step < k
  BY DEF IInv, TypeOK, FailedStepLocked
<1>2. step < Top(s.verdicts) /\ Aged[step + 1] = 0 /\ step' = step + 1
  BY DEF StepUp, MayClimb
<1>3. step' \in 0 .. MaxDepth
  BY <1>1, <1>2, TopFacts, SampleFacts, DepthFacts
<1>4. hold' = 0 /\ backoff' = Aged /\ Trim(s, step')
  BY DEF StepUp
<1>5. FailedStepLocked'
  BY <1>1, <1>2, <1>4, AgedFacts, DepthFacts DEF FailedStepLocked
<1>6. posture' \in Postures /\ rungs' \subseteq AllRungs
  BY <1>3, <1>4, TrimFacts, DepthFacts DEF Postures
<1>. QED
  BY <1>3, <1>4, <1>5, <1>6, AgedFacts, ConstantFacts DEF Handled, Actuated

LEMMA ForeignGameStep ==
  ASSUME IInv, ForeignGame
  PROVE  IInv'
<1>1. /\ committed' = NoGame /\ pending' = NoPhase /\ pendingCount' = 0
      /\ loadingTicks' = 0 /\ step' = 0 /\ hold' = 0 /\ backoff' = Aged
      /\ posture' = "neutral" /\ rungs' = {} /\ last' = NoSample /\ breach' = breach
  BY DEF ForeignGame, Actuate
<1>2. step' \in 0 .. step
  BY <1>1, DepthFacts DEF IInv, TypeOK
<1>3. Observed'
  BY <1>1, PhaseFacts, ConstantFacts DEF Observed, NoSample, IInv, TypeOK
<1>4. Actuated' /\ FailedStepLocked'
  BY <1>1, <1>2, AgedKeepsLocks, ConstantFacts DEF Actuated, Postures
<1>5. UnknownStreak'
  BY <1>1, PhaseFacts DEF UnknownStreak
<1>. QED
  BY <1>3, <1>4, <1>5, Halves, PTL DEF IInv

LEMMA NextIInv == IInv /\ [Next]_vars => IInv'
<1>. SUFFICES ASSUME IInv, [Next]_vars PROVE IInv'
  OBVIOUS
<1>1. ASSUME NEW s \in Samples, Tick(s) PROVE IInv'
  <2>1. Observed' /\ UnknownStreak'
    BY <1>1, ObserveStep DEF Tick
  <2>2. Handled'
    BY <1>1, FallBackStep, LoadingStep, BelowStep, UnknownStep, LockLostStep,
       HoldUnconfirmedStep, FastReleaseStep, StepUpStep, HoldStepStep DEF Tick
  <2>. QED
    BY <2>1, <2>2, Halves, PTL DEF IInv, Handled
<1>2. CASE ForeignGame
  BY <1>2, ForeignGameStep
<1>3. CASE UNCHANGED vars
  BY <1>3 DEF vars, IInv, TypeOK, FailedStepLocked, UnknownStreak, AllRungs
<1>. QED
  BY <1>1, <1>2, <1>3 DEF Next

(* The invariant everything below rests on: types, the lock on a failed    *)
(* step, and a streak of misses that keeps up with a pending UNKNOWN.      *)
THEOREM LadderInvariant == Spec => []IInv
BY InitIInv, NextIInv, PTL DEF Spec

(* Type correctness, whatever the persona's ladder and verdicts.           *)
THEOREM LadderTyped == Spec => []TypeOK
BY LadderInvariant, PTL DEF IInv

(* Anti-oscillation: until its backoff is over the ladder stays below a    *)
(* step at which a miss was confirmed.                                     *)
THEOREM FailedStepStaysLocked == Spec => []FailedStepLocked
BY LadderInvariant, PTL DEF IInv

----------------------------------------------------------------------------
(* Boosts and their phases.                                                *)

LEMMA PostureFacts ==
  /\ "loading" \notin {"neutral", "trim", "gpu-priority"} /\ "loading" \notin Below
  /\ "gpu-priority" \notin {"neutral", "trim", "loading"} /\ "gpu-priority" \notin Below
  /\ "neutral" \notin Below /\ "trim" \notin Below
BY DEF Below

(* A boost that UNKNOWN would hold has met its confirmed miss by the time  *)
(* UNKNOWN is committed.                                                   *)
LEMMA UnknownDropsBoost ==
  ASSUME IInv, SlowToCommit, BoostEndsWithPhase,
         NEW s \in Samples, Observe(s), UnknownPhase(s)
  PROVE  BoostEndsWithPhase'
<1>1. CASE posture' = "neutral"
  BY <1>1, PostureFacts DEF BoostEndsWithPhase
<1>2. CASE posture' # "neutral"
  <2>1. posture' = posture /\ ~ (s.known /\ ~ s.sat /\ MissConfirmed')
    BY <1>2 DEF UnknownPhase, Actuate
  <2>2. committed' = Unknown
    BY DEF UnknownPhase
  <2>3. CASE committed = Unknown
    BY <2>1, <2>3, PhaseFacts, PostureFacts DEF BoostEndsWithPhase
  <2>4. CASE committed # Unknown
    <3>1. s.raw = Unknown /\ breach' # ReleaseSamples
      BY <2>1, <2>2, <2>4, ObserveStep, SampleFacts DEF MissConfirmed
    <3>2. CommitSamples(Unknown) <= breach' /\ breach' \in 0 .. ReleaseSamples
      BY <2>2, <2>4, <3>1, ObserveStep DEF Observed
    <3>3. committed \in Band
      BY <3>1, <3>2, PhaseFacts, ConstantFacts DEF CommitSamples, SlowToCommit
    <3>. QED
      BY <2>1, <3>3, PostureFacts
         DEF BoostEndsWithPhase, Band, Below, Loading, NoGame, NoTarget
  <2>. QED
    BY <2>3, <2>4
<1>. QED
  BY <1>1, <1>2

LEMMA TickEndsBoost ==
  ASSUME IInv, SlowToCommit, BoostEndsWithPhase, NEW s \in Samples, Tick(s)
  PROVE  BoostEndsWithPhase'
<1>1. CASE FallBack(s)
  BY <1>1, PostureFacts DEF FallBack, Actuate, BoostEndsWithPhase
<1>2. CASE LoadingBoost
  <2>1. loadingTicks' \in Nat
    BY ObserveStep, ConstantFacts DEF Tick, Observed
  <2>. QED
    BY <1>2, <2>1, PostureFacts, ConstantFacts
       DEF LoadingBoost, Actuate, BoostEndsWithPhase
<1>3. CASE BelowTarget
  BY <1>3, PostureFacts DEF BelowTarget, Actuate, BoostEndsWithPhase
<1>4. CASE UnknownPhase(s)
  BY <1>4, UnknownDropsBoost DEF Tick
<1>5. CASE LockLost(s) \/ HoldUnconfirmed(s) \/ FastRelease(s) \/ StepUp(s) \/ HoldStep(s)
  <2>1. posture' \in {"neutral", "trim"}
    BY <1>5 DEF LockLost, HoldUnconfirmed, FastRelease, StepUp, HoldStep, Trim, Actuate
  <2>. QED
    BY <2>1, PostureFacts DEF BoostEndsWithPhase
<1>. QED
  BY <1>1, <1>2, <1>3, <1>4, <1>5 DEF Tick

(* Where committing a phase takes at least as many samples as confirming a *)
(* miss, UNKNOWN never prolongs a boost: the miss that leads to UNKNOWN    *)
(* has dropped it first.                                                   *)
THEOREM BoostsEnd ==
  ASSUME SlowToCommit
  PROVE  Spec => []BoostEndsWithPhase
<1>1. Init => BoostEndsWithPhase
  BY PostureFacts DEF Init, BoostEndsWithPhase
<1>2. IInv /\ BoostEndsWithPhase /\ [Next]_vars => BoostEndsWithPhase'
  <2>. SUFFICES ASSUME IInv, BoostEndsWithPhase, [Next]_vars
                PROVE  BoostEndsWithPhase'
    OBVIOUS
  <2>1. ASSUME NEW s \in Samples, Tick(s) PROVE BoostEndsWithPhase'
    BY <2>1, SlowToCommit, TickEndsBoost
  <2>2. CASE ForeignGame
    BY <2>2, PostureFacts DEF ForeignGame, Actuate, BoostEndsWithPhase
  <2>3. CASE UNCHANGED vars
    BY <2>3 DEF vars, BoostEndsWithPhase
  <2>. QED
    BY <2>1, <2>2, <2>3 DEF Next
<1>. QED
  BY <1>1, <1>2, LadderInvariant, PTL DEF Spec

----------------------------------------------------------------------------
(* Misses and rungs.                                                       *)

(* The band is left with the first sample outside it, so the ladder only   *)
(* runs on samples that satisfy the target.                                *)
LEMMA LadderIsSatisfied ==
  ASSUME IInv, NEW s \in Samples, Observe(s), OnLadder
  PROVE  s.sat
<1>1. /\ s.raw \in Band => s.sat
      /\ Loading \notin Band
  BY DEF Samples, Loading, Band
<1>2. CASE committed' = s.raw
  BY <1>1, <1>2 DEF OnLadder
<1>3. CASE committed' # s.raw
  <2>1. CommitPhase(s)
    BY DEF Observe
  <2>2. committed' = committed /\ s.raw # committed
    BY <1>3, <2>1 DEF CommitPhase
  <2>3. committed \in Band /\ committed # Loading
    BY <1>1, <2>2 DEF OnLadder
  <2>. DEFINE count == IF pending = s.raw THEN pendingCount + 1 ELSE 1
  <2>4. ~ (count >= CommitSamples(s.raw))
    BY <1>3, <2>1, <2>3 DEF CommitPhase
  <2>5. count \in Nat \ {0}
    BY DEF IInv, TypeOK
  <2>6. CASE s.raw \in Band
    BY <1>1, <2>6
  <2>7. CASE s.raw \notin Band
    <3>1. CommitSamples(s.raw) = 1
      BY <2>3, <2>7 DEF CommitSamples
    <3>. QED
      BY <2>4, <2>5, <3>1
  <2>. QED
    BY <2>6, <2>7
<1>. QED
  BY <1>2, <1>3

(* A sample that qualifies for a climb ends the streak of misses.          *)
LEMMA QualifyingIsNoMiss ==
  ASSUME IInv, NEW s \in Samples, Observe(s), OnLadder, Qualifying(s)
  PROVE  ~ MissConfirmed'
<1>1. Fit(s)
  BY LadderIsSatisfied DEF Fit, Qualifying
<1>2. breach' = 0
  BY <1>1 DEF Observe, CountMiss
<1>. QED
  BY <1>2, ConstantFacts DEF MissConfirmed

(* A lost verdict leaves fewer rungs, or none.                             *)
LEMMA LostVerdictReleases ==
  ASSUME IInv, NEW s \in Samples, LockLost(s)
  PROVE  rungs' = {} \/ step' \in 1 .. step - 1
<1>1. /\ step > Top(s.verdicts) /\ step' = Top(s.verdicts)
      /\ rungs' = ActiveRungs(s.verdicts, step')
  BY DEF LockLost, Trim, Actuate
<1>2. Top(s.verdicts) \in Nat /\ step \in Nat
  BY SampleFacts, TopFacts, DepthFacts DEF IInv, TypeOK
<1>3. CASE Top(s.verdicts) = 0
  BY <1>1, <1>3, SampleFacts, NoRungs
<1>4. CASE Top(s.verdicts) # 0
  BY <1>1, <1>2, <1>4
<1>. QED
  BY <1>3, <1>4

(* While a miss is confirmed no phase but UNKNOWN keeps a rung, for every  *)
(* ladder, persona and streak: the ladder drops them all, or those that a  *)
(* verdict it lost at the same time had unlocked.                          *)
THEOREM ConfirmedMissesRelease == Spec => ConfirmedMissReleases
<1>. DEFINE Released == MissConfirmed /\ MissConfirmed' /\ committed' # Unknown
                          => rungs' = {} \/ step' \in 1 .. step - 1
<1>1. ASSUME IInv, Next PROVE Released
  <2>1. ASSUME NEW s \in Samples, Tick(s), MissConfirmed', committed' # Unknown
        PROVE  rungs' = {} \/ step' \in 1 .. step - 1
    <3>1. Observe(s)
      BY <2>1 DEF Tick
    <3>2. CASE FallBack(s) \/ LoadingBoost \/ BelowTarget
      BY <3>2 DEF FallBack, LoadingBoost, BelowTarget, Actuate
    <3>3. CASE UnknownPhase(s)
      BY <2>1, <3>3 DEF UnknownPhase
    <3>4. CASE LockLost(s)
      BY <1>1, <3>4, LostVerdictReleases
    <3>5. CASE HoldUnconfirmed(s)
      BY <2>1, <3>5 DEF HoldUnconfirmed
    <3>6. CASE FastRelease(s)
      BY <3>6, SampleFacts, NoRungs DEF FastRelease, Trim, Actuate
    <3>7. CASE StepUp(s) \/ HoldStep(s)
      BY <1>1, <2>1, <3>1, <3>7, QualifyingIsNoMiss DEF StepUp, HoldStep
    <3>. QED
      BY <2>1, <3>2, <3>3, <3>4, <3>5, <3>6, <3>7 DEF Tick
  <2>2. CASE ForeignGame
    BY <2>2 DEF ForeignGame, Actuate
  <2>. QED
    BY <1>1, <2>1, <2>2 DEF Next
<1>2. IInv /\ [Next]_vars => [Released]_vars
  BY <1>1
<1>. QED
  BY <1>2, LadderInvariant, PTL DEF Spec, ConfirmedMissReleases

=============================================================================
