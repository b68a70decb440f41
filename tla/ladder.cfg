SPECIFICATION FairSpec
CONSTANTS
  BaseRungs <- TwoRungs
  GpuDeepRungs <- GpuCapRung
  CpuDeepRungs <- CpuCapRung
  HoldSamples = 4
  StableSamples = 3
  LoadingExitSamples = 2
  ReleaseSamples = 2
  BackoffSamples = 6
  LoadingBudget = 1
  WideGuard = FALSE
  HasTargetAppid = TRUE
  Verdicts <- SomeVerdicts
INVARIANTS
  TypeOK
  FailedStepLocked
  BoostEndsWithPhase
PROPERTIES
  ConfirmedMissReleases
  ClimbsWhenHealthy
