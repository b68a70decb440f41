\* Sessions of one game in several contexts, restarts, ageing, failed writes.
SPECIFICATION Spec
CONSTANTS
  Contexts <- MCContexts
  Kinds <- MCKinds
  Activate = 2
  Hinted = 1
  RestoreAfter = 2
  Window = 3
  Threshold = 2
  MinSessions = 2
  MinSamples = 2
  MinRatio = 70
  Limit = 2
  HintAge = 0
  AggregateAge = 1
  FailureSets <- MCFailureSets
  MaxTicks = 7
  MaxSession = 4
  MaxClock = 2
  MaxFaults = 1
INVARIANTS
  TypeOK
  HintHasEvidence
PROPERTIES
  ActivationHasEvidence
