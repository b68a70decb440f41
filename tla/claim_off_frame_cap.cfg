\* Modes, boosts, games, slider writes, failures and stops.
SPECIFICATION Spec
CONSTANTS
  a = a
  b = b
  Games <- MCGames
  Modes = {"off", "observe", "gpu-priority", "target-balance"}
  Personas = {"battery", "ac-performance"}
  Intents <- MCIntents
  Frames <- MCFrames
  Proposals <- MCProposals
  IdleFps = 30
  LaneSets <- MCLaneSets
  FailureSets <- MCFailureSets
  MaxBroken = 1
SYMMETRY MCSymmetry
INVARIANT OffLiftsFrameCap
