\* A scheduler that crashes in the window of its run.
SPECIFICATION Spec
CONSTANTS
  Helpers <- MCHelpers
  Units <- MCUnits
  Tids <- MCTids
  Gts <- MCGts
  MaxMoves = 1
  MaxFaults = 0
\* The script ends.
CHECK_DEADLOCK FALSE
INVARIANTS
  ScxValidMeansHeld
