\* A floor that is raised and not reported.
SPECIFICATION Spec
CONSTANTS
  Helpers <- MCHelpers
  Units <- MCUnits
  Tids <- MCTids
  Gts <- MCGts
  MaxMoves = 1
  MaxFaults = 1
\* The script ends.
CHECK_DEADLOCK FALSE
INVARIANTS
  FloorIsRecorded
