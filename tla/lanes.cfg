\* One pair, every lane, three failed writes and three moves of the machine.
SPECIFICATION Spec
CONSTANTS
  Helpers <- MCHelpers
  Units <- MCUnits
  Tids <- MCTids
  Gts <- MCGts
  MaxMoves = 3
  MaxFaults = 3
\* The script ends.
CHECK_DEADLOCK FALSE
INVARIANTS
  TypeOK
  BaselineUntouched
  EvidenceMeansHeld
PROPERTIES
  ImplementsLease
