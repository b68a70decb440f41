SPECIFICATION VerdictSpec
CONSTANTS
  Plans <- SomePlans
  Contexts <- SomeContexts
  MinRuns = 2
  Repeats = 1
  MaxSessions = 2
  MaxWrites = 1
  MaxAccidents = 1
INVARIANTS
  VerdictTypeOK
  UnlockHasEvidence
