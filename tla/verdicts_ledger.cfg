SPECIFICATION FairVerdictSpec
CONSTANTS
  Plans <- OnePlan
  Contexts <- SomeContexts
  MinRuns = 1
  Repeats = 1
  MaxSessions = 1
  MaxWrites = 3
  MaxAccidents = 1
PROPERTIES
  LedgerCatchesUp
