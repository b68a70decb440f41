SPECIFICATION FairSpec
CONSTANTS
  Clients = {c1, c2}
  Fps = {"40"}
  Personas = {"battery", "ac-performance"}
  Offered <- SomeCommands
  HandEdits <- SomeEdits
  BaseMode = "target-balance"
  FeedStale = 0
  SnapStale = 0
  MaxCommands = 2
  MaxEdits = 1
  MaxFaults = 1
INVARIANTS
  TypeOK
  SerialIntent
  InvalidHasCause
  ClaimIsFresh
PROPERTIES
  ConfigConverges
