SPECIFICATION Spec
CONSTANTS
  MinW = 5
  MaxW = 30
  ShortLimitW = 37
  SoftFloorW = 8
  Pl2Override = 0
  PolicyMode = "auto"
  ShiftPolicy = "profile"
  Domains <- OneDomain
  ShortMax <- OneShortMax
  EcEnabled = TRUE
  Timers = {"t1", "t2", "t3"}
  MaxInFlight = 2
  RestoreOnStart = FALSE
  Requests = {17, 40}
  Overlays = {10}
  BootRapl <- FirmwareRapl
  BootEc <- FirmwareEc
  Sources = {"ac", "battery", "unknown"}
  SourceFlicker = FALSE
  IoFaults = TRUE
  MaxFaults = 1
INVARIANTS
  EcSettled
