SPECIFICATION Spec
CONSTANTS
  MinW = 5
  MaxW = 30
  ShortLimitW = 37
  SoftFloorW = 8
  Pl2Override = 0
  PolicyMode = "auto"
  ShiftPolicy = "tdp-threshold"
  Domains <- TwoDomains
  ShortMax <- TwoShortMax
  EcEnabled = FALSE
  Timers = {}
  MaxInFlight = 0
  RestoreOnStart = FALSE
  Requests = {17}
  Overlays = {3, 12}
  BootRapl <- FirmwareRapl
  BootEc <- FirmwareEc
  Sources = {"ac", "battery", "unknown"}
  SourceFlicker = FALSE
  IoFaults = TRUE
  MaxFaults = 1
INVARIANT
  StopClearsFailedOverlay
