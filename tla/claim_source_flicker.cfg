SPECIFICATION FairSpec
CONSTANTS
  MinW = 5
  MaxW = 30
  ShortLimitW = 37
  SoftFloorW = 8
  Pl2Override = 0
  PolicyMode = "auto"
  ShiftPolicy = "tdp-threshold"
  Domains <- OneDomain
  ShortMax <- OneShortMax
  EcEnabled = FALSE
  Timers = {}
  MaxInFlight = 0
  RestoreOnStart = FALSE
  Requests = {17}
  Overlays = {}
  BootRapl <- FirmwareRapl
  BootEc <- FirmwareEc
  Sources = {"ac", "battery", "unknown"}
  SourceFlicker = TRUE
  IoFaults = FALSE
  MaxFaults = 0
PROPERTY
  SourceIsAlwaysFollowed
