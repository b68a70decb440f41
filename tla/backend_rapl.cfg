SPECIFICATION FairSpec
CONSTANTS
  MinW = 5
  MaxW = 30
  ShortLimitW = 37
  SoftFloorW = 8
  Pl2Override = 0
  PolicyMode = "auto"
  ShiftPolicy = "tdp-threshold"
  Domains <- TwoDomains
  ShortMax <- TwoShortMax
  EcEnabled = FALSE
  Timers = {}
  MaxInFlight = 0
  RestoreOnStart = FALSE
  Requests = {6, 35, 40}
  Overlays = {3}
  BootRapl <- FirmwareRapl
  BootEc <- FirmwareEc
  Sources = {"ac", "battery", "unknown"}
  SourceFlicker = TRUE
  IoFaults = TRUE
  MaxFaults = 2
INVARIANTS
  TypeOK
  SettledMatchesPolicy
  StopGivesSliderBack
PROPERTIES
  ReductionOnly
  SourceIsFollowed
