\* Two games, a limit and a target of the player's, a pad and a virtual pad.
SPECIFICATION Spec
CONSTANTS
  a = a
  b = b
  pad = pad
  virtual = virtual
  Games <- MCGames
  Devices <- MCDevices
  Personas = {"battery", "ac-performance"}
  Limits = {0, 60}
  Manual = {0, 40}
  LaunchFps = 0
  Rates = {39, 70}
  Refresh = 120
  IdleFps = 30
  ShortWindow = 2
  ClearWindow = 2
  MaxDrops = 2
  Grace = 2
  Rediscover = 1
  CacheTtl = 2
  MaxChanges = 3
  MaxFaults = 1
SYMMETRY MCSymmetry
INVARIANTS
  IdleNeedsQuiet
  CapIsOwned
PROPERTIES
  DropIsEarned
