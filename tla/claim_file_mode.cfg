SPECIFICATION FairSpec
CONSTANTS
  Manifests <- SomeManifests
  Dests = {"unit", "wants", "device", "vpn"}
  MaxChanges = 1
  MaxFaults = 2
INVARIANT
  SuccessMeansModes
