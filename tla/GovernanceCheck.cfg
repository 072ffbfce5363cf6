SPECIFICATION Spec
CONSTANTS
  Addresses = {a1, a2, a3}
  Hashes = {v2, v3}
  FirstWasm = v1
  None = None
  MaxTime = 5
  Timelock = 2
  MaxPauseDuration = 2
  DefaultPause = 1
  PauseDurations = {0, 2}
PROPERTIES
  TimelockRespected
  PauseLapses
