CONSTANTS
  Device = {d1}
  Record = {r1}
  Chat = {}
  MaxSaves = 2
  MaxTs = 3
  PageLimit = 1
  Zeroed = Zeroed
  Slot = {s1}
  BatchLimit = 2
  TicksPerSecond = 2
  Skew <- MCNoSkew
  FutureTolerance = 1
  SaveLag = 0
  MaxNow = 2
  MaxFaults = 0
  Unwritten = Unwritten
  Erased = Erased
SPECIFICATION Spec

PROPERTY
  SkipsOnlyOlder
CHECK_DEADLOCK FALSE
