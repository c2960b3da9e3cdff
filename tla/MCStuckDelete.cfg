CONSTANTS
  Device = {d1}
  Record = {r1}
  Chat = {}
  MaxSaves = 1
  MaxTs = 2
  PageLimit = 1
  Zeroed = Zeroed
  Slot = {s1}
  BatchLimit = 1
  TicksPerSecond = 1
  Skew <- MCNoSkew
  FutureTolerance = 1
  SaveLag = 0
  MaxNow = 2
  MaxFaults = 0
  Unwritten = Unwritten
  Erased = Erased
SPECIFICATION FairSpec

PROPERTY
  DoneDeletesAreCleared
CHECK_DEADLOCK FALSE
