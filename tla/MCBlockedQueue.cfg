CONSTANTS
  Device = {d1}
  Record = {r1, r2}
  Chat = {}
  MaxSaves = 2
  MaxTs = 2
  PageLimit = 2
  Zeroed = Zeroed
  Slot = {s1}
  BatchLimit = 1
  TicksPerSecond = 1
  Skew <- MCNoSkew
  FutureTolerance = 1
  SaveLag = 0
  MaxNow = 2
  MaxFaults = 1
  Unwritten = Unwritten
  Erased = Erased
SPECIFICATION FairSpec

PROPERTY
  EverySaveArrives
CHECK_DEADLOCK FALSE
