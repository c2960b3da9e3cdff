CONSTANTS
  Device = {d1, d2}
  Record = {r1}
  Chat = {}
  MaxSaves = 2
  MaxTs = 2
  PageLimit = 1
  Zeroed = Zeroed
  Slot = {s1}
  BatchLimit = 2
  TicksPerSecond = 1
  Skew <- MCOneAhead
  FutureTolerance = 0
  SaveLag = 0
  MaxNow = 2
  MaxFaults = 1
  Unwritten = Unwritten
  Erased = Erased
SPECIFICATION FairSpec

PROPERTY
  EverySaveArrives
CHECK_DEADLOCK FALSE
