CONSTANTS
  Device = {d1, d2}
  Record = {r1, r2}
  Chat = {}
  MaxSaves = 1
  MaxTs = 2
  PageLimit = 2
  Zeroed = Zeroed
  Slot = {s1}
  BatchLimit = 2
  TicksPerSecond = 1
  Skew <- MCNoSkew
  FutureTolerance = 1
  SaveLag = 0
  MaxNow = 2
  MaxFaults = 0
  Unwritten = Unwritten
  Erased = Erased
SPECIFICATION Spec

INVARIANT
  CursorSkipsNothing
CHECK_DEADLOCK FALSE
