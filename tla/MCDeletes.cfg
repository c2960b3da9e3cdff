CONSTANTS
  Device = {d1, d2}
  Record = {r1}
  Chat = {}
  MaxSaves = 2
  MaxTs = 3
  PageLimit = 2
  Zeroed = Zeroed
  Slot = {s1}
  BatchLimit = 1
  TicksPerSecond = 1
  Skew <- MCNoSkew
  FutureTolerance = 1
  SaveLag = 0
  MaxNow = 2
  MaxFaults = 0
  Unwritten = Unwritten
  Erased = Erased
SPECIFICATION Spec
SYMMETRY MCSymmetry
PROPERTY
  CopiesGoOnlyWhenDeleted
CHECK_DEADLOCK FALSE
