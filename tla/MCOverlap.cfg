CONSTANTS
  Device = {d1}
  Record = {r1}
  Chat = {}
  MaxSaves = 2
  MaxTs = 3
  PageLimit = 2
  Zeroed = Zeroed
  Slot = {s1, s2}
  BatchLimit = 2
  TicksPerSecond = 2
  Skew <- MCNoSkew
  FutureTolerance = 1
  SaveLag = 1
  MaxNow = 2
  MaxFaults = 1
  Unwritten = Unwritten
  Erased = Erased
SPECIFICATION Spec
SYMMETRY MCSymmetry
INVARIANTS
  NoLostWrite
  CachedIsCommitted
PROPERTY
  CopiesGoOnlyWhenDeleted
CHECK_DEADLOCK FALSE
