CONSTANTS
  Device = {d1, d2}
  Record = {r1, c1}
  Chat = {c1}
  MaxSaves = 1
  MaxTs = 2
  PageLimit = 1
  Zeroed = Zeroed
  Slot = {s1}
  BatchLimit = 2
  TicksPerSecond = 1
  Skew <- MCNoSkew
  FutureTolerance = 1
  SaveLag = 0
  MaxNow = 1
  MaxFaults = 1
  Unwritten = Unwritten
  Erased = Erased
SPECIFICATION Spec
SYMMETRY MCSymmetry
INVARIANTS
  TypeOK
  NoLostWrite
  CursorWithinTables
PROPERTY
  LedgerSpec
CHECK_DEADLOCK FALSE
