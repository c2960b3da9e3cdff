\* Two devices, an LWW record and a chat record, three instants, batches of two.
CONSTANTS
  Device = {d1, d2}
  Record = {r1, c1}
  Chat = {c1}
  MaxSaves = 2
  MaxTs = 3
  PageLimit = 2
  Zeroed = Zeroed
SPECIFICATION ServerSpec
INVARIANTS
  ReplayIsNoOp
  TieFreePushesCommute
  BatchIsALoop
PROPERTY
  RowsOnlyAdvance
CHECK_DEADLOCK FALSE
