\* A lock while a subkey is being derived.
SPECIFICATION Spec
CONSTANTS
  ann = ann
  bob = bob
  r1 = r1
  User = {ann, bob}
  Record = {r1}
  OwnerOf <- MCOwnerOf
  Call = {c1, c2}
  MaxQueue = 1
  None = None
SYMMETRY Interchangeable
INVARIANT LockedKeysAreGone
CHECK_DEADLOCK FALSE
