\* Two users of one browser, a record of one of them, two calls in progress at once.
SPECIFICATION Spec
CONSTANTS
  ann = ann
  bob = bob
  r1 = r1
  User = {ann, bob}
  Record = {r1}
  OwnerOf <- MCOwnerOf
  Call = {c1, c2}
  MaxQueue = 1
  None = None
SYMMETRY Interchangeable
INVARIANT TypeOK
INVARIANT RowsSealedForOneUser
INVARIANT CleanUnlessOverlapped
CHECK_DEADLOCK FALSE
