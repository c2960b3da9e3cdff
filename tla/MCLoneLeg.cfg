\* A transfer, an edit of one of its legs, and the delete of one of them.
SPECIFICATION Spec
CONSTANTS
  MaxRec = 4
  MaxClicks = 3
  Flow = {f1, f2}
  Entries <- MCEntries
  MaxEvents = 0
  Nothing = Nothing
  Gone = Gone
  Uncategorized = "(uncategorized)"
SYMMETRY Interchangeable
CHECK_DEADLOCK FALSE
INVARIANT DeletingTakesThePair
