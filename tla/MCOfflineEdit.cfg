\* An edit made offline, over a row that is cached.
SPECIFICATION Spec
CONSTANTS
  MaxRec = 4
  MaxClicks = 2
  Flow = {f1, f2}
  Entries <- MCEntries
  MaxEvents = 0
  Nothing = Nothing
  Gone = Gone
  Uncategorized = "(uncategorized)"
SYMMETRY Interchangeable
CHECK_DEADLOCK FALSE
INVARIANT QueuedEditsAreSurfaced
