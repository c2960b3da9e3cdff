\* A transfer is said to create two linked rows.
SPECIFICATION Spec
CONSTANTS
  MaxRec = 4
  MaxClicks = 2
  Flow = {f1, f2}
  Entries <- MCEntries
  MaxEvents = 1
  Nothing = Nothing
  Gone = Gone
  Uncategorized = "(uncategorized)"
SYMMETRY Interchangeable
CHECK_DEADLOCK FALSE
PROPERTY TransferSavesTwoRows
