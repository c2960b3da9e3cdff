\* Two clicks, two handlers at once, one reload or remote delete.
SPECIFICATION Spec
CONSTANTS
  MaxRec = 4
  MaxClicks = 2
  Flow = {f1, f2}
  Entries <- MCEntries
  MaxEvents = 1
  Nothing = Nothing
  Gone = Gone
  Uncategorized = "(uncategorized)"
SYMMETRY Interchangeable
INVARIANT TypeOK
INVARIANT LegsAreOpposite
INVARIANT QuietPageListsAll
INVARIANT SummariesAddUp
INVARIANT BudgetsFollowCategories
CHECK_DEADLOCK FALSE
