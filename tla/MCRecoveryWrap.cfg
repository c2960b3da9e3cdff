CONSTANTS
  User = {u1}
  Device = {d1, d2}
  Pass = {p1, p2, empty}
  Empty = empty
  Text = {w1, w2, garbled}
  Phrase = {w1, w2}
  MaxChanges = 3
  None = None
SPECIFICATION Spec
SYMMETRY MCSymmetry
INVARIANT
  PhraseOpensRecovery
