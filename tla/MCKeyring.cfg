CONSTANTS
  User = {u1, u2}
  Device = {d1, d2}
  Pass = {p1, p2, empty}
  Empty = empty
  Text = {w1, w2, garbled}
  Phrase = {w1, w2}
  MaxChanges = 2
  None = None
SPECIFICATION Spec
SYMMETRY MCSymmetry
INVARIANTS
  TypeOK
  PassphraseOpensWrap
  RecoveryWrapHasAnOpener
