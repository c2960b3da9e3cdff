\* Two tabs of one browser, two accounts, both orders of every answer.
SPECIFICATION Spec
CONSTANTS
  Tab = {t1, t2}
  Email = {ann, bob}
  Pass = {p1, p2}
  MaxTries = 2
  PendingTTL = 1
  SessionTTL = 2
  MaxNow = 2
  MaxKey = 3
  None = None
INVARIANT TypeOK
INVARIANT SessionsFollowTheirStart
INVARIANT KeystoreOfOneAccount
INVARIANT PhraseShownIsStored
PROPERTY RefusedOnlyForAReason
PROPERTY RotationKeepsSessions
SYMMETRY Interchangeable
CHECK_DEADLOCK FALSE
