\* One tab signs in and out.
SPECIFICATION Spec
CONSTANTS
  Tab = {t1}
  Email = {ann}
  Pass = {p1}
  MaxTries = 2
  PendingTTL = 1
  SessionTTL = 2
  MaxNow = 2
  MaxKey = 2
  None = None
PROPERTY LogoutLandsAnonymous
CHECK_DEADLOCK FALSE
