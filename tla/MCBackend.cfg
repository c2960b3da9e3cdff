\* Two replicas booting three images, two devices writing one vault.
SPECIFICATION Spec
CONSTANTS
  Replica = {p1, p2}
  Process = {p1, p2}
  Device = {d1, d2}
  Slot = {s1, s2}
  Images <- MCImages
  MaxBoots = 1
  MaxDeaths = 1
  MaxSeals = 1
  MaxLost = 1
  MaxNow = 2
  Burst = 1
  Nobody = Nobody
  None = None
SYMMETRY MCSymmetry
INVARIANT TypeOK
INVARIANT NoLostUpdate
INVARIANT StoredOnce
INVARIANT KnownIsStored
INVARIANT LedgerIsSchema
INVARIANT ServesOnItsSchema
INVARIANT BootsDoNotClash
INVARIANT RequestsRunOnServers
INVARIANT BurstIsBounded
CHECK_DEADLOCK FALSE
PROPERTY VaultIsOneCell
PROPERTY BootsEnd
