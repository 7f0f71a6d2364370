SPECIFICATION FairSpec
CONSTANTS
  Absent = Absent
  NoAddress = NoAddress
  Addresses = {1, 2}
  ExpireActions = {"", "reset", "restart"}
  Durations = {0, 1}
  Resolution = 1
  ZeroTime <- MCZeroTime
  Keys = {1, 2}
  Listings <- MCListings
  MaxTime = 1
  MaxChanges = 1
  MaxRefetches = 1
  MaxErrors = 1
  MaxBounces = 1
  MaxCrashes = 1
CONSTRAINT TwoDisturbances
INVARIANTS
  TypeOK
  PassIsExact
  RevokedIsGone
PROPERTIES
  NoInterruption
  Converges
