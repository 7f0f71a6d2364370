SPECIFICATION HostFairSpec
CONSTANTS
  c1 = c1
  c2 = c2
  Configs = {c1, c2}
  NoFile = NoFile
  Partial = Partial
  Down = Down
  Unreadable = Unreadable
  MaxReboots = 1
  Addresses = {1}
  ExpireActions = {"", "reset"}
  Durations = {1}
  Resolution = 1
  ZeroTime <- MCZeroTime
  Keys = {1}
  Listings <- MCListings
  Absent = Absent
  NoAddress = NoAddress
  MaxTime = 1
  MaxChanges = 1
  MaxErrors = 1
  MaxCrashes = 1
CONSTRAINT OneFaultOneEdit
INVARIANTS
  PassIsExact
PROPERTIES
  GetsLock
  HostConverges
