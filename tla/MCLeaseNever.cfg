SPECIFICATION LeaseSpec
CONSTANTS
  Addresses = {1}
  ExpireActions = {"", "reset", "block"}
  Durations = {15}
  Resolution = 5
  ZeroTime <- MCZeroTime
  LinkLife = 10
  DefaultDuration = 15
  Day = 10
  Width = 7
  MaxTime = 22
INVARIANTS
  PersistentNeverExpires
