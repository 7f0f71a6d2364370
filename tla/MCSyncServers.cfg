SPECIFICATION FairSpec
CONSTANTS
  c1 = c1
  c2 = c2
  NoFile = NoFile
  Partial = Partial
  Unreadable = Unreadable
  Down = Down
  Configs = {c1, c2}
  MaxChanges = 2
  MaxCrashes = 2
  MaxReboots = 1
INVARIANTS
  TypeOK
  CleanRunsFile
  CleanIsUp
PROPERTIES
  SynchronizedOrDown
