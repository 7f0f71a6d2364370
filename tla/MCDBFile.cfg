SPECIFICATION FairSpec
CONSTANTS
  alice = alice
  ra = ra
  rb = rb
  h1 = h1
  h2 = h2
  Users = {alice}
  Slots = {ra, rb}
  Hosts = {h1, h2}
  UserOf <- SameUser
  Placements <- MCPlacements
  LocalSlots = {ra}
  Truncated = Truncated
  Corrupt = Corrupt
  Free = Free
  Leaked = Leaked
  MaxLinks = 1
CONSTRAINT LinksOrLostHandles
INVARIANTS
  TypeOK
  LocalStaysLocal
PROPERTIES
  CopiesArePrivate
  AnsweredIsStored
  Terminates
