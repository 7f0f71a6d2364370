SPECIFICATION Spec
CONSTANTS
  s1 = s1
  s2 = s2
  alice = alice
  bob = bob
  ann = ann
  ben = ben
  web1 = web1
  web2 = web2
  both = both
  NoPeer = NoPeer
  NoServer = NoServer
  Servers = {s1}
  Users = {alice, bob}
  Admins = {ann, ben}
  Handlers = {web1}
  Addresses = {1, 2, 3}
  ExpireActions = {"", "reset"}
  Durations = {1}
  Resolution = 1
  ZeroTime <- MCZeroTime
  Networks <- Networks1
  AdminKeys = {}
  Manifests <- AllManifests
  Shadows <- NoShadows
  DefaultDuration = 1
  SecretLife = 1
  InitialDB <- OneActivePeer
  MaxTime = 1
  MaxDrawn = 2
SYMMETRY Alike
CONSTRAINT TimeOrAddresses
INVARIANTS
  TypeOK
  LinkExcludesKey
  UniqueAddresses
PROPERTIES
  ExpiredStaysExpired
  ConfigIsStored
  WorksOnCopies
