SPECIFICATION Spec
CONSTANTS
  s1 = s1
  s2 = s2
  alice = alice
  bob = bob
  ann = ann
  ben = ben
  web1 = web1
  web2 = web2
  both = both
  NoPeer = NoPeer
  NoServer = NoServer
  Servers = {s1, s2}
  Users = {alice, bob}
  Admins = {ann}
  Handlers = {}
  Addresses = {1, 2, 3}
  ExpireActions = {"reset"}
  Durations = {1}
  Resolution = 1
  ZeroTime <- MCZeroTime
  Networks <- Networks1
  AdminKeys = {}
  Manifests <- NoManifests
  Shadows <- ShadowedByS2
  DefaultDuration = 1
  SecretLife = 1
  InitialDB <- PeerOfS2
  MaxTime = 0
  MaxDrawn = 0
INVARIANTS
  UniqueAddresses
