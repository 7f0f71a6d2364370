SPECIFICATION BuildSpec
CONSTANTS
  p1 = p1
  p2 = p2
  Peers = {p1, p2}
  AddressBits = 4
  ByteBits = 2
  ServerAddresses <- MCServers
  PeerAddresses <- MCPeers
  None = None
  Slash = 2
  PeersWord <- MCPeersWord
  ServersWord <- MCServersWord
  Names <- MCNames
  Users <- MCUsers
  MaxKeys = 3
INVARIANTS
  TypeOK
  MapIsExact
  AddressesDiffer
  ListsAreComplete
  HiddenOrExact
  AllOrNone
PROPERTIES
  FitsUntilMoved
  Terminates
