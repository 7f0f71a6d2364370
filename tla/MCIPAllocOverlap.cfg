SPECIFICATION Spec
CONSTANTS
  p1 = p1
  p2 = p2
  Peers = {p1, p2}
  AddressBits = 4
  ByteBits = 2
  ServerAddresses <- MCServers
  PeerAddresses <- MCPeers
  None = None
INVARIANTS
  NoOverlap
