SPECIFICATION Spec
CONSTANTS
  Nodes = {n1, n2}
  AddrLists <- Overlapping
  SizeOf <- OverlappingSize
  Looped = {}
  Mortal = {n1, n2}
  Movable = {n1, n2}
  Foreign = {"unparsable", "badid"}
  MaxMessageSize = 3
  MaxPeerTimeoutTime = 1
  PeerIdleCheckTime = 1
  NetworkUpdateTime = 1
  None = None
PROPERTY CheckReportsExpired
