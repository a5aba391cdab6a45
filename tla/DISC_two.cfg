SPECIFICATION FairSpec
CONSTANTS
  Nodes = {n1, n2}
  AddrLists <- Overlapping
  SizeOf <- OverlappingSize
  Looped = {n1}
  Mortal = {n2}
  Movable = {n2}
  Foreign = {"unparsable"}
  MaxMessageSize = 3
  MaxPeerTimeoutTime = 0
  PeerIdleCheckTime = 1
  NetworkUpdateTime = 0
  None = None
INVARIANTS TypeOK PeersAreOthersAds
PROPERTIES EntryFollowsDatagram PeersLearned GoneForgotten
