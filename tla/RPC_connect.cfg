SPECIFICATION FairSpec
CONSTANTS
  Clients = {c1, c2}
  None = None
PROPERTY ConnectReturns
CHECK_DEADLOCK FALSE
