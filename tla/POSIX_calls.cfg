SPECIFICATION Spec
CONSTANTS
  Clients = {c1, c2}
  Paths = {p1, p2}
  Users = {u1}
  Self = Self
  Perms <- OnePerm
  Umask <- GroupWrite
  MaxFd = 2
  MaxOpened = 3
  MaxSize = 1
  Other = Other
  None = None
SYMMETRY Alike
INVARIANTS
  TypeOK
  VectorOwnsItsDescriptors
  NoneLost
  HandlesApart
  MetadataAsAsked
PROPERTIES
  OthersUntouched
  OnlyWantedWritten
CHECK_DEADLOCK FALSE
