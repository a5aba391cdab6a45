CONSTANTS
  Threads = {t1, t2}
  Descriptors = {d1, d2}
  Paths = {p1, p2}
  Addrs = {a1, a2}
  Fids = {f1, f2}
  Uids <- MCUids
  UserName <- MCUserName
  Numeral <- MCNumeral
  Perms <- MCPerms
  Accesses = {"read", "write"}
  None = None
SPECIFICATION Spec
SYMMETRY Symmetry
INVARIANTS
  TypeOK
  OneToOne
  AskedIsHandedOn
PROPERTY ImplementsOpenFiles
CONSTRAINT Running
CHECK_DEADLOCK FALSE
