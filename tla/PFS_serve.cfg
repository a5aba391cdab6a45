SPECIFICATION Spec
CONSTANTS
  None = None
  f1 = f1
  f2 = f2
  f3 = f3
  d1 = d1
  c1 = c1
  c2 = c2
  Names = {"a", "b", "x", "y", "z", "time"}
  Files = {f1, f2}
  Dirs = {d1}
  Paths <- ServePaths
  PathOf <- ServePathOf
  Clients = {c1, c2}
  HandleUse = "once"
  TeardownLast = TRUE
INVARIANTS TypeOK FdFaithful SessionsAgree NoFault
PROPERTIES OnlyOwnEndUnregisters FailedOpenKeepsHandles ImplementsOpenFiles
