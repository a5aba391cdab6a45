SPECIFICATION Spec
CONSTANTS
  None = None
  f1 = f1
  f2 = f2
  f3 = f3
  d1 = d1
  c1 = c1
  c2 = c2
  Names = {"a", "b", "x", "y", "z", "time"}
  Files = {f1, f2, f3}
  Dirs = {d1}
  Paths <- SharedPaths
  PathOf <- SharedPathOf
  Clients = {c1, c2}
  HandleUse = "any"
  TeardownLast = FALSE
INVARIANTS TreeLinked HandlesAgree DeadStayOnlyWhereKept TableBounded
