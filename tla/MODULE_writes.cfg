CONSTANTS
  Threads = {t1, t2}
  a1 = a1
  A1 = A1
  b2 = b2
  q3 = q3
  bulb = bulb
  clock = clock
  Files <- MCFiles
  KindOf <- MCKindOf
  NameEnd <- MCNameEnd
  Parts = {50}
  None = None
SPECIFICATION Spec
SYMMETRY Symmetry
INVARIANTS
  TypeOK
  Agreement
  KeptWasAccepted
CHECK_DEADLOCK FALSE
