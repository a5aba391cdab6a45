CONSTANTS
  t1 = t1
  t2 = t2
  a1 = a1
  a2 = a2
  f1 = f1
  f2 = f2
  None = None
  Threads = {t1, t2}
  Descriptors = {a1, a2}
  Files = {f1, f2}
  MaxSlots = 3
SPECIFICATION FairSpec
INVARIANTS
  TypeOK
  FidsInTable
  OwnViewUnlessOverlapped
  AllReleased
PROPERTIES
  RequestsAnswered
CHECK_DEADLOCK FALSE
