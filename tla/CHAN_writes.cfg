SPECIFICATION FairSpec
CONSTANTS
  Msgs = {m1, m2}
  MaxSent = 4
INVARIANTS
  OneWriteOfTheFront
  InOrder
  CloseReportedOnce
PROPERTIES
  ImplementsPipe
  WrittenOrClosed
CHECK_DEADLOCK FALSE
