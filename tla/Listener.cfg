SPECIFICATION FairSpec
CONSTANTS
  Conn = {c1, c2}
INVARIANTS TypeOK ClosedForGood OnlyLateMissed
PROPERTIES CloseReturns CopiersEnd
CHECK_DEADLOCK FALSE
