SPECIFICATION FairSpec
CONSTANTS
  Uuid = {u1}
  Imports = TRUE
  ReportMin = 0
  MaxBytes = 1
  MaxStarts = 2
  MaxFaults = 1
INVARIANTS TypeOK NoStrayProcess StopNeedsTimeout EventsCounted BookedOnce
PROPERTY HelpersEnd
CHECK_DEADLOCK FALSE
