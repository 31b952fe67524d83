SPECIFICATION Spec
CONSTANTS
  Uuid = {u1}
  Imports = FALSE
  ReportMin = 0
  MaxBytes = 1
  MaxStarts = 2
  MaxFaults = 1
INVARIANT EventsCounted
CHECK_DEADLOCK FALSE
