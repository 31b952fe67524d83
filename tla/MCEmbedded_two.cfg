SPECIFICATION Spec
CONSTANTS
  u1 = u1
  u2 = u2
  Uuid = {u1, u2}
  NoUuid = noUuid
  Absent = absent
  Uid = {0, 7, 8}
  Conn = {c1, c2}
  UserLists <- ListsTwo
  ReportMin = 1
  RetryCount = 0
  OnlineTTL = 0
  Chunk = {1}
  MaxBytes = 1
  MaxFaults = 0
SYMMETRY Symmetry
INVARIANTS BilledOnce PendingKept
