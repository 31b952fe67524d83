SPECIFICATION Spec
CONSTANTS
  u1 = u1
  u2 = u2
  Uuid = {u1}
  NoUuid = noUuid
  Absent = absent
  Uid = {7}
  Conn = {c1}
  UserLists <- ListsOne
  ReportMin = 0
  RetryCount = 0
  OnlineTTL = 2
  Chunk = {1}
  MaxBytes = 1
  MaxFaults = 0
INVARIANT OpenSessionsMetered
