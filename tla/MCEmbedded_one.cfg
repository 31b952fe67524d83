SPECIFICATION FairSpec
CONSTANTS
  u1 = u1
  u2 = u2
  Uuid = {u1}
  NoUuid = noUuid
  Absent = absent
  Uid = {7}
  Conn = {c1}
  UserLists <- ListsOne
  ReportMin = 1
  RetryCount = 1
  OnlineTTL = 0
  Chunk = {2}
  MaxBytes = 2
  MaxFaults = 1
INVARIANTS TypeOK NothingDropped Accounts
PROPERTIES KeepsLedger TrafficReported OnlineExpires
