SPECIFICATION FairSpec
CONSTANTS
  u1 = u1
  u2 = u2
  p1 = p1
  p2 = p2
  Node = {n1, n2}
  BadNode = bad
  None = none
  UserList <- Lists
  Faults = {"timeout", "error", "auth", "disk", "server"}
  MaxFaults = 1
  MaxChanges = 2
  MaxRestarts = 1
INVARIANTS TypeOK ServerInStep UsersKnown NodeKnown
PROPERTIES Converges UsersConverge
