SPECIFICATION Spec
CONSTANTS
  Uid = {i1}
  NodeId = {a}
  Master = {m1, m2}
  None = none
  MaxClientKeyFileUsers = 1
  MaxCalls = 1
  MaxFaults = 0
  MaxEvents = 1
INVARIANT KeysOfOwnMaster
