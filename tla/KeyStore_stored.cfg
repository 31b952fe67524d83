SPECIFICATION Spec
CONSTANTS
  Uid = {i1, i2, i3}
  NodeId = {a, b}
  Master = {m1}
  None = none
  MaxClientKeyFileUsers = 2
  MaxCalls = 2
  MaxFaults = 1
  MaxEvents = 0
INVARIANT KeysStored
