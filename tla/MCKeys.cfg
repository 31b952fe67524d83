SPECIFICATION KeysSpec
CONSTANTS
  Uid = {i1, i2, i3}
  NodeId = {a, b}
  Master = {m1, m2}
  None = none
  MaxClientKeyFileUsers = 2
  MaxCalls = 4
  MaxFaults = 2
  MaxEvents = 2
  Base = 3
  KeyLen = 3
  DigestLen = 5
  Order = 23
SYMMETRY Symmetry
INVARIANTS TypeOK OneKeyPerUser LimitKept GivenKeysStored SplitOpens
PROPERTY StoredKeysStay
