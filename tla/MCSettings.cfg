SPECIFICATION Spec
CONSTANTS
  Body <- Bodies
  File <- Files
  Width = 7
  Second = 2
  Minute = 8
  MaxFetches = 1
INVARIANTS CacheFaithful IntervalsUsable FallbackHonoured AcceptedHasKey EverySpelling
