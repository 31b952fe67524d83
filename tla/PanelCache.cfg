SPECIFICATION FairSpec
CONSTANTS
  Host = {h1, h2}
  Abandons = {h1}
  Version = {v1, v2}
  Long = {v2}
  Inode = {i1, i2, i3, i4}
  NoInode = none
  MaxFaults = 2
INVARIANTS TypeOK CachedIsOwn ReplacedAtOnce
PROPERTY CacheHeals
