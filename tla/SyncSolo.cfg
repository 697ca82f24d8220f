SPECIFICATION FairSpec
CONSTANTS
  r = r
  a = a
  g = g
  NoOwner = NoOwner
  Workers = {w1}
  Shards = {r, a, g}
  ParentOf <- Chain
  Initial = "LATEST"
  MayTrim = FALSE
  MaxLags = 1
  MaxRestarts = 0
  MaxFaults = 1
INVARIANTS ParentFirst TombstoneFollowed
PROPERTY LineageDrains
CHECK_DEADLOCK FALSE
