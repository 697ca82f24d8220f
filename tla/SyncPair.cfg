SPECIFICATION Spec
CONSTANTS
  r = r
  a = a
  g = g
  NoOwner = NoOwner
  Workers = {w1, w2}
  Shards = {r, a}
  ParentOf <- Rollover
  Initial = "TRIM"
  MayTrim = TRUE
  MaxLags = 0
  MaxRestarts = 1
  MaxFaults = 1
INVARIANTS ParentFirst TombstoneFollowed
SYMMETRY Symmetry
CHECK_DEADLOCK FALSE
