SPECIFICATION Spec
CONSTANTS
  r = r
  a = a
  g = g
  NoOwner = NoOwner
  Workers = {w1}
  Shards = {r, a}
  ParentOf <- Rollover
  Initial = "LATEST"
  MayTrim = FALSE
  MaxLags = 0
  MaxRestarts = 1
  MaxFaults = 0
INVARIANT NothingSkipped
CHECK_DEADLOCK FALSE
