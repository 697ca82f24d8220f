SPECIFICATION Spec
CONSTANTS
  NoOwner = NoOwner
  Workers = {w1, w2}
  Shards = {s1}
  LastSeq = 1
  CheckpointInterval = 0
  ClientMayVanish = TRUE
  StaleScans = FALSE
  MaxSteals = 0
  MaxRestarts = 0
  MaxCounter = 6
  MaxFaults = 0
INVARIANT CompletedCovered
CHECK_DEADLOCK FALSE
