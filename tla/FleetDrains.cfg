SPECIFICATION FairSpec
CONSTANTS
  NoOwner = NoOwner
  Workers = {w1, w2}
  Shards = {s1}
  LastSeq = 2
  CheckpointInterval = 1
  ClientMayVanish = TRUE
  StaleScans = FALSE
  MaxSteals = 1
  MaxRestarts = 0
  MaxCounter = 12
  MaxFaults = 1
INVARIANT EveryPositionCovered
PROPERTIES ImplementsUntilGone EventuallyDrained
CHECK_DEADLOCK FALSE
