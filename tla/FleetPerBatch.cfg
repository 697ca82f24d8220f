SPECIFICATION Spec
CONSTANTS
  NoOwner = NoOwner
  Workers = {w1, w2}
  Shards = {s1}
  LastSeq = 2
  CheckpointInterval = 0
  ClientMayVanish = FALSE
  StaleScans = TRUE
  MaxSteals = 1
  MaxRestarts = 1
  MaxCounter = 12
  MaxFaults = 1
SYMMETRY Symmetry
INVARIANTS TypeOK EveryPositionCovered CompletedCovered
PROPERTIES DurableNeverRegresses CompletedIsFinal ImplementsShardLog
CHECK_DEADLOCK FALSE
