SPECIFICATION FairSpec
CONSTANTS
  Shards = {s1, s2}
  LastBatch = 2
  ClientMayStop = TRUE
  ClientMayVanish = TRUE
INVARIANTS PersistedWasHandled AckFindsItsWaiter HandoffInOrder
PROPERTY StopEnds
CHECK_DEADLOCK FALSE
