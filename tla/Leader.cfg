SPECIFICATION FairSpec
CONSTANTS
  NoOwner = NoOwner
  Workers = {w1, w2}
  LeaseDuration = 2
  Period = 2
  MaxCounter = 4
  MaxStops = 2
  MaxFaults = 1
INVARIANT OneLeaderPerEpoch
PROPERTY LeaderlessEnds
CHECK_DEADLOCK FALSE
