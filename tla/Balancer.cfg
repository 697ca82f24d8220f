SPECIFICATION FairSpec
CONSTANTS
  NoOwner = NoOwner
  Workers = {w1, w2}
  Keys = {1, 2}
  LeaseDuration = 1
  Period = 1
  MaxLeases = 2
  MaxFaults = 1
INVARIANT TypeOK
PROPERTIES LiveNeverReaped OrphansReclaimed FairlyShared Settles
CHECK_DEADLOCK FALSE
