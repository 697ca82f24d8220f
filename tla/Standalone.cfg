SPECIFICATION Spec
CONSTANTS
  Processes = {p1, p2}
  User = user
  NoShard = 0
  Shards <- MCShards
  ParentOf <- MCParentOf
  LastSeq = 2
  Room <- MCRoom
  MaxAttempts = 1
  MaxStarts = 2
  MaxFaults = 1
INVARIANTS ForeignUntouched ParentFirst RowsTellTheTruth LineageAgrees
PROPERTIES OkMeansDrained ImplementsUntilOverlap Settles
CHECK_DEADLOCK FALSE
