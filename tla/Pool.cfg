SPECIFICATION FairSpec
CONSTANTS
  Shards = {s1, s2}
  NoShard = NoShard
  MaxPool = 2
  Poll = 2
  Ceiling = 3
  MaxArrivals = 2
  MaxMoves = 1
  MaxStops = 1
INVARIANT OnePassPerShard
PROPERTY NoStarvation
CHECK_DEADLOCK FALSE
