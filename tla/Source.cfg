SPECIFICATION FairSpec
CONSTANTS
  Workers = {w1, w2}
  Nobody = Nobody
  LastSeq = 3
  MaxRecords = 2
  MaxExpiries = 1
  MaxBreaks = 1
INVARIANTS NothingPassedOver CursorsContinue
PROPERTY ReadUnlessUnnamed
CHECK_DEADLOCK FALSE
