SPECIFICATION FairSpec
CONSTANTS
  Code <- MCCode
  Flow <- MCFlow
  Calls = {1, 3}
  Checks = {2}
  Low = {0}
  MaxBp = 2
  MaxBuf = 3
  MaxNest = 4
  MaxSent = 4
  MaxFaults = 1
  MaxBreaks = 1
  Careful = TRUE
INVARIANTS Int3Owned
PROPERTIES NoRunThrough ClientServed
CHECK_DEADLOCK FALSE
