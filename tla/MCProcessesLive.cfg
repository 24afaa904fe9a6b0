CONSTANTS
  N = 2
  NExec = 1
  SwapBlks <- MCSwapBlks
  Mem = 100
  MaxPid = 3
  MaxInts = 1
  MaxKills = 1
SPECIFICATION FairSpec
PROPERTY KilledDies
CHECK_DEADLOCK FALSE
