CONSTANTS
  N = 3
  NExec = 1
  SwapBlks <- MCSwapBlks
  Mem = 100
  MaxPid = 3
  MaxInts = 0
  MaxKills = 1
SPECIFICATION Spec
INVARIANTS FamilyTree WaiterHasChild NoSleepThroughKill
PROPERTY ReapedByParent
CHECK_DEADLOCK FALSE
