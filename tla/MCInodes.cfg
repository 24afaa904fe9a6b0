CONSTANTS
  Procs = {p1, p2}
  NoProc = NoProc
  Names = {a, b, c}
  NoName = NoName
  NInode = 3
  NFile = 2
  NEntry = 3
  Last = 4
  Cap = 1
  MaxCalls = 3
  MaxSyncs = 1
SPECIFICATION Spec
SYMMETRY Symmetry
INVARIANTS TypeOK OneEntryPerInode CountExact FilesAllocated
CHECK_DEADLOCK FALSE
