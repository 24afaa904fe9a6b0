SPECIFICATION Spec
CONSTANTS
  Base = 4
  Image <- MCImage
  Dest <- MCDest
  SecLen = 2
  Colon = 5
  Garbled = 1
  NSlot = 2
  FitM = 1
  MaxLen = 3
  MaxCmds = 4
INVARIANTS TypeOK AnswersTrue
PROPERTY ResumesAsAsked
CHECK_DEADLOCK FALSE
