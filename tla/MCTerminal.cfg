SPECIFICATION Spec
CONSTANTS
    sh = sh
    prog = prog
    Procs <- MCProcs
    NoProc = none
    Shell = sh
    Openers = {prog}
    Keys = {"enter", "back", "c", "g", "rctrl", "pause"}
    Counts = {1, 2}
    Size = 8
    MaxLine = 3
    MaxKeys = 4
    MaxReads = 2
INVARIANTS InputConserved NoMissedWake LockHeld
PROPERTY NoFalseEnd
CHECK_DEADLOCK FALSE
