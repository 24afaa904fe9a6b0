SPECIFICATION ShSpec
CONSTANTS
    p1 = p1
    p2 = p2
    p3 = p3
    p4 = p4
    i1 = i1
    i2 = i2
    i3 = i3
    kbd = kbd
    scr = scr
    Procs = {p1, p2, p3, p4}
    First = p1
    NoProc = NoProc
    Pipes = {i1, i2, i3}
    Input = kbd
    Output = scr
    NFile = 6
    NOfile = 6
    PipSiz = 1
    Blocks = 2
    Sizes = {1, 2}
    MaxFaults = 1
    MaxCalls <- MCCalls
    Lines <- MCLines
    Typed <- MCTyped
    Garbage <- MCGarbage
INVARIANTS
    CountsExact
    InOrder
    NobodyStranded
    ParsedRight
    Wired
    InTurn
SYMMETRY Symmetry
CHECK_DEADLOCK FALSE
