SPECIFICATION MCSpec
CONSTANTS
    p1 = p1
    p2 = p2
    k1 = k1
    k2 = k2
    k3 = k3
    k4 = k4
    Procs = {p1, p2}
    NoProc = NoProc
    NBuf = 2
    Blks = {k1, k2, k3, k4}
    NoBlk = NoBlk
    OutOfRange = {k4}
    Vals = {0, 1}
    Blank = 0
    NoVal = NoVal
    MaxCalls = 3
    RetryMax = 2
    MaxErr = 1
INVARIANTS OneBufferPerBlock FreeListExact OneKeeper NoLostWakeup
PROPERTIES ImplementsBlockStore EveryCallReturns StarvedForGood
