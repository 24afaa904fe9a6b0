CONSTANTS
    NInos = 2
    NSectors = 5
    Small = 1
    PerIndex = 2
    Cap = 3
    PreviewMax = 3
    DocMax = 4
    MaxCopy = 2
    FreeAtBoot = {{2}, {2, 3, 4}}
    Offsets <- MCOffsets
    RawPaths <- MCRawPaths
    MaxOps = 2
SPECIFICATION Spec
CHECK_DEADLOCK FALSE
INVARIANTS RawViewAgrees TransferExact
