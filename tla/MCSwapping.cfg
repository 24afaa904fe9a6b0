CONSTANTS
    N = 3
    NText = 2
    even = even
    odd = odd
    big = big
    Files = {even, odd, big}
    NoFile = NoFile
    TextOf <- MCTextOf
    DataOf <- MCDataOf
    MemPages = 8
    SwapBlocks = 18
    Space = 14
    Breaks = {2, 3, 4}
    MaxOps = 5
SPECIFICATION Spec
CHECK_DEADLOCK FALSE
INVARIANTS StoreOwned TextsRight NobodyForgotten
