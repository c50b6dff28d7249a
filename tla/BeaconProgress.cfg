SPECIFICATION FairSpec
CONSTANTS
    Ledgers = {l1, l2}
    Recreatable = {}
    Bodies = {b1, b2}
    Indices = {0, 1}
    Checkpoints = {1}
    LastContext = 0
    UINT32_MAX = 3
    Idle = Idle
    ZeroHash = ZeroHash
PROPERTIES
    ReservedIsRevealed
CHECK_DEADLOCK FALSE
