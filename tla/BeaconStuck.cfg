SPECIFICATION FairSpec
CONSTANTS
    Ledgers = {l1}
    Recreatable = {}
    Bodies = {b1}
    Indices = {0}
    Checkpoints = {1}
    LastContext = 1
    UINT32_MAX = 2
    Idle = Idle
    ZeroHash = ZeroHash
PROPERTIES
    ReservedIsRevealed
CHECK_DEADLOCK FALSE
