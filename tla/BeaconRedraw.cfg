SPECIFICATION Spec
CONSTANTS
    Ledgers = {l1, l2}
    Recreatable = {l2}
    Bodies = {b1, b2}
    Indices = {0}
    Checkpoints = {1, 2}
    LastContext = 0
    UINT32_MAX = 3
    Idle = Idle
    ZeroHash = ZeroHash
INVARIANTS
    OneDrawPerAllocation
CHECK_DEADLOCK FALSE
