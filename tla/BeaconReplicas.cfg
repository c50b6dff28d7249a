SPECIFICATION Spec
CONSTANTS
    Ledgers = {l1, l2}
    Recreatable = {l2}
    Bodies = {b1, b2}
    Indices = {0}
    Checkpoints = {1, 2}
    LastContext = 1
    UINT32_MAX = 3
    Idle = Idle
    ZeroHash = ZeroHash
INVARIANTS
    TypeOK
    OneFixationPerRound
    HeadsFollowChain
PROPERTIES
    NoFixationAfterReveal
    ImplementsCommitReveal
CHECK_DEADLOCK FALSE
