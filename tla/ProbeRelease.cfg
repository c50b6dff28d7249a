SPECIFICATION FairSpec
CONSTANTS
    Callers = {c1, c2}
    Ledgers = {l1}
    Stores = {"s1", "s2", "s3"}
    FrameOf <- MCFrameOf
    Catalog <- MCCatalog
    Sources <- MCSources
    Candidates <- MCCandidates
    Persistent <- MCPersistent
    Randoms = {0, 1}
    Draw <- MCDraw
    Hidden = Hidden
    Idle = Idle
INVARIANTS
    TypeOK
    OneDrawPerFixation
    ReleasesAreBacked
    LedgersNeverRefuse
PROPERTIES
    ImplementsOneUse
    ImplementsCommitReveal
    ReleasesAreFinished
CHECK_DEADLOCK FALSE
