SPECIFICATION Spec
CONSTANTS
    p1 = p1  p2 = p2  r1 = r1  r2 = r2  m0 = m0  m1 = m1
    probe1 = probe1  probe2 = probe2  probe3 = probe3  twin1 = twin1
    MaxKeys = 2
    MaxAttempts = 2
    StartVersion = 0
    h1 = h1
    Handles = {h1}
    Twins = {twin1}
    Policies = {p1}
    Rosters = {r1}
    Models = {m0, m1}
    GenesisModel = m0
    Probes = {probe2, probe3}
    Manifests <- MCManifests
    Keys <- MCKeys
    Profile <- MCProfile
    InitialContext <- MCInitialContext
    Proposals <- ChainProposals
    Envelopes = {2}
    Deltas = {1}
    Horizons = {1, 2}
    UINT32_MAX = 2
INVARIANTS
    ReceiptsFormOneChain
    ReplayReachesServing
    OneAppendableCore
    EvidenceIsUsedOnce
    JournalRebuildsState
PROPERTIES
    LapsedStaysLapsed
    ImplementsInstalledTransition
CHECK_DEADLOCK FALSE
