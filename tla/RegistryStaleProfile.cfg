SPECIFICATION Spec
CONSTANTS
    p1 = p1  p2 = p2  r1 = r1  r2 = r2  m0 = m0  m1 = m1
    probe1 = probe1  probe2 = probe2  probe3 = probe3  twin1 = twin1
    MaxKeys = 2
    MaxAttempts = 2
    StartVersion = 1
    h1 = h1  h2 = h2
    Handles = {h1, h2}
    twin2 = twin2
    Twins = {twin1, twin2}
    Policies = {p1, p2}
    Rosters = {r1, r2}
    Models = {m0}
    GenesisModel = m0
    Probes = {probe1}
    Manifests <- MCManifests
    Keys <- MCKeys
    Profile <- MCProfile
    InitialContext <- MCInitialContext
    Proposals <- LineageProposals
    Envelopes = {1, 2}
    Deltas = {1, 2}
    Horizons = {1, 2}
    UINT32_MAX = 2
INVARIANT
    FrozenProfileIsLive
CHECK_DEADLOCK FALSE
