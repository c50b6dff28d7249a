SPECIFICATION FairSpec
CONSTANTS
    f = 1
    Byzantine = {3}
    Flaky = {}
    Proposers = {c1, c2}
    Operators = {c2}
    Attempts = {a1, a2}
    Accepted = {a1}
    Domains = {d1}
    Genesis = Genesis
    ZeroHash = ZeroHash
    Proposals <- MCProposals
INVARIANTS
    TypeOK
    OneCertificatePerScope
PROPERTIES
    RegistryFollowsQuorum
    ImplementsCertification
    AttemptsAreDecided
    HandoversAreDecided
CHECK_DEADLOCK FALSE
