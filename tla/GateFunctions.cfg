SPECIFICATION MCSpec
CONSTANTS
    FirstTerms = 2
    LastTerms = 5
    SpareTerms = 0
    GuardBits = 1
    FirstPrecision = 3
    SparePrecision = 1
    PrecisionSpan = 3
    Reference <- MCReference
    ReferenceUnits = 10000
    ReferencePrecision = 6
    Risks <- MCRisks
    Estimates = {1, 2, 3, 4, 5, 6, 7, 8, 9, 10, 12, 15, 17, 18, 20}
    Test <- MCTest
    Least <- MCLeast
    Catalogs <- MCCatalogs
    Words <- MCWords
    Modulus = 8
    LastCounter = 1
    Payloads = {1, 2, 3, 4, 5, 6}
    HeightBound = 2
    Grid = 2
    Quanta = 3
    Groups <- MCGroups
    Weights <- MCWeights
    Gammas <- MCGammas
INVARIANTS
    TypeOK
    AnswersAreLeast
    TestsAreRight
    EnclosuresHold
    TokensVerify
    TokensNameTheDraw
    RootsBindCatalogs
    DrawIsUnbiased
    DecisionsHoldWithinAQuantum
PROPERTY
    SearchEnds
CHECK_DEADLOCK FALSE
