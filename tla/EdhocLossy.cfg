SPECIFICATION Spec
CONSTANTS
    Runs = 2
    Loops = 3
    Methods = {0, 3}
    Corrs = {1}
    SuiteLists <- OneSuite
    Ad1s = {0, 1, 2, 3}
    Ad3s <- NoAds
    IdCredsI <- Kids
    IdCredsR <- KidAndChainR
    Ad2s <- NoAds
    SuitesR <- OneSuite
    KnownToI <- KnowsR
    KnownToR <- KnowsI
    c_i <- OneByte
    c_r <- CrByte
    AdBuffer = 2
    FreshKeys = TRUE
    Lossy = TRUE
    Duplicating = FALSE
    DamagedInts = {}
    Impatient = TRUE
INVARIANTS
    TypeOK
    KeysDiffer
    CompletedOnce
    GenuineMessage1Accepted
    GenuineMessage2Accepted
    GenuineMessage3Accepted
PROPERTIES
    ImplementsKeyEstablishment
CHECK_DEADLOCK FALSE
