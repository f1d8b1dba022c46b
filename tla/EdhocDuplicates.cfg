SPECIFICATION Spec
CONSTANTS
    Runs = 2
    Loops = 3
    Methods = {1, 3}
    Corrs = {1}
    SuiteLists <- OneSuite
    Ad1s = {0}
    Ad3s <- NoAds
    IdCredsI <- Kids
    IdCredsR <- KidsR
    Ad2s <- NoAds
    SuitesR <- OneSuite
    KnownToI <- KnowsR
    KnownToR <- KnowsI
    c_i <- OneByte
    c_r <- CrByte
    AdBuffer = 2
    FreshKeys = FALSE
    Lossy = FALSE
    Duplicating = TRUE
    DamagedInts = {}
    Impatient = TRUE
INVARIANTS
    InitiatorAgreement
PROPERTIES
    ImplementsKeyEstablishment
CHECK_DEADLOCK FALSE
