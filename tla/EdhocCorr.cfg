SPECIFICATION Spec
CONSTANTS
    Runs = 1
    Loops = 2
    Methods = {3}
    Corrs = {0}
    SuiteLists <- OneSuite
    Ad1s = {0}
    Ad3s <- NoAds
    IdCredsI <- Kids
    IdCredsR <- KidsR
    Ad2s <- NoAds
    SuitesR <- OneSuite
    KnownToI <- KnowsR
    KnownToR <- KnowsI
    c_i <- OneByte
    c_r <- CrByte
    AdBuffer = 2
    FreshKeys = TRUE
    Lossy = FALSE
    Duplicating = FALSE
    DamagedInts = {}
    Impatient = FALSE
INVARIANTS
    Message2HasCi
CHECK_DEADLOCK FALSE
