SPECIFICATION FairSpec
CONSTANTS
    Runs = 1
    Loops = 2
    Methods = {0, 1, 2, 3}
    Corrs = {1}
    SuiteLists <- OneSuite
    Ad1s = {0, 2}
    Ad3s <- NoAds
    IdCredsI <- AllI
    IdCredsR <- AllR
    Ad2s <- SmallAd
    SuitesR <- OneSuite
    KnownToI <- KnowsR
    KnownToR <- KnowsI
    c_i <- TwoBytes
    c_r <- CrByte
    AdBuffer = 2
    FreshKeys = TRUE
    Lossy = FALSE
    Duplicating = FALSE
    DamagedInts = {}
    Impatient = FALSE
INVARIANTS
    GenuineMessage3Accepted
PROPERTIES
    HandshakeCompletes
CHECK_DEADLOCK FALSE
