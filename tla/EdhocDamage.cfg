SPECIFICATION Spec
CONSTANTS
    Runs = 1
    Loops = 2
    Methods = {0, 1, 2, 3}
    Corrs = {1}
    SuiteLists <- EachSuite
    Ad1s = {0}
    Ad3s <- NoAds
    IdCredsI <- Kids
    IdCredsR <- KidsR
    Ad2s <- NoAds
    SuitesR <- Both
    KnownToI <- KnowsR
    KnownToR <- KnowsI
    c_i <- OneByte
    c_r <- CrByte
    AdBuffer = 2
    FreshKeys = TRUE
    Lossy = TRUE
    Duplicating = FALSE
    DamagedInts = {0, 1, 5, 9, 13}
    Impatient = TRUE
INVARIANTS
    InitiatorAgreement
    ResponderAgreement
    AgreementInv
PROPERTIES
    ImplementsKeyEstablishment
CHECK_DEADLOCK FALSE
