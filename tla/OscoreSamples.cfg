SPECIFICATION Spec
CONSTANTS
    Radix = 256
    SSN_LEN = 3
    MAX_PIV_LEN = 3
    MAX_KID_CONTEXT_LEN = 8
    AUTH_TAG_LEN = 8
    OSCORE_OPT_VALUE_LEN = 22
    BufLen = 256
    Junk = 256
    Secrets = {s1}
    Unset = Unset
    Weight <- MCWeight
    IdContexts <- MCIdContexts
    CtxLen <- MCCtxLen
    ClientId <- MCClientId
    ServerId <- MCServerId
    Setups <- MCSetups
    Strays <- MCStrays
    AnyCapacity <- MCAnyCapacity
INVARIANT TypeOK
INVARIANT OnlyOuterVisible
INVARIANT RequestIntact
INVARIANT AnswerIntact
INVARIANT AnsweredInKind
PROPERTY ClientGoesOn
CHECK_DEADLOCK FALSE
