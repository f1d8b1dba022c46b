SPECIFICATION Spec
CONSTANTS
    Radix = 2
    SSN_LEN = 3
    MAX_PIV_LEN = 2
    Secrets = {s1}
    IdContexts = {short, short2}
    Requests = 4
    Restarts = 2
    Answers = {a1}
    Lossy = FALSE
    Duplicating = TRUE
    Impatient = TRUE
    Pipelined = FALSE
    Weight <- MCWeight
    CtxLen <- MCCtxLen
    MAX_KID_CONTEXT_LEN = 2
    ClientId = ClientId
    ServerId = ServerId
    OtherId = OtherId
    Unset = Unset
    noctx = noctx
    short = short
    short2 = short2
    long = long
    tooLong = tooLong
INVARIANT RequestNoncesDiffer
INVARIANT AnswerBelongsToRequest
INVARIANT ExchangeInv
PROPERTY ImplementsChannel
CHECK_DEADLOCK FALSE
