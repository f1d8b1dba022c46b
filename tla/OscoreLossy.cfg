SPECIFICATION Spec
CONSTANTS
    Radix = 2
    SSN_LEN = 3
    MAX_PIV_LEN = 1
    Secrets = {s1}
    IdContexts = {noctx, short, short2, long, tooLong}
    Requests = 3
    Restarts = 1
    Answers = {a1, a2}
    Lossy = TRUE
    Duplicating = FALSE
    Impatient = TRUE
    Pipelined = FALSE
    Weight <- MCWeight
    CtxLen <- MCCtxLen
    MAX_KID_CONTEXT_LEN = 2
    ClientId = ClientId
    ServerId = ServerId
    OtherId = OtherId
    Unset = Unset
    noctx = noctx
    short = short
    short2 = short2
    long = long
    tooLong = tooLong
INVARIANT TypeOK
INVARIANT ServerContextCoherent
INVARIANT GenuineRequestsOpen
INVARIANT NoncesDiffer
INVARIANT RrcPersists
PROPERTY ImplementsChannel
CHECK_DEADLOCK FALSE
