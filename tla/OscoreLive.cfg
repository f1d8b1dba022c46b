SPECIFICATION FairSpec
CONSTANTS
    Radix = 4
    SSN_LEN = 3
    MAX_PIV_LEN = 2
    Secrets = {s1}
    IdContexts = {short, short2}
    Requests = 3
    Restarts = 0
    Answers = {a1, a2}
    Lossy = FALSE
    Duplicating = FALSE
    Impatient = FALSE
    Pipelined = FALSE
    Weight <- MCWeight
    CtxLen <- MCCtxLen
    MAX_KID_CONTEXT_LEN = 2
    ClientId = ClientId
    ServerId = ServerId
    OtherId = OtherId
    Unset = Unset
    noctx = noctx
    short = short
    short2 = short2
    long = long
    tooLong = tooLong
PROPERTY RequestAnswered
CHECK_DEADLOCK FALSE
