SPECIFICATION Spec
CONSTANTS
    Setups <- MCSetups
INVARIANT TypeOK
INVARIANT AnswersItsRequest
INVARIANT OneRefused
INVARIANT NoStandstill
PROPERTY ServerReturns
PROPERTY SamplesComplete
CHECK_DEADLOCK FALSE
