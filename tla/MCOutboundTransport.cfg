SPECIFICATION FairSpec
CONSTANTS
    Layers = 2
    RespLimit = 1
    Sizes = {0, 1, 2, 3}
    MaxCalls = 2
    None = None
INVARIANTS
    TransportInv
    RejectionIsUntraced
    SameBodyOnEveryAttempt
    TracedAttemptsRecorded
PROPERTIES
    AnsweredCallReturns
CHECK_DEADLOCK FALSE
