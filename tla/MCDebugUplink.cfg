SPECIFICATION FairSpec
CHECK_DEADLOCK FALSE
CONSTANTS
    Reader = reader
    Workers = {w1}
    Pumps = {pump}
    Stoppers = {stopper}
    s1 = s1
    s2 = s2
    SessionIDs = {s1, s2}
    Directives <- TwoSessions
    Sizes = {1}
    MaxTime = 1
    MaxGen = 2
    MaxCharged = 1
    NoRules = NoRules
INVARIANTS
    UplinkInv
    RulesMatchSession
    ShutdownEndsSession
PROPERTIES
    ExpiresWhileConnected
    StopReturns
    UplinkStops
