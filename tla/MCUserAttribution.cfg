SPECIFICATION FairSpec
CHECK_DEADLOCK FALSE
CONSTANTS
    Goroutines = {g1, g2}
    Timers = {t1}
    Traces = {tr}
    Users = {u1, u2}
    MaxCalls = 3
INVARIANTS
    AttributionInv
    EventsAccountForSets
PROPERTIES
    EventsAreFlushed
