SPECIFICATION SSpec
CHECK_DEADLOCK FALSE
SYMMETRY Symmetry
CONSTANTS
    Reader = reader
    Workers = {w1, w2}
    Pumps = {pump}
    Stoppers = {stopper}
    SessionIDs = {s1, s2}
    Directives <- MCDirectives
    Sizes = {1, 2}
    MaxTime = 1
    MaxGen = 2
    MaxCharged = 2
INVARIANTS
    SessionInv
    EndedExactlyOnce
    SnapshotIsFinal
    ReasonIsTrue
PROPERTIES
    NoResurrection
