SPECIFICATION Spec
CONSTANTS
    Goroutines = {g1, g2, scanner}
    Scanner = scanner
    Traces = {t1, t2}
    Messages = {m1, m2, m3}
    None = None
    DedupSize = 2
    TTL = 1
    MaxFrames = 2
    MaxPasses = 4
    MaxTime = 1
SYMMETRY Symmetry
INVARIANTS
    ScopeInv
    NeverMisattributed
    DedupWindow
CHECK_DEADLOCK FALSE
