SPECIFICATION Spec
CONSTANTS
    Packages <- TwoPackages
    Shape <- Program
    Envs <- Builds
    g1 = g1
    g2 = g2
    Goroutines = {g1, g2}
    Deferred <- DeferredFuncs
    Values = {v}
    Messages = {m1, m2}
    Goexit = Goexit
    None = None
    Roots <- RootFuncs
    Callees <- CallGraph
INVARIANTS
    CallsInv
    SpansEndWithTheirCalls
    OneReportPerPanic
PROPERTIES
    ImplementsPlainCalls
CHECK_DEADLOCK FALSE
