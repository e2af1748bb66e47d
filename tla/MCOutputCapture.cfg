SPECIFICATION FairSpec
CHECK_DEADLOCK FALSE
CONSTANTS
    Goroutines = {main, g1}
    Main = main
    PipeCap = 1
    MaxCalls = 3
    MaxDepth = 2
INVARIANTS
    OutputInv
    ConveyedInOrder
    StopIsOrderly
PROPERTIES
    OutputCallsReturn
