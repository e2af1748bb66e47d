SPECIFICATION FairSpec
CONSTANTS
    Items = {it}
    Callers = {deferred, signal}
    ChanCap = 3
    BatchMax = 2
PROPERTIES
    ShutdownReturns
    FullQueueDrains
    PartialBatchIsFlushed
