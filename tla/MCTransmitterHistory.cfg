SPECIFICATION HSpec
CHECK_DEADLOCK FALSE
CONSTANTS
    Items = {a, b}
    Callers = {deferred, signal}
    ChanCap = 2
    BatchMax = 2
    MaxAccepted = 4
INVARIANTS
    HInv
    ShutdownFlushes
PROPERTIES
    ImplementsTelemetryQueue
