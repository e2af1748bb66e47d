SPECIFICATION Spec
CONSTANTS
    Layers = 1
    RespLimit = 1
    Sizes = {0, 1, 2, 3}
    MaxCalls = 1
    None = None
INVARIANTS
    ResponseBodyRestored
CHECK_DEADLOCK FALSE
