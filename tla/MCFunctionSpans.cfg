SPECIFICATION Spec
CONSTANTS
    Sites <- MCSites
    Facts = {"slow"}
    RuleSets <- MCRuleSets
    Overrides <- MCOverrides
    Globals <- MCGlobals
    Sailfishes <- MCSailfishes
    NoRule = NoRule
    NoOverride = NoOverride
    MaxSpans = 3
INVARIANTS
    SpanInv
    PropagationBounded
    SuppressedSubtreeIsSilent
    CaptureIsAsOrdered
CHECK_DEADLOCK FALSE
