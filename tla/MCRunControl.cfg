SPECIFICATION Spec
CONSTANTS
    N = 2
    Layer <- MCLayer
    External = {2}
    Outcomes = {"pass", "needs_repair", "interrupted"}
    Controls = {"p", "t", "c"}
    Action <- MCAction
    Target <- MCTarget
    MaxRequests = 2
    MaxContinuations = 1
    MaxFaults = 1
INVARIANTS TypeOK AcknowledgedIsDone SucceededMeansPassed
PROPERTIES PauseHolds
CHECK_DEADLOCK FALSE
