SPECIFICATION Spec
CONSTANTS
    Callers = {c1, c2}
    Launches = {l1, l2}
    Restarts = {r1}
    Workers = {w1}
    Digests = {d1, d2}
    Deployments = {p1, p2}
    None = None
    MaxCalls = 3
    MaxMoves = 3
    MaxCaptures = 2
SYMMETRY Interchangeable
INVARIANTS RunBoundToReceipt RecaptureOnlyAfterInterruption RestartedRunIsHistory
