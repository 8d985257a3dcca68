SPECIFICATION Spec
CONSTANTS
    Callers = {c1, c2}
    StartKeys = {s1}
    PackageKeys = {}
    PurgeKeys = {}
    None = None
    MaxTaskVersion = 1
    MaxPurgeVersion = 1
    MaxCalls = 2
SYMMETRY Interchangeable
INVARIANTS RunKeepsItsInputs
CHECK_DEADLOCK FALSE
