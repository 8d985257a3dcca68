SPECIFICATION Spec
CONSTANTS
    Callers = {c1, c2}
    StartKeys = {s1}
    PackageKeys = {k1, k2}
    PurgeKeys = {p1, p2}
    None = None
    MaxTaskVersion = 3
    MaxPurgeVersion = 3
    MaxCalls = 3
SYMMETRY Interchangeable
INVARIANTS ReleaseIsPackaged PurgedAsReviewed
CHECK_DEADLOCK FALSE
