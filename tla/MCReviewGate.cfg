SPECIFICATION FairSpec
CONSTANTS
    Workers = {w1}
    Operators = {o1, o2}
    Recovery = recovery
    MaxGates = 2
    MaxRequests = 1
    MaxFaults = 1
INVARIANTS TypeOK VerdictIsDecision ReviewHasGate
PROPERTIES DecisionIsServed
CHECK_DEADLOCK FALSE
