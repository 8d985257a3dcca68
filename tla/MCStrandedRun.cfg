SPECIFICATION FairSpec
CONSTANTS
    s1 = s1
    s2 = s2
    s3 = s3
    Stages = {s1, s2}
    Layer <- Parallel
    Agents = {"worker"}
    Outcomes = {"pass"}
    Effectful = {}
    LossWindows = {}
    StoreFaults = FALSE
    MaxFaults = 1
PROPERTIES RunIsNotStranded
CHECK_DEADLOCK FALSE
