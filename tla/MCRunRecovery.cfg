SPECIFICATION Spec
CONSTANTS
    s1 = s1
    s2 = s2
    s3 = s3
    Stages = {s1, s2, s3}
    Layer <- Parallel
    Agents = {"worker", "operator"}
    Outcomes = {"pass", "needs_repair", "infra_failed", "unknown"}
    Effectful = {s1}
    LossWindows = {"coordinator_unrecovered", "run_unrecovered", "run_unstarted", "stage_unstarted"}
    StoreFaults = TRUE
    MaxFaults = 2
INVARIANTS TypeOK PredecessorsPassed ClosedDeliveryLeavesNothing QuotaClosedWithStage
PROPERTIES InDoubtIsKept
CHECK_DEADLOCK FALSE
