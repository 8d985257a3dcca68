SPECIFICATION FairSpec
CONSTANTS
    w1 = w1
    w2 = w2
    Workers = {w1, w2}
    NumJobs = 2
    MaxCapacity = 2
    TTL = 1
    MaxEffects = 1
    Outcomes = {"succeeded", "in_doubt"}
    Nobody = Nobody
INVARIANTS
    BeliefMatchesJob
    SlotHeldOnlyWhileRunning
PROPERTIES
    ImplementsDelivery
    NothingWaitsForEver
