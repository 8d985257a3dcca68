SPECIFICATION FairLeaseSpec
CONSTANTS
    w1 = w1
    w2 = w2
    Supervisors = {w1, w2}
    Resources = {"run"}
    NoLease = NoLease
    TTL = 2
    MaxGrants = 3
    MaxVersion = 3
INVARIANTS
    BeliefIsSound
    SoleSupervisor
PROPERTIES
    SupersededIsFrozen
    LossIsResolved
