SPECIFICATION FairSpec
CONSTANTS
    Runs = {1}
    Jobs = {"a", "c"}
    RunOf <- MCRunOf
    Kind <- MCKind
    Creates <- MCCreates
    Initial = {"a"}
    Operators = {op}
    MaxHandoffs = 2
    MaxFaults = 1
INVARIANTS TypeOK OneChildPerRun PublishedWasDelivered
PROPERTY QueuedJobIsServed
CHECK_DEADLOCK FALSE
