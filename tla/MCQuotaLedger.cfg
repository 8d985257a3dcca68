SPECIFICATION Spec
CONSTANTS
    stage = stage
    direct = direct
    task = task
    actor = actor
    Jobs = {stage, direct}
    Direct = {direct}
    Accounts = {task, actor}
    Dimension <- MCDimension
    Scopes <- MCScopes
    Claims <- MCClaims
    Units <- MCUnits
    Policy <- MCPolicy
    PolicyLimit <- MCPolicyLimit
    Events = {"use"}
    Cost <- MCCost
    Recoverers = {"worker", "operator"}
    Grants = {"grant"}
    Opening = {2, 3}
    Delta = 1
    MaxUnits = 3
    TTL = 1
    NoJob = NoJob
    NoAccount = NoAccount
INVARIANTS
    AccountMatchesLeases
PROPERTIES
    ImplementsManager
    SettledIsFinal
    LostReservationIsClosed
CHECK_DEADLOCK FALSE
