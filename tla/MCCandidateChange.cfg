SPECIFICATION FairChangeSpec
CONSTANTS
    None = None
    Base = Base
    Reconcilers = {"operator"}
    Humans = {"human"}
    MaxIncidents = 1
INVARIANTS
    ChangeTypeOK
    SealedMatchesReceipt
    OneChildPerCheckpoint

    
