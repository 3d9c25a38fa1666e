SPECIFICATION FairSpec
CONSTANTS
    ReadErrorBudget = 2
    QueueSize = 2
    MaxHidden = 2
    MaxBalance = 2
    MaxFaults = 2
INVARIANTS
    SeenHolderNotDenied
PROPERTIES
    WatchNoticesNobody
    HolderIsNoticed
CHECK_DEADLOCK FALSE
