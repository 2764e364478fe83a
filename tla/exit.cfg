SPECIFICATION Spec
CONSTANTS
    Shares = 2
    MaxOrders = 2
    MaxBusy = 2
    MaxRetries = 1
    HardCeiling = 2
    StreakLimit = 1
    MaxReprices = 1
    Triggers = {TRUE}
    OthersHeld = TRUE
    Faults = {"timeout", "venue", "cancel", "write", "blip", "crash"}
INVARIANTS
    TypeOK
    FillsNotOverstated
CHECK_DEADLOCK FALSE
