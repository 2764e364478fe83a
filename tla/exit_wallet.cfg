SPECIFICATION Spec
CONSTANTS
    Shares = 2
    MaxOrders = 2
    MaxBusy = 1
    MaxRetries = 2
    HardCeiling = 3
    StreakLimit = 2
    MaxReprices = 1
    Triggers = {TRUE}
    OthersHeld = TRUE
    Faults = {"venue", "blip"}
INVARIANTS
    ClosedOnEvidence
CHECK_DEADLOCK FALSE
