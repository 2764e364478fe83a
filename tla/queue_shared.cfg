SPECIFICATION FairSpec
CONSTANTS
    MaxRuns = 1
    Pids = {p1, p2, p3}
    NoPid = NoPid
    MaxAlive = 2
    Host <- OneHost
    Faults = {"crash", "taskCancel", "claim", "db", "overrun"}
    MaxFaults = 1
INVARIANTS
    TypeOK
    RunningHasExecutor
PROPERTY EveryRunFinishes
