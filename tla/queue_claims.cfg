SPECIFICATION Spec
CONSTANTS
    MaxRuns = 2
    Pids = {p1, p2}
    NoPid = NoPid
    MaxAlive = 2
    Host <- OneHost
    Faults = {"claim"}
    MaxFaults = 1
SYMMETRY Symmetry
INVARIANT SingleExecutor
