CONSTANTS
    Signals = {s1, s2}
    Cap = 2
    CompactAt = 6
    Faults = {"kill", "wire"}
    MaxFaults = 2
SPECIFICATION Spec
INVARIANT RecoveredHasRow
