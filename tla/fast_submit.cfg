SPECIFICATION FairSpec
CONSTANTS
    Signals = {s1, s2}
    Cap = 2
    CompactAt = 3
    Faults = {"kill", "power", "wire", "db", "venue"}
    MaxFaults = 1
INVARIANTS
    TypeOK
    OpenIntentRemembered
    VenueOrderTracked
PROPERTY OrphansResolved
