SPECIFICATION FairSpec
CONSTANTS
    Runners = {r1, r2}
    NoOne = NoOne
    Evidence = {e1, e2, e3, e4}
    Null = Null
    Identities = {asFrozen}
    Valid = {asFrozen}
    Faults = {"crash", "io"}
    MaxFaults = 2
PROPERTY CrashRecovery
