SPECIFICATION Spec
CONSTANTS
    Runners = {r1, r2}
    NoOne = NoOne
    Evidence = {e1, e2, e3}
    Null = Null
    Identities = {asFrozen}
    Valid = {asFrozen}
    Faults = {"db"}
    MaxFaults = 1
INVARIANT RegisteredEvidencePresent
