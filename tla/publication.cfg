SPECIFICATION Spec
CONSTANTS
    Runners = {r1, r2}
    NoOne = NoOne
    Evidence = {e1, e2, e3}
    Null = Null
    Identities = {asFrozen, drifted}
    Valid = {asFrozen}
    Faults = {"crash", "gateway", "io", "db", "late"}
    MaxFaults = 2
SYMMETRY Symmetry
INVARIANTS
    TypeOK
    ReturnedIsRegistered
    FreshEvidenceKept
    OnlyValidEvidence
PROPERTIES
    DirectoryNeverReplaced
    OnlyMakerRemoves
    ImplementsWriteOnce
