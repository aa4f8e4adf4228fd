SPECIFICATION Spec
CONSTANTS
    v1 = v1
    v2 = v2
    v3 = v3
    None = None
    Indicator = {v1, v2, v3}
    Source = {"dns", "crt"}
    Enrichers <- MCEnrichers2
    Handles <- MCHandles
    Poison <- MCNoPoison
    BatchLimit = 2
    MaxId = 4
    MaxFaults = 2
    SlowCommit = FALSE
INVARIANTS
    TypeOK
    OneRowPerSource
    NoOrphanRows
    SnapshotFresh
PROPERTIES
    ImplementsRegistry
