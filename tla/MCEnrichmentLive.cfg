SPECIFICATION FairSpec
CONSTANTS
    v1 = v1
    v2 = v2
    v3 = v3
    None = None
    Indicator = {v1, v2}
    Source = {"dns", "crt", "virustotal"}
    Enrichers <- MCEnrichers3
    Handles <- MCHandles
    Poison <- MCPoison
    BatchLimit = 2
    MaxId = 2
    MaxFaults = 1
    SlowCommit = TRUE
INVARIANTS
    RedundantRowsBounded
PROPERTIES
    LocksReleased
    EnrichedUnlessBlocked
