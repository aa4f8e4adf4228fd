SPECIFICATION FairSpec
CONSTANTS
    v1 = v1
    v2 = v2
    v3 = v3
    None = None
    Indicator = {v1, v2}
    Source = {"dns", "crt", "virustotal"}
    Enrichers <- MCEnrichers3
    Handles <- MCHandles
    Poison <- MCPoison
    BatchLimit = 1
    MaxId = 2
    MaxFaults = 0
    SlowCommit = FALSE
PROPERTIES
    HarmlessIocEnriched
