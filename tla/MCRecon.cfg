SPECIFICATION TimedSpec
CONSTANTS
    apex = apex
    www = www
    Apex = apex
    Host = {apex}
    Title = {"headers", "axfr"}
    RoundLimit = 2
    MaxChecks = 1
    MaxId = 3
    MaxFaults = 1
INVARIANTS
    TypeOK
    NothingOfDeleted
    DoneIsComplete
    FindingsHaveAssets
PROPERTIES
    NoEarlyRescan
    EveryTargetScanned
    EveryScanCompletes
