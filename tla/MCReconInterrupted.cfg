SPECIFICATION TimedSpec
CONSTANTS
    apex = apex
    www = www
    Apex = apex
    Host = {apex, www}
    Title = {"headers", "wildcard", "axfr"}
    RoundLimit = 2
    MaxChecks = 1
    MaxId = 2
    MaxFaults = 1
PROPERTIES
    InterruptedScanRetried
