SPECIFICATION Spec
CONSTANTS
    v = v
    None = None
    Item = {v}
    Feed <- MCFeed
    FeedsOf <- MCFeedsOf
    Hosts <- MCHosts
    Telling = {v}
    TTL <- MCTTL
    KeepsEmpty <- MCKeepsEmpty
    Lines <- MCFeed
    Junk = Junk
    VtInterval = 2
    Workloads <- MCWorkloads
    MaxTime = 3
    MaxFlips = 1
    MaxFaults = 1
    MaxSteps = 1
    Epoch <- MCEpoch
INVARIANTS
    TypeOK
    PauseBounded
PROPERTIES
    AnswersCurrent
    RequestsSpaced
CHECK_DEADLOCK FALSE
