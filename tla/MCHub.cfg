SPECIFICATION FairSpec
CONSTANTS
    c1 = c1
    c2 = c2
    Client = {c1, c2}
    Capacity = 1
    MaxMsgs = 2
INVARIANTS
    TypeOK
    NoSendOnClosed
    NothingSkipped
PROPERTIES
    ImplementsBroadcast
    BroadcastEnds
    HandlersReturn
