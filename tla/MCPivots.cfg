SPECIFICATION Spec
CONSTANTS
    ip1 = ip1
    ip2 = ip2
    d1 = d1
    x = x
    y = y
    as1 = as1
    None = None
    Ioc = {ip1, ip2, d1}
    Addr = {x, y}
    Asn = {as1}
    Own <- MCOwn
    MaxCommits = 4
    MaxErrors = 2
INVARIANTS
    TypeOK
    ExactWhenCalm
    WeakOnlyOverCdn
    NoneMissed
    RelationHasItsReason
CHECK_DEADLOCK FALSE
