SPECIFICATION FairSpec
CONSTANTS
    ip = ip
    exit = exit
    domain = domain
    hash = hash
    target = target
    None = None
    Ioc = {domain, hash, ip}
    Target = {target}
    Domains <- MCDomains
    Keys <- MCKeys
    Unreliable = {"ips", "cert", "threatfox"}
    Worlds <- MCWorlds
    MaxWatch = 2
    MaxFlips = 1
    MaxFaults = 1
INVARIANTS
    TypeOK
    NothingOfUnwatched
    AlertsBounded
PROPERTIES
    EveryItemChecked
    RiseAlerted
