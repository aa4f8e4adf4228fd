SPECIFICATION Spec
CONSTANTS
    ip = ip
    exit = exit
    domain = domain
    hash = hash
    target = target
    None = None
    Ioc = {hash, exit}
    Target = {}
    Domains <- MCDomains
    Keys <- MCKeys
    Unreliable = {"tor"}
    Worlds <- MCOutageWorlds
    MaxWatch = 1
    MaxFlips = 1
    MaxFaults = 1
INVARIANTS
    AlertsJustified
