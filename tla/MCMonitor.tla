----------------------------- MODULE MCMonitor ------------------------------
(* Instances of Monitor for TLC: a domain whose address changes and that gets *)
(* on either of two lists; a file hash that only ThreatFox knows of; a target *)
(* that is scanned, next to an IP address that is on no list; an address that *)
(* the list of Tor exits knows of.                                            *)
EXTENDS Monitor, TLC

CONSTANTS ip, exit, domain, hash, target

MCKeys ==
    [o \in Ref |-> CASE o = ip -> {"ips"}
                     [] o = exit -> {"ips", "tor"}
                     [] o = domain -> {"ips", "blocklist"}
                     [] o = hash -> {"threatfox"}
                     [] o = target -> Count]

MCDomains == Ioc \cap {domain}

MCWorlds == {{domain}, {hash}, {ip, target}}
MCOutageWorlds == {{hash, exit}}
=============================================================================
