----------------------------- MODULE MCSources ------------------------------
(* An instance of Sources for TLC: one indicator looked up in the list of an  *)
(* address and in two block lists, one origin address behind the same CDN.    *)
EXTENDS Sources, TLC

CONSTANT v

MCFeed == {"tor", "cert", "urlhaus"}

MCFeedsOf ==
    [s \in FeedSource |-> [i \in Item |->
        CASE s = "blocklist" -> <<"cert", "urlhaus">> [] OTHER -> <<"tor">>]]

MCHosts == [i \in Item |-> Item]

MCTTL == [f \in Feed |-> 1]

MCKeepsEmpty == {"cert", "urlhaus"}

MCEpoch == -10

MCWorkloads == {S \X {v} : S \in
    {{"tor", "virustotal"}, {"blocklist"}, {"cdn"}}}
=============================================================================
