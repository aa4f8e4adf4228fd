---------------------------- MODULE MCEnrichment ----------------------------
(* Instances of Enrichment for TLC: two or three sources that cover different *)
(* types, two or three indicators.  On which of them an enricher raises       *)
(* follows from what the services reply.                                      *)
EXTENDS Enrichment, TLC

E == INSTANCE Enrichers

CONSTANTS v1, v2, v3

MCEnrichers2 == <<"dns", "crt">>
MCEnrichers3 == <<"dns", "crt", "virustotal">>

\* v1 is a domain, the others are addresses.
MCHandles == [s \in Source |-> IF s = "crt" THEN {v1} ELSE Indicator]

MCNoPoison == {}

\* crt.sh sends an error object for v1; virustotal, which comes after it in the
\* round, turns requests away, and names do not resolve.
MCReplies(i, s) ==
    CASE s = "dns" -> "unreachable" [] s = "crt" -> "refusal" [] s = "virustotal" -> "limited"

MCPoison ==
    {p \in Indicator \X Source : p[1] \in Handles[p[2]] /\ E!Raises(p[2], MCReplies(p[1], p[2]))}
=============================================================================
