----------------------------- MODULE Enrichers ------------------------------
(***************************************************************************)
(* What each enricher of worker/worker.py makes of the reply of its        *)
(* service.  A reply is classed by what the code can tell apart; the data  *)
(* it parses out of a good one is left out.                                *)
(***************************************************************************)

\* Replies: no answer at all (timeout, refused, no such name); an HTTP status;
\* and with status 200 a body that is not JSON ("garbled"), JSON whose fields
\* are not of the types the code picks them from ("foreign"), JSON that says the
\* service failed ("refusal"), or the data ("good").
HttpError == {"notfound", "limited", "failing"}
Malformed == {"garbled", "foreign"}
Reply == {"unreachable", "refusal", "good"} \cup HttpError \cup Malformed

\* The replies that end in {"error": ...}, and those that make the enricher
\* raise; every other one gives data.
Takes(errs, raises) == [errors |-> errs, raises |-> raises]

\* The resolver: every exception is caught.
Dns == Takes({"unreachable"}, {})

\* The JSON is read inside the try, its fields are picked after it.
Whois == Takes({"unreachable", "garbled"} \cup HttpError, {"foreign"})
Wayback == Takes({"unreachable", "garbled"} \cup HttpError, {"foreign"})

\* A list of objects is expected; a refusal is one object, whose keys are gone
\* over and have no fields to pick.
Crtsh == Takes({"unreachable", "garbled"} \cup HttpError, {"foreign", "refusal"})

\* Any page is fingerprinted, whatever its status; scripts and the GraphQL
\* probe are optional.
Tech == Takes({"unreachable"}, {})

\* Four queries, each of them optional.
DnsRecords == Takes({}, {})

\* No look at the HTTP status: an error page is usually not JSON.
Geoip == Takes({"unreachable", "garbled", "refusal"} \cup HttpError, {"foreign"})

\* 404 is an answer ("no data"); r.json() is outside the try.
Shodan == Takes({"unreachable", "limited", "failing"}, {"garbled", "foreign"})

\* So it is here.
Virustotal == Takes({"unreachable"} \cup HttpError, Malformed)

\* The enrichers that ask a service of their own for every item; the others look
\* it up in downloaded lists (module Sources) and never raise.
Asking ==
    [dns |-> Dns, whois |-> Whois, crt |-> Crtsh, tech |-> Tech, dns_records |-> DnsRecords,
     wayback |-> Wayback, geoip |-> Geoip, shodan |-> Shodan, virustotal |-> Virustotal]

\* A reply of its service on which the enricher of s raises, and rolls the batch back.
Raises(s, reply) == s \in DOMAIN Asking /\ reply \in Asking[s].raises
=============================================================================
