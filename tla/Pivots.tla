------------------------------- MODULE Pivots -------------------------------
(***************************************************************************)
(* The relations of an indicator (api/pivots.go): GET /iocs/{id}/pivots    *)
(* computes them with one statement after another, without a transaction,  *)
(* while the worker commits rows and indicators are added and deleted.     *)
(* Only the rows it reads are modelled: addresses from sources "dns" and   *)
(* "cdn", the AS number from "geoip".                                      *)
(***************************************************************************)
EXTENDS Naturals, FiniteSets

CONSTANTS
    Ioc,          \* ids
    Addr,         \* addresses
    Asn,          \* AS numbers
    Own,          \* Own[i]: {its value} for type ip, {} for a domain
    MaxCommits,   \* bound: rows the worker commits
    MaxErrors,    \* bound: statements that fail
    None

ASSUME PivotsAssumption ==
    /\ Own \in [Ioc -> SUBSET Addr]
    /\ \A i \in Ioc : Cardinality(Own[i]) <= 1
    /\ \A i, j \in Ioc : i # j => Own[i] \cap Own[j] = {}     \* UNIQUE (type, value)
    /\ MaxCommits \in Nat /\ MaxErrors \in Nat
    /\ None \notin Asn \cup Ioc

VARIABLES
    reg,          \* reg[i]: "new", "live" or "gone" in table iocs
    dns,          \* dns[i]: resolved_ips of its dns row, {} without one
    cdn,          \* cdn[i]: resolved_ips of its cdn row, {} without one
    behind,       \* behind[i]: behind_cdn of its cdn row
    as,           \* as[i]: "as" of its geoip row, or None
    commits,
    pc,           \* the handler: "idle", or the statement that comes next
    focal,        \* id
    focalIPs, cdnIPs,
    rest,         \* related indicators whose addresses are still to be read
    shared,       \* shared[j]: shared_ips of the related indicator j
    low,          \* those of confidence "low"
    related,      \* result.Related, as ids
    byAsn,        \* result.RelatedByASN
    focalAsn,
    errors,
    (* history, read by properties only: *)
    calm,         \* nothing has changed or failed since the handler began
    failed,       \* a statement of this call has failed
    must,         \* what was related when it began
    everCdn       \* addresses some committed row called a CDN's

db == <<reg, dns, cdn, behind, as, commits>>
locals == <<focal, focalIPs, cdnIPs, rest, shared, low, related, byAsn, focalAsn>>
vars == <<db, pc, locals, errors, calm, failed, must, everCdn>>

TypeOK ==
    /\ reg \in [Ioc -> {"new", "live", "gone"}]
    /\ dns \in [Ioc -> SUBSET Addr] /\ cdn \in [Ioc -> SUBSET Addr]
    /\ behind \subseteq Ioc
    /\ as \in [Ioc -> Asn \cup {None}]
    /\ commits \in 0 .. MaxCommits
    /\ pc \in {"idle", "focal", "cdn", "related", "each", "asn", "peers", "answer"}
    /\ focal \in Ioc \cup {None}
    /\ focalIPs \subseteq Addr /\ cdnIPs \subseteq Addr
    /\ focal = None <=> pc = "idle"
    /\ rest \cup related \subseteq Ioc \ {focal} /\ low \subseteq related
    /\ shared \in [Ioc -> SUBSET Addr]
    /\ byAsn \subseteq Ioc
    /\ focalAsn \in Asn \cup {None}
    /\ errors \in 0 .. MaxErrors
    /\ calm \in BOOLEAN /\ failed \in BOOLEAN
    /\ must \subseteq Ioc /\ everCdn \subseteq Addr

Live(i) == reg[i] = "live"

\* What a reader of the whole database sees: i's addresses, who shares one.
Addresses(i) == UNION {Own[i], dns[i], cdn[i]}
Sharing(i) == {j \in Ioc : j # i /\ Live(j) /\ Addresses(i) \cap Addresses(j) # {}}

Cleared == [i \in Ioc |-> {}]

Init ==
    /\ reg = [i \in Ioc |-> "new"]
    /\ dns = Cleared /\ cdn = Cleared /\ behind = {}
    /\ as = [i \in Ioc |-> None]
    /\ commits = 0
    /\ pc = "idle" /\ focal = None
    /\ focalIPs = {} /\ cdnIPs = {} /\ rest = {}
    /\ shared = Cleared /\ low = {} /\ related = {} /\ byAsn = {} /\ focalAsn = None
    /\ errors = 0
    /\ calm = FALSE /\ failed = FALSE /\ must = {} /\ everCdn = {}
-----------------------------------------------------------------------------
(* Other handlers and the worker.                                          *)

AddIOC(i) ==
    /\ reg[i] = "new"
    /\ reg' = [reg EXCEPT ![i] = "live"]
    /\ calm' = FALSE
    /\ UNCHANGED <<dns, cdn, behind, as, commits, pc, locals, errors, failed, must, everCdn>>

\* The rows go with their indicator.
DeleteIOC(i) ==
    /\ Live(i)
    /\ reg' = [reg EXCEPT ![i] = "gone"]
    /\ dns' = [dns EXCEPT ![i] = {}]
    /\ cdn' = [cdn EXCEPT ![i] = {}]
    /\ behind' = behind \ {i}
    /\ as' = [as EXCEPT ![i] = None]
    /\ calm' = FALSE
    /\ UNCHANGED <<commits, pc, locals, errors, failed, must, everCdn>>

WorkerCommits(i) ==
    /\ Live(i)
    /\ commits < MaxCommits
    /\ commits' = commits + 1
    /\ calm' = FALSE
    /\ UNCHANGED <<reg, pc, locals, errors, failed, must>>

\* enrich_dns of a domain; the dns row of an address has no resolved_ips.
CommitDns(i, A) ==
    /\ Own[i] = {} /\ dns[i] = {}
    /\ dns' = [dns EXCEPT ![i] = A]
    /\ WorkerCommits(i)
    /\ UNCHANGED <<cdn, behind, as, everCdn>>

\* enrich_cdn, of domains only.
CommitCdn(i, A, b) ==
    /\ Own[i] = {} /\ cdn[i] = {}
    /\ cdn' = [cdn EXCEPT ![i] = A]
    /\ behind' = IF b THEN behind \cup {i} ELSE behind
    /\ everCdn' = IF b THEN everCdn \cup A ELSE everCdn
    /\ WorkerCommits(i)
    /\ UNCHANGED <<dns, as>>

\* enrich_geoip, of addresses only.
CommitGeoip(i, a) ==
    /\ Own[i] # {} /\ as[i] = None
    /\ as' = [as EXCEPT ![i] = a]
    /\ WorkerCommits(i)
    /\ UNCHANGED <<dns, cdn, behind, everCdn>>
-----------------------------------------------------------------------------
(* The handler, a statement at a time. A statement is answered in full or cut  *)
(* short (the 5 s are over, the session is lost): nothing looks at rows.Err(), *)
(* so that the rows read by then pass for all of them.                         *)

Succeeds == UNCHANGED <<errors, failed, calm>>

Fails ==
    /\ errors < MaxErrors
    /\ errors' = errors + 1
    /\ failed' = TRUE /\ calm' = FALSE

\* ipsForIOC, complete and cut short. The value of an address counts even when
\* its rows are gone.
IpsForIOC(i) == Own[i] \cup dns[i] \cup cdn[i]
IpsReadOf(i) == {Own[i], Own[i] \cup dns[i], Own[i] \cup cdn[i]}

\* SELECT type, value: without the row the answer is 404.
Begin(i) ==
    /\ pc = "idle"
    /\ Live(i)
    /\ pc' = "focal"
    /\ focal' = i
    /\ calm' = TRUE /\ failed' = FALSE
    /\ must' = Sharing(i)
    /\ UNCHANGED <<db, focalIPs, cdnIPs, rest, shared, low, related, byAsn, focalAsn,
                   errors, everCdn>>

\* Without any address only the AS number is left to go by.
FocalIPs ==
    /\ pc = "focal"
    /\ \/ focalIPs' = IpsForIOC(focal) /\ Succeeds
       \/ focalIPs' \in IpsReadOf(focal) /\ Fails
    /\ pc' = IF focalIPs' = {} THEN "asn" ELSE "cdn"
    /\ UNCHANGED <<db, focal, cdnIPs, rest, shared, low, related, byAsn, focalAsn,
                   must, everCdn>>

CdnIPSet == UNION {cdn[i] : i \in behind}

ReadCdnIPs ==
    /\ pc = "cdn"
    /\ \/ cdnIPs' = CdnIPSet /\ Succeeds
       \/ cdnIPs' \in SUBSET CdnIPSet /\ Fails
    /\ pc' = "related"
    /\ UNCHANGED <<db, focal, focalIPs, rest, shared, low, related, byAsn, focalAsn,
                   must, everCdn>>

RelatedByWithItself == {j \in Ioc : Live(j) /\ IpsForIOC(j) \cap focalIPs # {}}

RelatedByRowsOnly ==
    {j \in Ioc \ {focal} : Live(j) /\ (dns[j] \cup cdn[j]) \cap focalIPs # {}}

\* The main query: an address of that value, or a row with one of the addresses.
RelatedBy ==
    {j \in Ioc \ {focal} :
        /\ Live(j)
        /\ \/ Own[j] \cap focalIPs # {}
           \/ (dns[j] \cup cdn[j]) \cap focalIPs # {}}

ReadRelated ==
    /\ pc = "related"
    /\ \/ rest' = RelatedBy /\ Succeeds
       \/ rest' \in SUBSET RelatedBy /\ Fails
    /\ pc' = "each"
    /\ UNCHANGED <<db, focal, focalIPs, cdnIPs, shared, low, related, byAsn, focalAsn,
                   must, everCdn>>

LowWithoutSharing(S) == S \subseteq cdnIPs

\* Confidence "low": something is shared, and allCDN.
Low(S) == S # {} /\ S \subseteq cdnIPs

SharedByRowsOnly(ips, j) == (ips \ Own[j]) \cap focalIPs

SharedIPs(ips, j) == ips \cap focalIPs

\* One turn of the loop over the related: its addresses are read once more.
Relate(j) ==
    /\ pc = "each"
    /\ j \in rest
    /\ \E ips \in IpsReadOf(j) \cup {IpsForIOC(j)} :
        /\ \/ ips = IpsForIOC(j) /\ Succeeds
           \/ ips \in IpsReadOf(j) /\ Fails
        /\ shared' = [shared EXCEPT ![j] = SharedIPs(ips, j)]
    /\ low' = IF Low(shared'[j]) THEN low \cup {j} ELSE low
    /\ related' = related \cup {j}
    /\ rest' = rest \ {j}
    /\ UNCHANGED <<db, pc, focal, focalIPs, cdnIPs, byAsn, focalAsn, must, everCdn>>

RelatedDone ==
    /\ pc = "each" /\ rest = {}
    /\ pc' = "asn"
    /\ UNCHANGED <<db, locals, errors, calm, failed, must, everCdn>>

\* addASNPivots; a failing first query leaves focalASN empty.
FocalAsn ==
    /\ pc = "asn"
    /\ \/ focalAsn' = as[focal] /\ Succeeds
       \/ focalAsn' = None /\ Fails
    /\ pc' = IF focalAsn' = None THEN "answer" ELSE "peers"
    /\ UNCHANGED <<db, focal, focalIPs, cdnIPs, rest, shared, low, related, byAsn,
                   must, everCdn>>

PeersWithFocal == {j \in Ioc : Live(j) /\ as[j] = focalAsn}

\* The rows of the second query that are not "seen".
Peers == {j \in Ioc : Live(j) /\ as[j] = focalAsn} \ ({focal} \cup related)

AsnPeers ==
    /\ pc = "peers"
    /\ \/ byAsn' = Peers /\ Succeeds
       \/ byAsn' \in SUBSET Peers /\ Fails
    /\ pc' = "answer"
    /\ UNCHANGED <<db, focal, focalIPs, cdnIPs, rest, shared, low, related, focalAsn,
                   must, everCdn>>

\* The handler returns; the next request has fresh locals.
Return ==
    /\ pc' = "idle" /\ focal' = None
    /\ focalIPs' = {} /\ cdnIPs' = {} /\ rest' = {}
    /\ shared' = Cleared /\ low' = {} /\ related' = {} /\ byAsn' = {} /\ focalAsn' = None
    /\ must' = {}
    /\ UNCHANGED <<db, everCdn>>

Answer == pc = "answer" /\ Return /\ Succeeds

\* Only a main query that cannot be sent, or a row that cannot be scanned, is
\* answered 500.
RelatedFails == pc = "related" /\ Return /\ Fails
-----------------------------------------------------------------------------
Others ==
    \E i \in Ioc :
        \/ AddIOC(i) \/ DeleteIOC(i)
        \/ \E A \in (SUBSET Addr) \ {{}} : CommitDns(i, A) \/ \E b \in BOOLEAN : CommitCdn(i, A, b)
        \/ \E a \in Asn : CommitGeoip(i, a)

Handler ==
    \/ \E i \in Ioc : Begin(i)
    \/ FocalIPs \/ ReadCdnIPs \/ ReadRelated \/ RelatedFails
    \/ \E j \in Ioc : Relate(j)
    \/ RelatedDone \/ FocalAsn \/ AsnPeers \/ Answer

Next == Others \/ Handler

Spec == Init /\ [][Next]_vars
-----------------------------------------------------------------------------
(* Properties. They are about the answer as the caller gets it.                *)

\* DOKUMENTACJA 3.7, from one state of the database: with the addresses that
\* some domain's "cdn" row calls a CDN's, a relation is weak when the two share
\* nothing else.
CdnAddresses == {x \in Addr : \E d \in Ioc : d \in behind /\ x \in cdn[d]}
Weak(i) == {j \in Sharing(i) : Addresses(i) \cap Addresses(j) \subseteq CdnAddresses}

\* Nothing having changed while it was computed and no statement having failed,
\* the answer of getPivots is exactly that: who shares an address, with which
\* ones, who is weak, and who has nothing but the AS number in common.
ExactWhenCalm ==
    pc = "answer" /\ calm =>
        /\ related = Sharing(focal)
        /\ \A j \in related : shared[j] = Addresses(focal) \cap Addresses(j)
        /\ low = Weak(focal)
        /\ byAsn = {j \in Ioc \ related : j # focal /\ as[focal] # None /\ as[j] = as[focal]}

\* Whatever changes or fails in between: a relation is called weak only over
\* addresses it has, each of which a committed "cdn" row did call a CDN's.
WeakOnlyOverCdn ==
    \A j \in low : j \in related /\ shared[j] # {} /\ shared[j] \subseteq everCdn

\* The statements read the database at different times, but without a failure
\* an indicator that was related when the handler began, and that still is
\* there, is in the answer.
NoneMissed ==
    pc = "answer" /\ ~failed /\ Live(focal) =>
        \A j \in must : Live(j) => j \in related

\* The addresses of the related are read a second time, after the query that
\* found them: a relation is answered without any shared address only if its
\* indicator went in between or a statement failed.
RelationHasItsReason ==
    pc = "answer" /\ ~failed =>
        \A j \in related : shared[j] = {} => ~Live(j)
=============================================================================
