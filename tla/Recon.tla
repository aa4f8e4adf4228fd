------------------------------- MODULE Recon --------------------------------
(***************************************************************************)
(* Reconnaissance of targets: the tables targets, assets and findings      *)
(* (migrations/002-004), the API handlers that create and delete targets   *)
(* (api/recon.go) and the worker that scans them (worker/recon_worker.py). *)
(*                                                                         *)
(* A scan is not one transaction: the assets and the time of the scan are  *)
(* committed before the checks, and every finding on its own.              *)
(***************************************************************************)
EXTENDS Naturals, Sequences, FiniteSets, SequencesExt

CONSTANTS
    Host,         \* names under a target's domain, Apex among them
    Apex,
    Title,        \* titles of findings: "wildcard" and "axfr" are of the domain, the
                  \* others what run_checks may report of a host
    RoundLimit,   \* LIMIT 3 of the worker's query
    MaxChecks,    \* MAX_CHECK_HOSTS
    MaxId,        \* bound: targets ever created
    MaxFaults     \* bound: sessions that break, checks that raise

Ids == 1 .. MaxId

ASSUME ReconAssumption ==
    /\ Apex \in Host /\ IsFiniteSet(Host)
    /\ RoundLimit \in Nat \ {0} /\ MaxChecks \in Nat \ {0}
    /\ MaxId \in Nat /\ MaxFaults \in Nat

Finding == Host \X Title
HostTitle == Title \ {"wildcard", "axfr"}

VARIABLES
    nextId,       \* next value of the id sequence of targets
    status,       \* targets.status; "absent": no such row
    scanned,      \* ids whose last_scanned_at is not NULL, oldest first
    stale,        \* how many of them, from the front, are past RESCAN_HOURS
    assets,       \* assets[i]: names recorded for target i
    findings,     \* findings[i]: (asset, title) pairs recorded for target i
    pc,           \* worker: "down", "poll", "idle" (the transaction of a poll that
                  \* found nothing is open), "mark", "scan", "check", "zone"
    rows,         \* worker: targets left in this round
    hosts,        \* worker: hosts left to check
    found,        \* worker: reported findings it has yet to insert
    faults,       \* broken sessions so far
    owed          \* history: owed[i], what the last scan of i reported and is not stored

db == <<nextId, status, scanned, stale, assets, findings>>
vars == <<db, pc, rows, hosts, found, faults, owed>>

Live(i) == status[i] # "absent"

TypeOK ==
    /\ nextId \in 1 .. MaxId + 1
    /\ status \in [Ids -> {"absent", "pending", "scanning", "done"}]
    /\ scanned \in Seq(Ids)
    /\ stale \in 0 .. Len(scanned)
    /\ assets \in [Ids -> SUBSET Host]
    /\ findings \in [Ids -> SUBSET Finding]
    /\ pc \in {"down", "poll", "idle", "mark", "scan", "check", "zone"}
    /\ rows \in Seq(Ids)
    /\ hosts \subseteq Host
    /\ found \subseteq Finding
    /\ faults \in 0 .. MaxFaults
    /\ owed \in [Ids -> SUBSET Finding]

Init ==
    /\ nextId = 1
    /\ status = [i \in Ids |-> "absent"]
    /\ scanned = <<>> /\ stale = 0
    /\ assets = [i \in Ids |-> {}]
    /\ findings = [i \in Ids |-> {}]
    /\ pc = "down" /\ rows = <<>> /\ hosts = {} /\ found = {}
    /\ faults = 0
    /\ owed = [i \in Ids |-> {}]
-----------------------------------------------------------------------------
(* The API.  The worker's transactions last one step each, so a DELETE     *)
(* never finds a lock that is held across steps.                           *)

\* The column default of status is 'pending', last_scanned_at is NULL.
CreateTarget ==
    /\ nextId \in Ids
    /\ nextId' = nextId + 1
    /\ status' = [status EXCEPT ![nextId] = "pending"]
    /\ UNCHANGED <<scanned, stale, assets, findings, pc, rows, hosts, found, faults, owed>>

ScannedBefore(i) == i \in ToSet(scanned)
Stale(i) == \E n \in 1 .. stale : scanned[n] = i

\* The order of last_scanned_at without target i, and its stale part.
Others(i) ==
    IF ScannedBefore(i)
    THEN RemoveAt(scanned, CHOOSE n \in DOMAIN scanned : scanned[n] = i)
    ELSE scanned

StaleOthersKept(i) == stale

StaleOthers(i) == IF Stale(i) THEN stale - 1 ELSE stale

\* assets and findings go with their target (ON DELETE CASCADE).
DeleteTarget(i) ==
    /\ Live(i)
    /\ status' = [status EXCEPT ![i] = "absent"]
    /\ scanned' = Others(i) /\ stale' = StaleOthers(i)
    /\ assets' = [assets EXCEPT ![i] = {}]
    /\ findings' = [findings EXCEPT ![i] = {}]
    /\ owed' = [owed EXCEPT ![i] = {}]
    /\ UNCHANGED <<nextId, pc, rows, hosts, found, faults>>

\* Time passes: the next scan becomes older than RESCAN_HOURS.
Age ==
    /\ stale < Len(scanned)
    /\ stale' = stale + 1
    /\ UNCHANGED <<nextId, status, scanned, assets, findings, pc, rows, hosts,
                   found, faults, owed>>
-----------------------------------------------------------------------------
(* The worker.                                                             *)

Connect ==
    /\ pc = "down"
    /\ pc' = "poll"
    /\ UNCHANGED <<db, rows, hosts, found, faults, owed>>

\* main's except clause: what the session had not committed is gone, and so is
\* the rest of the round.
Abort ==
    /\ pc' = "down" /\ rows' = <<>> /\ hosts' = {} /\ found' = {}
    /\ UNCHANGED db

NeverScanned == {i \in Ids : Live(i) /\ ~ScannedBefore(i)}

\* now() is the start of the transaction, and that of a poll that found nothing
\* stays open: what has become stale since is not stale to it.
StaleSeen == IF pc = "idle" THEN 0 ELSE stale

DueOrdersStaleFirst ==
    {SubSeq(scanned, 1, StaleSeen) \o never : never \in SetToSeqs(NeverScanned)}

DueOrdersNeverOnly == SetToSeqs(NeverScanned)

DueOrdersAll == {never \o scanned : never \in SetToSeqs(NeverScanned)}

\* ORDER BY last_scanned_at NULLS FIRST: the never scanned in any order, then
\* the stale ones, oldest first.
DueOrders ==
    {never \o SubSeq(scanned, 1, StaleSeen) : never \in SetToSeqs(NeverScanned)}

AtMost(s, n) == IF Len(s) <= n THEN s ELSE SubSeq(s, 1, n)

\* After an empty result, which is not followed by a commit, the worker sleeps
\* POLL_SECONDS and asks again, in the same transaction.
Poll ==
    /\ pc \in {"poll", "idle"}
    /\ \E order \in DueOrders : rows' = AtMost(order, RoundLimit)
    /\ pc' = IF rows' = <<>> THEN "idle" ELSE "mark"
    /\ UNCHANGED <<db, hosts, found, faults, owed>>

\* The session breaks while the worker idles: nothing of a scan is lost.
LoseSession ==
    /\ pc = "idle"
    /\ Abort
    /\ UNCHANGED <<faults, owed>>

\* UPDATE ... SET status finds no row when the target has been deleted.
SetStatus(i, s) == status' = IF Live(i) THEN [status EXCEPT ![i] = s] ELSE status

Mark ==
    /\ pc = "mark"
    /\ SetStatus(Head(rows), "scanning")
    /\ pc' = "scan"
    /\ UNCHANGED <<nextId, scanned, stale, assets, findings, rows, hosts, found, faults, owed>>

\* [domain] + sorted(resolvable), cut after MAX_CHECK_HOSTS.
CheckedAmong(alive) ==
    {H \in SUBSET (alive \cup {Apex}) :
        /\ Apex \in H
        /\ \/ H = alive \cup {Apex} /\ Cardinality(H) <= MaxChecks
           \/ Cardinality(H) = MaxChecks /\ Cardinality(alive \cup {Apex}) > MaxChecks}

WildcardFinding(wc) == IF wc THEN {<<Apex, "wildcard">>} ELSE {}

RecordedResolving(names, alive) == alive

\* Every discovered name becomes an asset, resolvable or not.
Recorded(names, alive) == names

\* The names that are discovered, those of them that resolve, and whether the
\* domain answers for any name: the assets, the wildcard finding and
\* last_scanned_at are one transaction.
ScanAssets(names, alive, wc) ==
    LET i == Head(rows) IN
    /\ pc = "scan"
    /\ Live(i)
    /\ assets' = [assets EXCEPT ![i] = @ \cup Recorded(names, alive)]
    /\ findings' = [findings EXCEPT ![i] = @ \cup WildcardFinding(wc)]
    /\ scanned' = Append(Others(i), i) /\ stale' = StaleOthers(i)
    /\ hosts' \in CheckedAmong(alive)
    /\ owed' = [owed EXCEPT ![i] = {}]
    /\ pc' = "check"
    /\ UNCHANGED <<nextId, status, rows, found, faults>>

\* The target is gone: the foreign key refuses its first asset.
ScanRefused ==
    /\ pc = "scan"
    /\ ~Live(Head(rows))
    /\ Abort
    /\ UNCHANGED <<faults, owed>>

Report(F) ==
    /\ found' = F
    /\ owed' = IF Live(Head(rows))
               THEN [owed EXCEPT ![Head(rows)] = @ \cup (F \ findings[Head(rows)])] ELSE owed

\* run_checks(host) returns the findings T.
CheckHost(h, T) ==
    /\ pc = "check" /\ found = {}
    /\ h \in hosts
    /\ hosts' = hosts \ {h}
    /\ Report({h} \X T)
    /\ UNCHANGED <<db, pc, rows, faults>>

\* dns_zone_transfer(domain), once every host has been checked.
CheckZone(F) ==
    /\ pc = "check" /\ found = {} /\ hosts = {}
    /\ pc' = "zone"
    /\ Report(F)
    /\ UNCHANGED <<db, rows, hosts, faults>>

ParentIgnored == TRUE

\* The foreign key of findings finds the target.
ParentThere == Live(Head(rows))

\* One INSERT ... ON CONFLICT DO NOTHING and one commit for each finding.
RecordFinding(f) ==
    /\ f \in found
    /\ ParentThere
    /\ findings' = [findings EXCEPT ![Head(rows)] = @ \cup {f}]
    /\ owed' = [owed EXCEPT ![Head(rows)] = @ \ {f}]
    /\ found' = found \ {f}
    /\ UNCHANGED <<nextId, status, scanned, stale, assets, pc, rows, hosts, faults>>

FindingRefused ==
    /\ found # {}
    /\ ~ParentThere
    /\ Abort
    /\ UNCHANGED <<faults, owed>>

ScanReturnedEarly == pc = "zone"

\* scan_target has returned.
ScanReturned == pc = "zone" /\ found = {}

FinishTarget ==
    /\ ScanReturned
    /\ SetStatus(Head(rows), "done")
    /\ rows' = Tail(rows)
    /\ hosts' = {}
    /\ pc' = IF Tail(rows) = <<>> THEN "poll" ELSE "mark"
    /\ UNCHANGED <<nextId, scanned, stale, assets, findings, found, faults, owed>>

\* The session breaks or the process dies, before or after any commit; or a
\* step of the scan raises (a reply of crt.sh of another shape, a text the
\* database refuses).
Fail ==
    /\ pc # "down"
    /\ faults < MaxFaults
    /\ faults' = faults + 1
    /\ Abort
    /\ UNCHANGED owed
-----------------------------------------------------------------------------
API == CreateTarget \/ \E i \in Ids : DeleteTarget(i)

Worker ==
    \/ Connect \/ Poll \/ Mark
    \/ \E names \in SUBSET Host, wc \in BOOLEAN :
           /\ Apex \in names
           /\ wc => "wildcard" \in Title
           /\ \E alive \in SUBSET names : ScanAssets(names, alive, wc)
    \/ ScanRefused
    \/ \E h \in Host, T \in SUBSET HostTitle : CheckHost(h, T)
    \/ \E F \in SUBSET ({<<Apex, "axfr">>} \cap Finding) : CheckZone(F)
    \/ \E f \in Finding : RecordFinding(f)
    \/ FindingRefused
    \/ FinishTarget

Next == API \/ Age \/ Worker \/ LoseSession \/ Fail

Spec == Init /\ [][Next]_vars

\* The worker's loop runs for ever; clients, faults and lost sessions owe nobody
\* a step.
FairSpec == Spec /\ WF_vars(Worker)

\* Moreover days pass.
TimedSpec == FairSpec /\ WF_vars(Age)
-----------------------------------------------------------------------------
(* Properties.                                                             *)

\* No scan that outlives its target leaves rows behind.
NothingOfDeleted ==
    \A i \in Ids : ~Live(i) => assets[i] = {} /\ findings[i] = {} /\ ~ScannedBefore(i)

\* "done" is shown only when everything the last scan reported is stored: no
\* crash between the commits of a scan makes an incomplete one look complete.
DoneIsComplete ==
    \A i \in Ids : status[i] = "done" => ScannedBefore(i) /\ owed[i] = {}

\* Every finding names an asset of its target, although no key relates the two
\* tables and they are filled by different transactions.
FindingsHaveAssets ==
    \A i \in Ids : \A f \in findings[i] : f[1] \in assets[i]

\* A target is scanned again only when its last scan is older than
\* RESCAN_HOURS: the round was read before other targets' scans, which take
\* minutes.
NoEarlyRescan ==
    [][\A i \in Ids :
         status'[i] = "scanning" /\ status[i] # "scanning" => ~ScannedBefore(i) \/ Stale(i)]_vars

\* A new target is scanned, without waiting for others' rescans.
EveryTargetScanned ==
    \A i \in Ids : status[i] = "pending" ~> ~Live(i) \/ ScannedBefore(i)

\* The worker is not left for ever in the transaction of one empty poll: a new
\* target ends it, or a lost session.
IdlenessEnds == []<>(pc # "idle")

\* Every scan is completed in the end, an interrupted one by a later scan, as days
\* pass and idleness ends.  (recon_worker.py:127-148 does not commit after an empty
\* poll: as long as it only polls, no time passes for the worker.)
EveryScanCompletes ==
    IdlenessEnds =>
        \A i \in Ids : status[i] \in {"pending", "scanning"} ~> status[i] \in {"done", "absent"}

\* recon_worker.py:162 "retrying in 3s": the target whose scan was interrupted
\* is taken up again, after RESCAN_HOURS at the latest.
InterruptedScanRetried ==
    \A i \in Ids : status[i] = "scanning" ~> status[i] \in {"done", "absent"}
=============================================================================
