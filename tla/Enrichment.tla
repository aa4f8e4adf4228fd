----------------------------- MODULE Enrichment -----------------------------
(***************************************************************************)
(* The enrichment pipeline: the tables iocs and enrichments                *)
(* (migrations/001_init.sql), the API handlers that insert and delete      *)
(* indicators (api/iocs.go, api/import.go) and the worker that looks for   *)
(* indicators a source has said nothing about, asks the source and stores  *)
(* the answer (worker/worker.py).                                          *)
(*                                                                         *)
(* The worker reads its batch in one statement and then spends seconds on  *)
(* each element: API calls run in between, the connection may break, an    *)
(* enricher may raise, and COMMIT may be lost on the wire.                 *)
(***************************************************************************)
EXTENDS Naturals, Sequences, FiniteSets

CONSTANTS
    Indicator,    \* (type, value) pairs a client may submit
    Source,       \* the names of the enrichers
    Enrichers,    \* the table ENRICHERS: the sources in the order of a round
    Handles,      \* Handles[s]: the indicators whose type source s covers
    Poison,       \* <<v, s>>: the enricher of s raises on v, every time
    BatchLimit,   \* LIMIT of the worker's query
    MaxId,        \* bound: ids drawn from the sequence of table iocs
    MaxFaults,    \* bound: sessions of the worker that break
    SlowCommit,   \* may a COMMIT sent by a broken session still land later?
    None

Ids == 1 .. MaxId

\* What an enricher returns: a result, or the dict {"error": ...} that stands
\* for a service that did not answer.
Outcome == {"data", "error"}

ASSUME EnrichersAssumption ==
    /\ Enrichers \in Seq(Source)
    /\ Enrichers # <<>>

ASSUME HandlesAssumption == Handles \in [Source -> SUBSET Indicator]

ASSUME PoisonAssumption == Poison \subseteq Indicator \X Source

ASSUME BoundsAssumption ==
    /\ MaxId \in Nat
    /\ BatchLimit \in Nat \ {0}
    /\ MaxFaults \in Nat
    /\ SlowCommit \in BOOLEAN

ASSUME NoneAssumption == None \notin Indicator /\ None \notin Outcome

VARIABLES
    iocs,      \* table iocs: iocs[i] is the indicator of row i, or None
    nextId,    \* the next value of the id sequence (never reused)
    enr,       \* table enrichments: enr[i][s], the outcomes source s recorded
               \* for i, in the order of their row ids
    pc,        \* worker: "down" (not connected), "select", "batch"
    k,         \* worker: position in Enrichers
    batch,     \* worker: what is left of the rows it fetched, by id
    txn,       \* rows inserted by the worker's open transaction
    orphan,    \* rows of a COMMIT whose session broke, not yet decided
    faults     \* broken sessions so far

vars == <<iocs, nextId, enr, pc, k, batch, txn, orphan, faults>>

Src == Enrichers[k]

NoRows == [i \in Ids |-> None]
NoEnr == [s \in Source |-> <<>>]
NoOrphan == [src |-> Enrichers[1], rows |-> NoRows]

Live(i) == iocs[i] # None

TypeOK ==
    /\ iocs \in [Ids -> Indicator \cup {None}]
    /\ nextId \in 1 .. MaxId + 1
    /\ enr \in [Ids -> [Source -> Seq(Outcome)]]
    /\ pc \in {"down", "select", "batch"}
    /\ k \in 1 .. Len(Enrichers)
    /\ batch \in [Ids -> Indicator \cup {None}]
    /\ txn \in [Ids -> Outcome \cup {None}]
    /\ orphan \in [src : Source, rows : [Ids -> Outcome \cup {None}]]
    /\ faults \in 0 .. MaxFaults

Init ==
    /\ iocs = [i \in Ids |-> None]
    /\ nextId = 1
    /\ enr = [i \in Ids |-> NoEnr]
    /\ pc = "down"
    /\ k = 1
    /\ batch = NoRows
    /\ txn = NoRows
    /\ orphan = NoOrphan
    /\ faults = 0
-----------------------------------------------------------------------------
(* The API.  A statement of a handler is atomic in the database.  A row    *)
(* that an uncommitted insert into enrichments references is share-locked, *)
(* so DELETE waits for it: within its 3 s it then either gets through, as  *)
(* DeleteIOC of a later state, or fails and changes nothing.               *)

LockedNever(i) == FALSE

Locked(i) == txn[i] # None \/ orphan.rows[i] # None

\* createIOC, and each insert of importLogs: UNIQUE(type, value) turns a second
\* insert of an indicator into 409 (or into "skipped"), with no row changed.
AddIOC(v) ==
    /\ nextId \in Ids
    /\ \A i \in Ids : iocs[i] # v
    /\ iocs' = [iocs EXCEPT ![nextId] = v]
    /\ nextId' = nextId + 1
    /\ UNCHANGED <<enr, pc, k, batch, txn, orphan, faults>>

\* ON DELETE CASCADE takes the enrichments along.
CascadeDropped(i) == enr

Cascade(i) == [enr EXCEPT ![i] = NoEnr]

DeleteIOC(i) ==
    /\ Live(i)
    /\ ~Locked(i)
    /\ iocs' = [iocs EXCEPT ![i] = None]
    /\ enr' = Cascade(i)
    /\ UNCHANGED <<nextId, pc, k, batch, txn, orphan, faults>>
-----------------------------------------------------------------------------
(* The worker.                                                             *)

\* psycopg.connect at the top of main's loop: a round starts at the first source.
Connect ==
    /\ pc = "down"
    /\ pc' = "select"
    /\ k' = 1
    /\ UNCHANGED <<iocs, nextId, enr, batch, txn, orphan, faults>>

CandidatesSeen(s) == {i \in Ids : Live(i) /\ iocs[i] \in Handles[s]}

\* The rows the query of process_source may return: no enrichment of this
\* source is visible to its snapshot.
Candidates(s) == {i \in Ids : Live(i) /\ iocs[i] \in Handles[s] /\ enr[i][s] = <<>>}

\* LIMIT without ORDER BY: any BatchLimit of the candidates, in any order.
Batches(C) ==
    {B \in SUBSET C : Cardinality(B) = BatchLimit \/ (B = C /\ Cardinality(B) < BatchLimit)}

SelectBatch ==
    /\ pc = "select"
    /\ \E B \in Batches(Candidates(Src)) :
           batch' = [i \in Ids |-> IF i \in B THEN iocs[i] ELSE None]
    /\ pc' = "batch"
    /\ UNCHANGED <<iocs, nextId, enr, k, txn, orphan, faults>>

\* fn(ioc_type, value) returns o and the row is inserted: the foreign key
\* finds the parent, and holds it.
Enrich(i, o) ==
    /\ pc = "batch"
    /\ batch[i] # None
    /\ <<batch[i], Src>> \notin Poison
    /\ Live(i)
    /\ txn' = [txn EXCEPT ![i] = o]
    /\ batch' = [batch EXCEPT ![i] = None]
    /\ UNCHANGED <<iocs, nextId, enr, pc, k, orphan, faults>>

AbandonRetrying ==
    UNCHANGED <<iocs, nextId, enr, pc, k, batch, txn>>

\* The session ends without a commit: the server rolls back, main waits 3 s.
Abandon ==
    /\ pc' = "down"
    /\ batch' = NoRows
    /\ txn' = NoRows
    /\ UNCHANGED <<iocs, nextId, enr, k>>

\* The indicator was deleted after the batch was read: the foreign key refuses
\* the row and the exception reaches main.
InsertFails(i) ==
    /\ pc = "batch"
    /\ batch[i] # None
    /\ <<batch[i], Src>> \notin Poison
    /\ ~Live(i)
    /\ Abandon
    /\ UNCHANGED <<orphan, faults>>

\* The enricher raises, or returns text no JSONB can hold.
EnricherRaises(i) ==
    /\ pc = "batch"
    /\ batch[i] # None
    /\ <<batch[i], Src>> \in Poison
    /\ Abandon
    /\ UNCHANGED <<orphan, faults>>

\* The connection breaks, or the process dies, before COMMIT is sent.
Fail ==
    /\ pc # "down"
    /\ faults < MaxFaults
    /\ faults' = faults + 1
    /\ Abandon
    /\ UNCHANGED orphan

\* Makes the rows f of source s visible; pg_notify delivers one payload for each.
Publish(s, f) ==
    [i \in Ids |-> IF f[i] = None THEN enr[i]
                   ELSE [enr[i] EXCEPT ![s] = Append(@, f[i])]]

NextSourceUnwrapped == k + 1

NextSourceLast == IF k = Len(Enrichers) THEN k ELSE k + 1

NextSource == (k % Len(Enrichers)) + 1

BatchDone == pc = "batch" /\ batch = NoRows

Commit ==
    /\ BatchDone
    /\ enr' = Publish(Src, txn)
    /\ txn' = NoRows
    /\ pc' = "select"
    /\ k' = NextSource
    /\ UNCHANGED <<iocs, nextId, batch, orphan, faults>>

\* COMMIT was sent and the connection breaks before the answer: the server may
\* have committed ...
CommitLandsUnseen ==
    /\ BatchDone
    /\ faults < MaxFaults
    /\ faults' = faults + 1
    /\ enr' = Publish(Src, txn)
    /\ pc' = "down"
    /\ txn' = NoRows
    /\ UNCHANGED <<iocs, nextId, k, batch, orphan>>

\* ... or, when the request outlives the 3 s of main's pause, still be about to.
CommitInFlight ==
    /\ SlowCommit
    /\ BatchDone
    /\ txn # NoRows
    /\ orphan.rows = NoRows
    /\ faults < MaxFaults
    /\ faults' = faults + 1
    /\ orphan' = [src |-> Src, rows |-> txn]
    /\ Abandon

OrphanCommits ==
    /\ orphan.rows # NoRows
    /\ enr' = Publish(orphan.src, orphan.rows)
    /\ orphan' = NoOrphan
    /\ UNCHANGED <<iocs, nextId, pc, k, batch, txn, faults>>

OrphanRollsBack ==
    /\ orphan.rows # NoRows
    /\ orphan' = NoOrphan
    /\ UNCHANGED <<iocs, nextId, enr, pc, k, batch, txn, faults>>
-----------------------------------------------------------------------------
API == (\E v \in Indicator : AddIOC(v)) \/ (\E i \in Ids : DeleteIOC(i))

Worker ==
    \/ Connect
    \/ SelectBatch
    \/ \E i \in Ids, o \in Outcome : Enrich(i, o)
    \/ \E i \in Ids : InsertFails(i)
    \/ \E i \in Ids : EnricherRaises(i)
    \/ Commit

Database == OrphanCommits \/ OrphanRollsBack

Fault == Fail \/ CommitLandsUnseen \/ CommitInFlight

Next == API \/ Worker \/ Database \/ Fault

Spec == Init /\ [][Next]_vars

\* The worker's loop runs for ever and the server decides every COMMIT it has
\* received; clients and faults owe nobody a step.
Fairness == WF_vars(Worker) /\ WF_vars(Database)

FairSpec == Spec /\ Fairness
-----------------------------------------------------------------------------
(* Properties.                                                             *)

\* "enrichments: one row per source": the query sees every row of earlier
\* batches, its snapshot stays true until the commit because there is a single
\* worker session, and ids are not reused.  Only the code's order keeps it: the
\* table has no UNIQUE (ioc_id, source).
OneRowPerSource == \A i \in Ids, s \in Source : Len(enr[i][s]) <= 1

\* Deleting an indicator leaves nothing of it behind, visible or about to
\* become visible, whatever the worker was doing with it.
NoOrphanRows ==
    \A i \in Ids : ~Live(i) => enr[i] = NoEnr /\ ~Locked(i)

\* Each redundant row of a source is the price of one broken session.
RedundantRowsBounded ==
    \A i \in Ids, s \in Source : Len(enr[i][s]) <= 1 + faults

\* The pipeline implements the registry: results appear once, one source at a
\* time, for registered indicators only, and never disappear without them.
Registered == INSTANCE Registry WITH
    registered <- iocs,
    results <- [i \in Ids |-> [s \in Source |-> Len(enr[i][s])]]

ImplementsRegistry == Registered!RSpec

\* The worker's snapshot: what it still has to do, or has done without having
\* committed, has no visible row of the current source, and belongs to a row
\* that existed; the ids the sequence has yet to give are free.
SnapshotFresh ==
    /\ pc # "batch" => batch = NoRows /\ txn = NoRows
    /\ \A i \in Ids :
        /\ batch[i] # None => txn[i] = None
        /\ batch[i] # None \/ txn[i] # None => enr[i][Src] = <<>> /\ i < nextId
        /\ i >= nextId => iocs[i] = None

\* A DELETE of the API never waits for ever: the worker gives every lock back,
\* however the batch ends.
LocksReleased == \A i \in Ids : Locked(i) ~> ~Locked(i)

Wanted(i, s) == Live(i) /\ iocs[i] \in Handles[s]
Answered(i, s) == ~Live(i) \/ enr[i][s] # <<>>

\* Some live indicator stops the round at source s, or before it.
BlockedAt(s) ==
    \E j \in Ids, n, m \in 1 .. Len(Enrichers) :
        /\ n <= m /\ Enrichers[m] = s
        /\ Wanted(j, Enrichers[n])
        /\ <<iocs[j], Enrichers[n]>> \in Poison

\* Every indicator gets a row of every source that covers its type, unless an
\* indicator that makes an enricher raise at that source or an earlier one
\* keeps coming back.
EnrichedUnlessBlocked ==
    \A i \in Ids, s \in {Enrichers[n] : n \in 1 .. Len(Enrichers)} :
        <>[]~BlockedAt(s) => (Wanted(i, s) ~> Answered(i, s))

\* USAGE.md:85 "the enrichments will come gradually": an indicator on which no
\* enricher raises is enriched by every source.
HarmlessIocEnriched ==
    \A i \in Ids, s \in {Enrichers[n] : n \in 1 .. Len(Enrichers)} :
        (Wanted(i, s) /\ \A t \in Source : <<iocs[i], t>> \notin Poison)
            ~> Answered(i, s)
=============================================================================
