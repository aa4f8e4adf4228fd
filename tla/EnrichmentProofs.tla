-------------------------- MODULE EnrichmentProofs --------------------------
(***************************************************************************)
(* Theorems about Enrichment, for every set of indicators and sources,     *)
(* every table of enrichers and every bound.                               *)
(***************************************************************************)
EXTENDS Enrichment, TLAPS

USE DEF Ids, Outcome

-----------------------------------------------------------------------------
(* Lemmas about the operators.                                             *)

\* The source of the worker's position is one of the sources.
LEMMA SrcType == ASSUME k \in 1 .. Len(Enrichers) PROVE Src \in Source
BY EnrichersAssumption DEF Src

\* The round wraps: the next position is a position (process_once's loop).
LEMMA NextSourceType ==
    ASSUME k \in 1 .. Len(Enrichers) PROVE NextSource \in 1 .. Len(Enrichers)
<1>1. Len(Enrichers) \in Nat \ {0}
  BY EnrichersAssumption
<1>2. k % Len(Enrichers) \in 0 .. Len(Enrichers) - 1
  BY <1>1
<1> QED
  BY <1>1, <1>2 DEF NextSource

\* The empty transaction is well typed.
LEMMA NoRowsType ==
    /\ NoRows \in [Ids -> Indicator \cup {None}]
    /\ NoRows \in [Ids -> Outcome \cup {None}]
    /\ \A i \in Ids : NoRows[i] = None
BY DEF NoRows

LEMMA NoOrphanType ==
    /\ NoOrphan \in [src : Source, rows : [Ids -> Outcome \cup {None}]]
    /\ NoOrphan.rows = NoRows
BY NoRowsType, EnrichersAssumption DEF NoOrphan

\* A commit appends one row of source s for each id of the transaction f, and
\* changes nothing else.
LEMMA PublishNew ==
    ASSUME enr \in [Ids -> [Source -> Seq(Outcome)]],
           NEW s \in Source, NEW f, NEW i \in Ids, f[i] # None
    PROVE  Publish(s, f)[i][s] = Append(enr[i][s], f[i])
BY DEF Publish

LEMMA PublishOld ==
    ASSUME enr \in [Ids -> [Source -> Seq(Outcome)]],
           NEW s \in Source, NEW f, NEW i \in Ids, NEW t \in Source,
           f[i] = None \/ t # s
    PROVE  Publish(s, f)[i][t] = enr[i][t]
BY DEF Publish

LEMMA PublishSame ==
    ASSUME NEW s, NEW f, NEW i \in Ids, f[i] = None
    PROVE  Publish(s, f)[i] = enr[i]
BY DEF Publish

LEMMA PublishType ==
    ASSUME enr \in [Ids -> [Source -> Seq(Outcome)]],
           NEW s \in Source, NEW f \in [Ids -> Outcome \cup {None}]
    PROVE  Publish(s, f) \in [Ids -> [Source -> Seq(Outcome)]]
BY DEF Publish
-----------------------------------------------------------------------------
(* Type correctness.                                                       *)

LEMMA InitTypeOK == Init => TypeOK
<1> SUFFICES ASSUME Init PROVE TypeOK
  OBVIOUS
<1>1. Len(Enrichers) \in Nat \ {0} /\ MaxId \in Nat /\ MaxFaults \in Nat
  BY EnrichersAssumption, BoundsAssumption
<1>2. [i \in Ids |-> NoEnr] \in [Ids -> [Source -> Seq(Outcome)]]
  BY DEF NoEnr
<1> QED
  BY <1>1, <1>2, NoRowsType, NoOrphanType DEF Init, TypeOK

LEMMA NextTypeOK == TypeOK /\ [Next]_vars => TypeOK'
<1> SUFFICES ASSUME TypeOK, [Next]_vars PROVE TypeOK'
  OBVIOUS
<1>0. Src \in Source /\ MaxId \in Nat /\ MaxFaults \in Nat
  BY SrcType, BoundsAssumption DEF TypeOK
<1>1. ASSUME NEW v \in Indicator, AddIOC(v) PROVE TypeOK'
  BY <1>0, <1>1 DEF AddIOC, TypeOK
<1>2. ASSUME NEW i \in Ids, DeleteIOC(i) PROVE TypeOK'
  BY <1>2 DEF DeleteIOC, Cascade, NoEnr, TypeOK
<1>3. CASE Connect
  BY <1>3, EnrichersAssumption DEF Connect, TypeOK
<1>4. CASE SelectBatch
  BY <1>4 DEF SelectBatch, Batches, TypeOK
<1>5. ASSUME NEW i \in Ids, NEW o \in Outcome, Enrich(i, o) PROVE TypeOK'
  BY <1>5 DEF Enrich, TypeOK
<1>6. ASSUME NEW i \in Ids, InsertFails(i) PROVE TypeOK'
  BY <1>6, NoRowsType DEF InsertFails, Abandon, TypeOK
<1>7. ASSUME NEW i \in Ids, EnricherRaises(i) PROVE TypeOK'
  BY <1>7, NoRowsType DEF EnricherRaises, Abandon, TypeOK
<1>8. CASE Commit
  BY <1>0, <1>8, PublishType, NoRowsType, NextSourceType DEF Commit, TypeOK
<1>9. CASE OrphanCommits
  BY <1>9, PublishType, NoOrphanType DEF OrphanCommits, TypeOK
<1>10. CASE OrphanRollsBack
  BY <1>10, NoOrphanType DEF OrphanRollsBack, TypeOK
<1>11. CASE Fail
  BY <1>0, <1>11, NoRowsType DEF Fail, Abandon, TypeOK
<1>12. CASE CommitLandsUnseen
  <2>1. enr' \in [Ids -> [Source -> Seq(Outcome)]]
    BY <1>0, <1>12, PublishType DEF CommitLandsUnseen, TypeOK
  <2>2. faults' \in 0 .. MaxFaults
    BY <1>0, <1>12 DEF CommitLandsUnseen, TypeOK
  <2> QED
    BY <1>12, <2>1, <2>2, NoRowsType DEF CommitLandsUnseen, TypeOK
<1>13. CASE CommitInFlight
  BY <1>0, <1>13, NoRowsType DEF CommitInFlight, Abandon, TypeOK
<1>14. CASE UNCHANGED vars
  BY <1>14 DEF vars, TypeOK
<1> QED
  BY <1>1, <1>2, <1>3, <1>4, <1>5, <1>6, <1>7, <1>8, <1>9, <1>10, <1>11, <1>12,
     <1>13, <1>14 DEF Next, API, Worker, Database, Fault

\* Every reachable state is well typed; in particular the worker's position in
\* ENRICHERS stays inside the table.
THEOREM TypeCorrect == Spec => []TypeOK
BY InitTypeOK, NextTypeOK, PTL DEF Spec
-----------------------------------------------------------------------------
(* Deleted indicators.  NoOrphanRows is inductive together with TypeOK:    *)
(* what keeps it is the lock of an uncommitted row.                        *)

LEMMA InitNoOrphanRows == Init => NoOrphanRows
BY NoRowsType, NoOrphanType DEF Init, NoOrphanRows, Live, Locked

LEMMA NextNoOrphanRows ==
    TypeOK /\ NoOrphanRows /\ [Next]_vars => NoOrphanRows'
<1> SUFFICES ASSUME TypeOK, NoOrphanRows, [Next]_vars,
                    NEW j \in Ids, ~Live(j)'
             PROVE  enr'[j] = NoEnr /\ txn'[j] = None /\ orphan'.rows[j] = None
  BY DEF NoOrphanRows, Live, Locked
<1>a. Live(j) \/ (enr[j] = NoEnr /\ txn[j] = None /\ orphan.rows[j] = None)
  BY DEF NoOrphanRows, Locked
<1>b. Src \in Source
  BY SrcType DEF TypeOK
<1>1. ASSUME NEW v \in Indicator, AddIOC(v) PROVE j # nextId /\ ~Live(j)
  BY <1>1, NoneAssumption DEF AddIOC, TypeOK, Live
<1>2. ASSUME NEW i \in Ids, DeleteIOC(i)
      PROVE  enr'[j] = NoEnr /\ txn'[j] = None /\ orphan'.rows[j] = None
  BY <1>2, <1>a DEF DeleteIOC, Cascade, TypeOK, Live, Locked
<1>3. ASSUME NEW v \in Indicator, AddIOC(v)
      PROVE  enr'[j] = NoEnr /\ txn'[j] = None /\ orphan'.rows[j] = None
  BY <1>1, <1>3, <1>a DEF AddIOC
<1>4. CASE UNCHANGED iocs
  <2>1. ~Live(j)
    BY <1>4 DEF Live
  <2>2. CASE Connect \/ SelectBatch
    BY <2>1, <2>2, <1>a DEF Connect, SelectBatch
  <2>3. ASSUME NEW i \in Ids, NEW o \in Outcome, Enrich(i, o)
        PROVE  enr'[j] = NoEnr /\ txn'[j] = None /\ orphan'.rows[j] = None
    BY <2>1, <2>3, <1>a DEF Enrich, TypeOK
  <2>4. ASSUME NEW i \in Ids, InsertFails(i) \/ EnricherRaises(i)
        PROVE  enr'[j] = NoEnr /\ txn'[j] = None /\ orphan'.rows[j] = None
    BY <2>1, <2>4, <1>a, NoRowsType DEF InsertFails, EnricherRaises, Abandon
  <2>5. CASE Commit \/ CommitLandsUnseen
    <3>1. enr' = Publish(Src, txn) /\ txn' = NoRows /\ orphan' = orphan
      BY <2>5 DEF Commit, CommitLandsUnseen
    <3>2. Publish(Src, txn)[j] = enr[j]
      BY <2>1, <1>a, PublishSame
    <3> QED
      BY <2>1, <1>a, <3>1, <3>2, NoRowsType
  <2>6. CASE OrphanCommits
    BY <2>1, <2>6, <1>a, PublishSame, NoRowsType, NoOrphanType DEF OrphanCommits
  <2>7. CASE OrphanRollsBack
    BY <2>1, <2>7, <1>a, NoRowsType, NoOrphanType DEF OrphanRollsBack
  <2>8. CASE Fail
    BY <2>1, <2>8, <1>a, NoRowsType DEF Fail, Abandon
  <2>9. CASE CommitInFlight
    BY <2>1, <2>9, <1>a, NoRowsType DEF CommitInFlight, Abandon
  <2>10. CASE UNCHANGED vars
    BY <2>1, <2>10, <1>a DEF vars
  <2>11. ASSUME NEW v \in Indicator, AddIOC(v) PROVE FALSE
    BY <2>11, <1>4, NoneAssumption DEF AddIOC, TypeOK
  <2>12. ASSUME NEW i \in Ids, DeleteIOC(i) PROVE FALSE
    BY <2>12, <1>4 DEF DeleteIOC, TypeOK, Live
  <2> QED
    BY <2>2, <2>3, <2>4, <2>5, <2>6, <2>7, <2>8, <2>9, <2>10, <2>11, <2>12
       DEF Next, API, Worker, Database, Fault
<1>5. \/ UNCHANGED iocs
      \/ \E v \in Indicator : AddIOC(v)
      \/ \E i \in Ids : DeleteIOC(i)
  BY DEF Next, API, Worker, Database, Fault, vars, Connect, SelectBatch, Enrich,
         InsertFails, EnricherRaises, Abandon, Commit, CommitLandsUnseen, Fail,
         CommitInFlight, OrphanCommits, OrphanRollsBack
<1> QED
  BY <1>2, <1>3, <1>4, <1>5

\* No row of a deleted indicator is visible, or will become visible, in any
\* interleaving of deletions with batches, broken sessions and late commits.
THEOREM NothingLeftBehind == Spec => []NoOrphanRows
<1>1. Init => TypeOK /\ NoOrphanRows
  BY InitTypeOK, InitNoOrphanRows
<1>2. (TypeOK /\ NoOrphanRows) /\ [Next]_vars => (TypeOK /\ NoOrphanRows)'
  BY NextTypeOK, NextNoOrphanRows
<1> QED
  BY <1>1, <1>2, PTL DEF Spec
-----------------------------------------------------------------------------
(* One row per source, when a broken session's COMMIT is decided before    *)
(* the worker is back.  OneRowPerSource is not inductive: it needs that    *)
(* the batch the worker fetched is still unanswered when it commits.       *)

IInv ==
    /\ TypeOK
    /\ orphan.rows = NoRows
    /\ SnapshotFresh
    /\ OneRowPerSource

LEMMA InitIInv == Init => IInv
<1> SUFFICES ASSUME Init PROVE IInv
  OBVIOUS
<1>1. TypeOK
  BY InitTypeOK
<1>2. \A i \in Ids, s \in Source : enr[i][s] = <<>>
  BY DEF Init, NoEnr
<1> QED
  BY <1>1, <1>2, NoRowsType, NoOrphanType
     DEF Init, IInv, SnapshotFresh, OneRowPerSource

\* A commit of a fresh batch appends to empty sequences only.
LEMMA PublishFresh ==
    ASSUME IInv, pc = "batch", enr' = Publish(Src, txn)
    PROVE  OneRowPerSource'
<1>1. /\ Src \in Source
      /\ enr \in [Ids -> [Source -> Seq(Outcome)]]
      /\ txn \in [Ids -> Outcome \cup {None}]
  BY SrcType DEF IInv, TypeOK
<1> SUFFICES ASSUME NEW i \in Ids, NEW s \in Source PROVE Len(enr'[i][s]) <= 1
  BY DEF OneRowPerSource
<1>2. CASE txn[i] # None /\ s = Src
  <2>1. enr'[i][s] = Append(enr[i][s], txn[i])
    BY <1>1, <1>2, PublishNew
  <2>2. enr[i][s] = <<>> /\ txn[i] \in Outcome
    BY <1>2 DEF IInv, SnapshotFresh, TypeOK
  <2> QED
    BY <2>1, <2>2
<1>3. CASE ~(txn[i] # None /\ s = Src)
  <2>1. enr'[i][s] = enr[i][s]
    BY <1>1, <1>3, PublishOld
  <2> QED
    BY <2>1 DEF IInv, OneRowPerSource
<1> QED
  BY <1>2, <1>3

\* A session that ends leaves nothing in the worker's hands.
LEMMA AbandonFresh ==
    ASSUME IInv, Abandon
    PROVE  SnapshotFresh' /\ OneRowPerSource'
BY NoRowsType DEF IInv, SnapshotFresh, OneRowPerSource, Abandon, Src

LEMMA NextIInv == ASSUME ~SlowCommit PROVE IInv /\ [Next]_vars => IInv'
<1>0. ASSUME IInv, [Next]_vars PROVE TypeOK'
  BY <1>0, NextTypeOK DEF IInv
<1> SUFFICES ASSUME IInv, [Next]_vars
             PROVE  orphan'.rows = NoRows /\ SnapshotFresh' /\ OneRowPerSource'
  BY <1>0 DEF IInv, NoRows
<1>a. TypeOK /\ SnapshotFresh /\ OneRowPerSource /\ orphan.rows = NoRows
  BY DEF IInv
<1>b. Src \in Source
  BY <1>a, SrcType DEF TypeOK
<1>1. ASSUME NEW v \in Indicator, AddIOC(v)
      PROVE  orphan'.rows = NoRows /\ SnapshotFresh' /\ OneRowPerSource'
  BY <1>a, <1>1, BoundsAssumption
     DEF AddIOC, TypeOK, SnapshotFresh, OneRowPerSource, Src
<1>2. ASSUME NEW i \in Ids, DeleteIOC(i)
      PROVE  orphan'.rows = NoRows /\ SnapshotFresh' /\ OneRowPerSource'
  <2>1. \A j \in Ids, s \in Source : enr'[j][s] = <<>> \/ enr'[j][s] = enr[j][s]
    BY <1>a, <1>2 DEF DeleteIOC, Cascade, NoEnr, TypeOK
  <2>2. SnapshotFresh'
    BY <1>a, <1>b, <1>2, <2>1 DEF DeleteIOC, TypeOK, SnapshotFresh, Src
  <2> QED
    BY <1>a, <1>2, <2>1, <2>2 DEF DeleteIOC, OneRowPerSource
<1>3. CASE Connect
  BY <1>a, <1>3, NoRowsType DEF Connect, SnapshotFresh, OneRowPerSource
<1>4. CASE SelectBatch
  <2>1. PICK B \in Batches(Candidates(Src)) :
            batch' = [i \in Ids |-> IF i \in B THEN iocs[i] ELSE None]
    BY <1>4 DEF SelectBatch
  <2>2. \A i \in B : i \in Ids /\ Live(i) /\ enr[i][Src] = <<>>
    BY <2>1 DEF Batches, Candidates
  <2>3. txn = NoRows
    BY <1>a, <1>4 DEF SelectBatch, SnapshotFresh
  <2>4. \A i \in Ids : Live(i) => i < nextId
    BY <1>a, BoundsAssumption DEF SnapshotFresh, Live, TypeOK
  <2> QED
    BY <1>a, <1>4, <2>1, <2>2, <2>3, <2>4, NoRowsType
       DEF SelectBatch, SnapshotFresh, OneRowPerSource, Src
<1>5. ASSUME NEW i \in Ids, NEW o \in Outcome, Enrich(i, o)
      PROVE  orphan'.rows = NoRows /\ SnapshotFresh' /\ OneRowPerSource'
  BY <1>a, <1>5 DEF Enrich, TypeOK, SnapshotFresh, OneRowPerSource, Src
<1>6. ASSUME NEW i \in Ids, InsertFails(i) \/ EnricherRaises(i)
      PROVE  orphan'.rows = NoRows /\ SnapshotFresh' /\ OneRowPerSource'
  BY <1>a, <1>6, AbandonFresh DEF InsertFails, EnricherRaises
<1>7. CASE Fail
  BY <1>a, <1>7, AbandonFresh DEF Fail
<1>8. CASE Commit
  <2>1. OneRowPerSource'
    BY <1>8, PublishFresh DEF Commit, BatchDone
  <2> QED
    BY <1>a, <1>8, <2>1, NoRowsType DEF Commit, BatchDone, SnapshotFresh
<1>9. CASE CommitLandsUnseen
  <2>1. OneRowPerSource'
    BY <1>9, PublishFresh DEF CommitLandsUnseen, BatchDone
  <2> QED
    BY <1>a, <1>9, <2>1, NoRowsType DEF CommitLandsUnseen, BatchDone, SnapshotFresh
<1>10. CASE CommitInFlight \/ OrphanCommits \/ OrphanRollsBack
  BY <1>a, <1>10 DEF CommitInFlight, OrphanCommits, OrphanRollsBack
<1>11. CASE UNCHANGED vars
  BY <1>a, <1>11 DEF vars, SnapshotFresh, OneRowPerSource, Src
<1> QED
  BY <1>1, <1>2, <1>3, <1>4, <1>5, <1>6, <1>7, <1>8, <1>9, <1>10, <1>11
     DEF Next, API, Worker, Database, Fault

\* With every COMMIT decided before the worker is back, a source records at
\* most one row for an indicator, in every interleaving of API and worker.
THEOREM AtMostOneRow == ASSUME ~SlowCommit PROVE Spec => []OneRowPerSource
<1>1. IInv /\ [Next]_vars => IInv'
  BY NextIInv
<1>2. IInv => OneRowPerSource
  BY DEF IInv
<1> QED
  BY InitIInv, <1>1, <1>2, PTL DEF Spec

\* The batch read seconds ago is still to be done: what process_source asks for
\* has no visible row of its source, until its own commit.
THEOREM BatchStaysFresh == ASSUME ~SlowCommit PROVE Spec => []SnapshotFresh
<1>1. IInv /\ [Next]_vars => IInv'
  BY NextIInv
<1>2. IInv => SnapshotFresh
  BY DEF IInv
<1> QED
  BY InitIInv, <1>1, <1>2, PTL DEF Spec
-----------------------------------------------------------------------------
(* The pipeline implements the registry (same assumption): API calls map   *)
(* to Register and Remove, a COMMIT that reaches the server to Record,     *)
(* and every other step of the worker to a stutter.                        *)

Counts == [i \in Ids |-> [s \in Source |-> Len(enr[i][s])]]

RInv == IInv /\ NoOrphanRows

\* Committing the worker's transaction records its source's results, each for
\* a registered indicator without one.
LEMMA PublishRecords ==
    ASSUME RInv, pc = "batch", enr' = Publish(Src, txn), iocs' = iocs
    PROVE  \E S \in SUBSET Ids, s \in Source : Registered!Record(S, s)
<1> DEFINE S == {i \in Ids : txn[i] # None}
<1>1. /\ Src \in Source
      /\ enr \in [Ids -> [Source -> Seq(Outcome)]]
      /\ txn \in [Ids -> Outcome \cup {None}]
  BY SrcType DEF RInv, IInv, TypeOK
<1>2. \A i \in S : Live(i) /\ enr[i][Src] = <<>> /\ txn[i] \in Outcome
  BY <1>1 DEF RInv, IInv, SnapshotFresh, NoOrphanRows, Locked
<1>3. \A i \in S : iocs[i] # None /\ Counts[i][Src] = 0
  BY <1>1, <1>2 DEF Counts, Live
<1>4. \A i \in Ids, t \in Source :
        Len(enr'[i][t]) = IF i \in S /\ t = Src THEN 1 ELSE Len(enr[i][t])
  <2> SUFFICES ASSUME NEW i \in Ids, NEW t \in Source
               PROVE  Len(enr'[i][t]) = IF i \in S /\ t = Src THEN 1 ELSE Len(enr[i][t])
    OBVIOUS
  <2>1. CASE i \in S /\ t = Src
    <3>1. txn[i] # None /\ enr[i][Src] = <<>>
      BY <1>2, <2>1
    <3>2. enr'[i][t] = Append(enr[i][Src], txn[i])
      BY <1>1, <2>1, <3>1, PublishNew
    <3> QED
      BY <2>1, <3>1, <3>2
  <2>2. CASE ~(i \in S /\ t = Src)
    <3>1. enr'[i][t] = enr[i][t]
      BY <1>1, <2>2, PublishOld
    <3> QED
      BY <2>2, <3>1
  <2> QED
    BY <2>1, <2>2
<1>5. Counts' = [i \in Ids |-> IF i \in S THEN [Counts[i] EXCEPT ![Src] = 1]
                                          ELSE Counts[i]]
  BY <1>1, <1>4 DEF Counts
<1>6. Registered!Record(S, Src)
  BY <1>3, <1>5 DEF Registered!Record, Counts
<1>7. S \in SUBSET Ids
  OBVIOUS
<1> HIDE DEF S
<1> QED
  BY <1>1, <1>6, <1>7 DEF Registered!Record

LEMMA StepRefines ==
    RInv /\ RInv' /\ [Next]_vars => [Registered!RNext]_(Registered!rvars)
<1> SUFFICES ASSUME RInv, [Next]_vars
             PROVE  Registered!RNext \/ UNCHANGED Registered!rvars
  BY DEF Registered!rvars
<1>a. TypeOK /\ SnapshotFresh /\ orphan.rows = NoRows
  BY DEF RInv, IInv
<1>b. UNCHANGED <<iocs, enr>> => UNCHANGED Registered!rvars
  BY DEF Registered!rvars
<1>1. ASSUME NEW v \in Indicator, AddIOC(v) PROVE Registered!RNext
  <2>1. nextId \in Ids /\ iocs[nextId] = None
    BY <1>a, <1>1 DEF AddIOC, SnapshotFresh, TypeOK
  <2>2. Registered!Register(nextId, v)
    BY <2>1, <1>1 DEF AddIOC, Registered!Register
  <2> QED
    BY <2>1, <2>2 DEF Registered!RNext
<1>2. ASSUME NEW i \in Ids, DeleteIOC(i) PROVE Registered!RNext
  <2>1. /\ enr \in [Ids -> [Source -> Seq(Outcome)]]
        /\ enr' = [enr EXCEPT ![i] = NoEnr]
    BY <1>a, <1>2 DEF DeleteIOC, Cascade, TypeOK
  <2>2. \A j \in Ids, s \in Source :
          Len(enr'[j][s]) = IF j = i THEN 0 ELSE Len(enr[j][s])
    BY <2>1 DEF NoEnr
  <2>3. Counts' = [Counts EXCEPT ![i] = Registered!NoResults]
    BY <2>2 DEF Counts, Registered!NoResults
  <2>4. Registered!Remove(i)
    BY <1>2, <2>3 DEF DeleteIOC, Live, Registered!Remove, Counts
  <2> QED
    BY <2>4 DEF Registered!RNext
<1>3. CASE Commit
  BY <1>3, PublishRecords DEF Commit, BatchDone, Registered!RNext
<1>4. CASE CommitLandsUnseen
  BY <1>4, PublishRecords DEF CommitLandsUnseen, BatchDone, Registered!RNext
<1>5. CASE \/ Connect \/ SelectBatch
           \/ \E i \in Ids, o \in Outcome : Enrich(i, o)
           \/ \E i \in Ids : InsertFails(i) \/ EnricherRaises(i)
           \/ Fail \/ CommitInFlight \/ OrphanRollsBack
  <2>1. UNCHANGED <<iocs, enr>>
    BY <1>5 DEF Connect, SelectBatch, Enrich, InsertFails, EnricherRaises,
                Fail, CommitInFlight, OrphanRollsBack, Abandon
  <2> QED
    BY <2>1, <1>b
<1>6. CASE OrphanCommits
  BY <1>a, <1>6 DEF OrphanCommits
<1>7. CASE UNCHANGED vars
  BY <1>7, <1>b DEF vars
<1> QED
  BY <1>1, <1>2, <1>3, <1>4, <1>5, <1>6, <1>7 DEF Next, API, Worker, Database, Fault

\* Results appear once, one source at a time, for registered indicators only,
\* and disappear only with them, for every table of sources and every bound.
THEOREM PipelineIsRegistry == ASSUME ~SlowCommit PROVE Spec => ImplementsRegistry
<1>1. Init => RInv /\ Registered!RInit
  <2>1. Init => RInv
    BY InitIInv, InitNoOrphanRows DEF RInv
  <2>2. Init => Registered!RInit
    BY DEF Init, NoEnr, Registered!RInit, Registered!NoResults
  <2> QED
    BY <2>1, <2>2
<1>2. RInv /\ [Next]_vars => RInv'
  BY NextIInv, NextNoOrphanRows DEF RInv, IInv
<1>3. RInv /\ RInv' /\ [Next]_vars => [Registered!RNext]_(Registered!rvars)
  BY StepRefines
<1> QED
  BY <1>1, <1>2, <1>3, PTL DEF Spec, ImplementsRegistry, Registered!RSpec
-----------------------------------------------------------------------------
(* The price of a broken session.  With late commits a source may record   *)
(* twice; the invariant counts what is visible, what a COMMIT in flight     *)
(* may still add and what the worker may, against the sessions broken.      *)

InFlight(i, s) == IF orphan.rows[i] # None /\ orphan.src = s THEN 1 ELSE 0
InHand(i, s) == IF (batch[i] # None \/ txn[i] # None) /\ s = Src THEN 1 ELSE 0

Paid(i, s) == Len(enr[i][s]) + InFlight(i, s) + InHand(i, s) <= 1 + faults

Accounts ==
    /\ orphan.rows # NoRows => faults >= 1
    /\ pc # "batch" => batch = NoRows /\ txn = NoRows
    /\ \A i \in Ids, s \in Source : Paid(i, s)

LEMMA InitAccounts == Init => Accounts
BY NoRowsType, NoOrphanType DEF Init, Accounts, Paid, InFlight, InHand, NoEnr

\* What a published row adds.
LEMMA PublishLen ==
    ASSUME enr \in [Ids -> [Source -> Seq(Outcome)]],
           NEW t \in Source, NEW f \in [Ids -> Outcome \cup {None}],
           NEW i \in Ids, NEW s \in Source
    PROVE  /\ f[i] # None /\ t = s => Len(Publish(t, f)[i][s]) = Len(enr[i][s]) + 1
           /\ ~(f[i] # None /\ t = s) => Len(Publish(t, f)[i][s]) = Len(enr[i][s])
<1>1. CASE f[i] # None /\ t = s
  <2>1. Publish(t, f)[i][s] = Append(enr[i][s], f[i])
    BY <1>1, PublishNew
  <2>2. f[i] \in Outcome /\ enr[i][s] \in Seq(Outcome)
    BY <1>1
  <2>3. Len(Append(enr[i][s], f[i])) = Len(enr[i][s]) + 1
    BY <2>2
  <2> QED
    BY <1>1, <2>1, <2>3
<1>2. CASE ~(f[i] # None /\ t = s)
  BY <1>2, PublishOld
<1> QED
  BY <1>1, <1>2

LEMMA NextAccounts == TypeOK /\ Accounts /\ [Next]_vars => Accounts'
<1> SUFFICES ASSUME TypeOK, Accounts, [Next]_vars PROVE Accounts'
  OBVIOUS
<1>a. /\ \A i \in Ids, s \in Source : Len(enr[i][s]) \in Nat
      /\ faults \in Nat /\ Src \in Source /\ enr \in [Ids -> [Source -> Seq(Outcome)]]
      /\ txn \in [Ids -> Outcome \cup {None}]
      /\ orphan.rows \in [Ids -> Outcome \cup {None}] /\ orphan.src \in Source
  BY SrcType, BoundsAssumption DEF TypeOK
<1>1. ASSUME NEW v \in Indicator, AddIOC(v) PROVE Accounts'
  BY <1>1 DEF AddIOC, Accounts, Paid, InFlight, InHand, Src, NoRows
<1>2. ASSUME NEW i \in Ids, DeleteIOC(i) PROVE Accounts'
  <2>1. \A j \in Ids, s \in Source : Len(enr'[j][s]) <= Len(enr[j][s]) /\ Len(enr'[j][s]) \in Nat
    BY <1>a, <1>2 DEF DeleteIOC, Cascade, NoEnr
  <2>2. ASSUME NEW j \in Ids, NEW s \in Source PROVE Paid(j, s)'
    <3>1. InFlight(j, s)' = InFlight(j, s) /\ InHand(j, s)' = InHand(j, s) /\ faults' = faults
      BY <1>2 DEF DeleteIOC, InFlight, InHand, Src
    <3>2. InFlight(j, s) \in Nat /\ InHand(j, s) \in Nat
      BY DEF InFlight, InHand
    <3> QED
      BY <1>a, <2>1, <3>1, <3>2 DEF Accounts, Paid
  <2> QED
    BY <1>2, <2>2 DEF DeleteIOC, Accounts, NoRows
<1>3. CASE Connect
  BY <1>3, NoRowsType DEF Connect, Accounts, Paid, InFlight, InHand, NoRows
<1>4. CASE SelectBatch
  <2>1. PICK B \in Batches(Candidates(Src)) :
            batch' = [i \in Ids |-> IF i \in B THEN iocs[i] ELSE None]
    BY <1>4 DEF SelectBatch
  <2>2. \A i \in B : enr[i][Src] = <<>>
    BY <2>1 DEF Batches, Candidates
  <2>3. txn = NoRows /\ batch = NoRows /\ UNCHANGED <<txn, orphan, enr, faults, k>> /\ pc' = "batch"
    BY <1>4 DEF SelectBatch, Accounts
  <2>4. ASSUME NEW i \in Ids, NEW s \in Source PROVE Paid(i, s)'
    <3>1. InFlight(i, s)' = InFlight(i, s) /\ InFlight(i, s) \in {0, 1}
      BY <2>3 DEF InFlight
    <3>2. Paid(i, s) /\ InHand(i, s) = 0
      BY <2>3, NoRowsType DEF Accounts, InHand
    <3>3. CASE i \in B /\ s = Src
      <4>1. Len(enr[i][s]) = 0
        BY <2>2, <3>3
      <4>2. InFlight(i, s) = 0 \/ faults >= 1
        <5>1. orphan.rows[i] # None => orphan.rows # NoRows
          BY NoRowsType
        <5> QED
          BY <5>1 DEF InFlight, Accounts
      <4>3. InHand(i, s)' \in {0, 1}
        BY DEF InHand
      <4> QED
        BY <1>a, <2>3, <3>1, <4>1, <4>2, <4>3 DEF Paid
    <3>4. CASE ~(i \in B /\ s = Src)
      <4>1. InHand(i, s)' = 0
        BY <2>1, <2>3, <3>4, NoRowsType DEF InHand, Src
      <4> QED
        BY <2>3, <3>1, <3>2, <4>1 DEF Paid
    <3> QED
      BY <3>3, <3>4
  <2> QED
    BY <2>3, <2>4 DEF Accounts, NoRows
<1>5. ASSUME NEW i \in Ids, NEW o \in Outcome, Enrich(i, o) PROVE Accounts'
  <2>1. ASSUME NEW j \in Ids, NEW s \in Source PROVE InHand(j, s)' = InHand(j, s)
    BY <1>5, NoneAssumption DEF Enrich, TypeOK, InHand, Src
  <2> QED
    BY <1>5, <2>1 DEF Enrich, Accounts, Paid, InFlight, NoRows
<1>6. ASSUME Abandon, orphan' = orphan, faults' \in {faults, faults + 1} PROVE Accounts'
  <2>1. \A i \in Ids, s \in Source : InHand(i, s)' = 0
    BY <1>6, NoRowsType DEF Abandon, InHand
  <2>2. \A i \in Ids, s \in Source : InHand(i, s) \in Nat /\ InFlight(i, s) \in Nat
    BY DEF InHand, InFlight
  <2>3. ASSUME NEW i \in Ids, NEW s \in Source PROVE Paid(i, s)'
    <3>1. Paid(i, s) /\ InFlight(i, s)' = InFlight(i, s) /\ Len(enr'[i][s]) = Len(enr[i][s])
      BY <1>6 DEF Abandon, Accounts, InFlight
    <3> QED
      BY <1>6, <1>a, <2>1, <2>2, <3>1 DEF Paid
  <2> QED
    BY <1>6, <1>a, <2>3 DEF Abandon, Accounts, NoRows
<1>7. ASSUME NEW i \in Ids, InsertFails(i) \/ EnricherRaises(i) PROVE Accounts'
  BY <1>6, <1>7 DEF InsertFails, EnricherRaises
<1>8. CASE Fail
  BY <1>6, <1>8 DEF Fail
<1>9. CASE Commit \/ CommitLandsUnseen
  <2>1. /\ batch = NoRows /\ batch' = NoRows /\ txn' = NoRows /\ orphan' = orphan
        /\ enr' = Publish(Src, txn) /\ faults' \in {faults, faults + 1}
    BY <1>9 DEF Commit, CommitLandsUnseen, BatchDone
  <2>2. ASSUME NEW i \in Ids, NEW s \in Source PROVE Paid(i, s)'
    <3>1. InHand(i, s) = IF txn[i] # None /\ Src = s THEN 1 ELSE 0
      BY <2>1, NoRowsType DEF InHand
    <3>2. Len(enr'[i][s]) = Len(enr[i][s]) + InHand(i, s)
      <4>1. CASE txn[i] # None /\ Src = s
        <5>1. Len(enr'[i][s]) = Len(enr[i][s]) + 1
          BY <1>a, <2>1, <4>1, PublishLen
        <5> QED
          BY <3>1, <4>1, <5>1
      <4>2. CASE ~(txn[i] # None /\ Src = s)
        <5>1. Len(enr'[i][s]) = Len(enr[i][s]) /\ InHand(i, s) = 0
          BY <1>a, <2>1, <3>1, <4>2, PublishLen
        <5> QED
          BY <1>a, <5>1
      <4> QED
        BY <4>1, <4>2
    <3>3. InHand(i, s)' = 0
      BY <2>1, NoRowsType DEF InHand
    <3>4. InFlight(i, s)' = InFlight(i, s) /\ InFlight(i, s) \in Nat /\ InHand(i, s) \in Nat
      BY <2>1 DEF InFlight, InHand
    <3>5. Paid(i, s)
      BY DEF Accounts
    <3> QED
      BY <1>a, <2>1, <3>2, <3>3, <3>4, <3>5 DEF Paid
  <2> QED
    BY <1>a, <2>1, <2>2 DEF Accounts, NoRows
<1>10. CASE CommitInFlight
  <2>1. /\ batch = NoRows /\ batch' = NoRows /\ txn' = NoRows /\ enr' = enr
        /\ orphan.rows = NoRows /\ orphan' = [src |-> Src, rows |-> txn] /\ faults' = faults + 1
    BY <1>10 DEF CommitInFlight, BatchDone, Abandon
  <2>2. ASSUME NEW i \in Ids, NEW s \in Source PROVE Paid(i, s)'
    <3>1. InFlight(i, s)' = InHand(i, s) /\ InHand(i, s)' = 0 /\ InFlight(i, s) = 0
      BY <2>1, NoRowsType DEF InHand, InFlight
    <3>2. InHand(i, s) \in Nat /\ Paid(i, s)
      BY DEF InHand, Accounts
    <3> QED
      BY <1>a, <2>1, <3>1, <3>2 DEF Paid
  <2> QED
    BY <1>a, <2>1, <2>2 DEF Accounts, NoRows
<1>11. CASE OrphanCommits
  <2>1. /\ UNCHANGED <<batch, txn, pc, k, faults>>
        /\ enr' = Publish(orphan.src, orphan.rows) /\ orphan'.rows = NoRows
    BY <1>11, NoOrphanType DEF OrphanCommits
  <2>2. ASSUME NEW i \in Ids, NEW s \in Source PROVE Paid(i, s)'
    <3>1. Len(enr'[i][s]) = Len(enr[i][s]) + InFlight(i, s)
      <4>1. CASE orphan.rows[i] # None /\ orphan.src = s
        <5>1. Len(enr'[i][s]) = Len(enr[i][s]) + 1
          BY <1>a, <2>1, <4>1, PublishLen
        <5> QED
          BY <4>1, <5>1 DEF InFlight
      <4>2. CASE ~(orphan.rows[i] # None /\ orphan.src = s)
        <5>1. Len(enr'[i][s]) = Len(enr[i][s])
          BY <1>a, <2>1, <4>2, PublishLen
        <5>2. InFlight(i, s) = 0
          BY <4>2 DEF InFlight
        <5> QED
          BY <1>a, <5>1, <5>2
      <4> QED
        BY <4>1, <4>2
    <3>2. InFlight(i, s)' = 0 /\ InHand(i, s)' = InHand(i, s)
      BY <2>1, NoRowsType DEF InFlight, InHand, Src
    <3>3. Paid(i, s) /\ InFlight(i, s) \in Nat /\ InHand(i, s) \in Nat
      BY DEF Accounts, InFlight, InHand
    <3> QED
      BY <1>a, <2>1, <3>1, <3>2, <3>3 DEF Paid
  <2> QED
    BY <2>1, <2>2 DEF Accounts, NoRows
<1>12. CASE OrphanRollsBack
  <2>1. UNCHANGED <<batch, txn, pc, k, faults, enr>> /\ orphan'.rows = NoRows
    BY <1>12, NoOrphanType DEF OrphanRollsBack
  <2>2. ASSUME NEW i \in Ids, NEW s \in Source PROVE Paid(i, s)'
    <3>1. InFlight(i, s)' = 0 /\ InHand(i, s)' = InHand(i, s) /\ Len(enr'[i][s]) = Len(enr[i][s])
      BY <2>1, NoRowsType DEF InFlight, InHand, Src
    <3>2. Paid(i, s) /\ InFlight(i, s) \in Nat /\ InHand(i, s) \in Nat
      BY DEF Accounts, InFlight, InHand
    <3> QED
      BY <1>a, <2>1, <3>1, <3>2 DEF Paid
  <2> QED
    BY <2>1, <2>2 DEF Accounts, NoRows
<1>13. CASE UNCHANGED vars
  BY <1>13 DEF vars, Accounts, Paid, InFlight, InHand, Src, NoRows
<1> QED
  BY <1>1, <1>2, <1>3, <1>4, <1>5, <1>7, <1>8, <1>9, <1>10, <1>11, <1>12, <1>13
  DEF Next, API, Worker, Database, Fault

\* However COMMITs are lost or late, each row of a source beyond the first is
\* paid for by a broken session.
THEOREM DuplicatesArePaid == Spec => []RedundantRowsBounded
<1>1. TypeOK /\ Accounts => RedundantRowsBounded
  <2> SUFFICES ASSUME TypeOK, Accounts, NEW i \in Ids, NEW s \in Source
               PROVE  Len(enr[i][s]) <= 1 + faults
    BY DEF RedundantRowsBounded
  <2>1. Paid(i, s) /\ InFlight(i, s) \in Nat /\ InHand(i, s) \in Nat
    BY DEF Accounts, InFlight, InHand
  <2>2. Len(enr[i][s]) \in Nat /\ faults \in Nat
    BY BoundsAssumption DEF TypeOK
  <2> QED
    BY <2>1, <2>2 DEF Paid
<1> QED
  BY InitTypeOK, NextTypeOK, InitAccounts, NextAccounts, <1>1, PTL DEF Spec
=============================================================================
