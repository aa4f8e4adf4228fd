------------------------------ MODULE Registry ------------------------------
(***************************************************************************)
(* What the IOC database promises its readers: the registered indicators,  *)
(* and for each of them how many results every source has recorded.  An    *)
(* indicator is registered under a fresh id and goes away together with    *)
(* its results; a worker round records, in one step, one source's result   *)
(* for some of the indicators that have none from that source yet.         *)
(* Nothing is said of sessions, snapshots, locks or crashes: Enrichment    *)
(* implements this specification (see Enrichment!Registered).              *)
(***************************************************************************)
EXTENDS Naturals

CONSTANTS Ids, Indicator, Source, None

VARIABLES
    registered,   \* registered[i]: the indicator with id i, or None
    results       \* results[i][s]: how many results source s recorded for i

rvars == <<registered, results>>

NoResults == [s \in Source |-> 0]

RInit ==
    /\ registered = [i \in Ids |-> None]
    /\ results = [i \in Ids |-> NoResults]

Register(i, v) ==
    /\ registered[i] = None
    /\ \A j \in Ids : registered[j] # v
    /\ registered' = [registered EXCEPT ![i] = v]
    /\ UNCHANGED results

Remove(i) ==
    /\ registered[i] # None
    /\ registered' = [registered EXCEPT ![i] = None]
    /\ results' = [results EXCEPT ![i] = NoResults]

\* One source records its result for every id of the set S at once.
Record(S, s) ==
    /\ \A i \in S : registered[i] # None /\ results[i][s] = 0
    /\ results' = [i \in Ids |-> IF i \in S THEN [results[i] EXCEPT ![s] = 1]
                                            ELSE results[i]]
    /\ UNCHANGED registered

RNext ==
    \/ \E i \in Ids, v \in Indicator : Register(i, v)
    \/ \E i \in Ids : Remove(i)
    \/ \E S \in SUBSET Ids, s \in Source : Record(S, s)

RSpec == RInit /\ [][RNext]_rvars
=============================================================================
