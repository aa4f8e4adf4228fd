-------------------------------- MODULE Page --------------------------------
(***************************************************************************)
(* The indicator view of the web page (api/web/index.html) against the API *)
(* handlers it calls (api/iocs.go): the list, the detail panel, their      *)
(* refresh by events and by a timer, and the panel's delete button.        *)
(*                                                                         *)
(* The page is one thread, but each of its functions gives way at every    *)
(* await: calls of the same function are in flight together, and answers   *)
(* come in any order.  What the page draws only when it has changed it     *)
(* recognises by a signature of the last drawing.  The panel shows the     *)
(* indicator, its enrichments and its relations; the signature covers the  *)
(* first two.                                                              *)
(***************************************************************************)
EXTENDS Naturals, FiniteSets

CONSTANTS
    Ioc,          \* ids
    MaxDetail,    \* bound: calls of showDetail in flight
    MaxList,      \* bound: calls of loadList in flight
    Sizes,        \* bounds of which one holds for a behaviour: rows[i], enrichments of
                  \* i, and calls of showDetail, of loadList, and calls that fail
    None

ASSUME PageAssumption ==
    /\ MaxDetail \in Nat /\ MaxList \in Nat
    /\ Sizes \subseteq [rows : [Ioc -> Nat], details : 0 .. MaxDetail, loads : 0 .. MaxList,
                       errors : Nat]
    /\ None \notin Ioc /\ None \notin Nat

\* The panel with a message in it, and the signature of no drawing.
Blank == [id |-> None]
NoSig == <<>>

VARIABLES
    reg,          \* reg[i]: "new", "live" or "gone" in table iocs
    rows,         \* rows[i]: enrichments of i
    selected,     \* selectedId
    lastSig,      \* lastDetailSig: <<indicator, number of enrichments>>, or NoSig
    panel,        \* what #detail shows: Blank, or the indicator, the number n of its
                  \* enrichments, and of those (piv) that its relations were looked up
                  \* by; piv is None when they are left out
    detail,       \* detail[c]: a call of showDetail, Idle or with its indicator at a
                  \* statement of getIOC, at its answer, at getPivots or at the drawing
    trust,        \* "kept": no call of showDetail has failed or overlapped with another
                  \* since the last drawing by a call that did neither; "mending": one
                  \* has, but the call under way has been alone; "broken" (history)
    list,         \* what #listWrap shows
    lastList,     \* lastListSig
    load,         \* load[l]: a call of loadList
    del,          \* the running click handler of the delete button
    errors,       \* calls that failed (status 500, no network) so far
    size          \* the bounds that hold (never changes)

server == <<reg, rows>>
panelVars == <<selected, lastSig, panel, detail, trust>>
listVars == <<list, lastList, load>>
vars == <<server, panelVars, listVars, del, errors, size>>

Calls == 1 .. MaxDetail
Loads == 1 .. MaxList

Idle == [at |-> "idle"]
Asked == [at |-> "asked"]
Waiting(i, f) == [at |-> "ioc", id |-> i, force |-> f]

LiveIds == {i \in Ioc : reg[i] = "live"}

\* What the signatures keep of a drawing: id|count|sources, and the ids.
SigOfIdOnly(i, n) == <<i, 0>>
DetailSig(i, n) == <<i, n>>

ListSigCounting(ids) == Cardinality(ids)
ListSig(ids) == ids

Init ==
    /\ reg = [i \in Ioc |-> "new"]
    /\ rows = [i \in Ioc |-> 0]
    /\ selected = None /\ lastSig = NoSig /\ panel = Blank /\ trust = "kept"
    /\ detail = [c \in Calls |-> Idle]
    /\ list = {} /\ lastList = ListSig({})
    /\ size \in Sizes
    /\ load = [l \in Loads |-> IF l = 1 /\ size.loads > 0 THEN Asked ELSE Idle]
    /\ del = Idle
    /\ errors = 0
-----------------------------------------------------------------------------
(* Other clients and the workers.                                          *)

AddIOC(i) ==
    /\ reg[i] = "new"
    /\ reg' = [reg EXCEPT ![i] = "live"]
    /\ UNCHANGED <<rows, panelVars, listVars, del, errors, size>>

Enrich(i) ==
    /\ reg[i] = "live"
    /\ rows[i] < size.rows[i]
    /\ rows' = [rows EXCEPT ![i] = @ + 1]
    /\ UNCHANGED <<reg, panelVars, listVars, del, errors, size>>

Removed(i) ==
    /\ reg' = [reg EXCEPT ![i] = "gone"]
    /\ rows' = [rows EXCEPT ![i] = 0]

DeleteIOC(i) ==
    /\ reg[i] = "live"
    /\ Removed(i)
    /\ UNCHANGED <<panelVars, listVars, del, errors, size>>

\* A call fails: the server says 500, or there is no network.
MayFail ==
    /\ errors < size.errors
    /\ errors' = errors + 1
-----------------------------------------------------------------------------
(* showDetail(id, force).                                                  *)

Busy(c) == detail[c] # Idle

\* Calls have no names in the code: a new one takes the first free place.
Free(c) == c <= size.details /\ ~Busy(c) /\ \A d \in Calls : d < c => Busy(d)

StartDetail(c, i, force) ==
    /\ Free(c)
    /\ detail' = [detail EXCEPT ![c] = Waiting(i, force \/ selected # i)]
    /\ selected' = i
    /\ trust' = IF \E d \in Calls : Busy(d) THEN "broken"
                ELSE IF trust = "kept" THEN "kept" ELSE "mending"
    /\ UNCHANGED <<lastSig, panel>>

\* A click on a row of the list, or on a relation in the panel or an entry of the
\* overview, which may be older.
Click(c, i) ==
    /\ i \in list \/ reg[i] # "new"
    /\ StartDetail(c, i, TRUE)
    /\ UNCHANGED <<server, listVars, del, errors, size>>

\* Call c goes on as r, or ends.
Becomes(c, r) == detail' = [detail EXCEPT ![c] = r]

\* getIOC: the indicator in one statement ...
GetIocReads(c) ==
    /\ detail[c].at = "ioc"
    /\ Becomes(c, IF reg[detail[c].id] = "live" THEN [detail[c] EXCEPT !.at = "rows"]
                  ELSE [at |-> "failed", id |-> detail[c].id])
    /\ UNCHANGED <<server, selected, lastSig, panel, trust, listVars, del, errors, size>>

\* ... its enrichments in another.
GetIocReadsRows(c) ==
    /\ detail[c].at = "rows"
    /\ Becomes(c, [at |-> "answer", id |-> detail[c].id, force |-> detail[c].force,
                   n |-> rows[detail[c].id]])
    /\ UNCHANGED <<server, selected, lastSig, panel, trust, listVars, del, errors, size>>

GetIocFails(c) ==
    /\ detail[c].at \in {"ioc", "rows"}
    /\ MayFail
    /\ Becomes(c, [at |-> "failed", id |-> detail[c].id])
    /\ trust' = "broken"
    /\ UNCHANGED <<server, selected, lastSig, panel, listVars, del, size>>

\* if (!ok): the panel says so, the signature stays.
ShowFailure(c) ==
    /\ detail[c].at = "failed"
    /\ panel' = Blank
    /\ Becomes(c, Idle)
    /\ UNCHANGED <<server, selected, lastSig, trust, listVars, del, errors, size>>

UnchangedById(c) == ~detail[c].force /\ lastSig # NoSig /\ detail[c].id = lastSig[1]

Unchanged(c) ==
    ~detail[c].force /\ DetailSig(detail[c].id, detail[c].n) = lastSig

SkipDrawing(c) ==
    /\ detail[c].at = "answer"
    /\ Unchanged(c)
    /\ Becomes(c, Idle)
    /\ UNCHANGED <<server, selected, lastSig, panel, trust, listVars, del, errors, size>>

\* The signature is stored before the pivots are asked for.
StoreSig(c) ==
    /\ detail[c].at = "answer"
    /\ ~Unchanged(c)
    /\ lastSig' = DetailSig(detail[c].id, detail[c].n)
    /\ Becomes(c, [at |-> "pivots", id |-> detail[c].id, n |-> detail[c].n])
    /\ UNCHANGED <<server, selected, panel, trust, listVars, del, errors, size>>

PivotsCome(c, piv) ==
    /\ detail[c].at = "pivots"
    /\ Becomes(c, [at |-> "drawing", id |-> detail[c].id, n |-> detail[c].n, piv |-> piv])

\* getPivots (module Pivots) looks the relations up by the enrichments there are
\* now; of an indicator that is gone it knows none (404).
GetPivotsReads(c) ==
    /\ PivotsCome(c, IF reg[detail[c].id] = "live" THEN rows[detail[c].id] ELSE None)
    /\ UNCHANGED <<server, selected, lastSig, panel, trust, listVars, del, errors, size>>

GetPivotsFails(c) ==
    /\ PivotsCome(c, None)
    /\ MayFail
    /\ trust' = "broken"
    /\ UNCHANGED <<server, selected, lastSig, panel, listVars, del, size>>

\* An error status of /pivots leaves the relations out, and nothing else.
Draw(c) ==
    /\ detail[c].at = "drawing"
    /\ panel' = [id |-> detail[c].id, n |-> detail[c].n, piv |-> detail[c].piv]
    /\ trust' = IF trust = "mending" /\ detail[c].piv # None THEN "kept" ELSE trust
    /\ Becomes(c, Idle)
    /\ UNCHANGED <<server, selected, lastSig, listVars, del, errors, size>>

\* fetch rejects and the exception ends the call.
Reject(c) ==
    /\ Busy(c)
    /\ MayFail
    /\ Becomes(c, Idle)
    /\ trust' = "broken"
    /\ UNCHANGED <<server, selected, lastSig, panel, listVars, del, size>>
-----------------------------------------------------------------------------
(* loadList(), without a filter.                                           *)

FreeLoads == {l \in 1 .. size.loads : load[l] = Idle}

\* Calls beyond the bound are not started.
StartLoad ==
    /\ IF FreeLoads = {} THEN load' = load
       ELSE \E l \in FreeLoads : load' = [load EXCEPT ![l] = Asked]
    /\ UNCHANGED <<list, lastList>>

\* One statement reads the ids.
ListIocs(l) ==
    /\ load[l] = Asked
    /\ load' = [load EXCEPT ![l] = [at |-> "answer", ids |-> LiveIds]]
    /\ UNCHANGED <<server, panelVars, list, lastList, del, errors, size>>

\* if (!ok) return; or fetch rejects: signature and drawing stay.
ListFails(l) ==
    /\ load[l] # Idle
    /\ MayFail
    /\ load' = [load EXCEPT ![l] = Idle]
    /\ UNCHANGED <<server, panelVars, list, lastList, del, size>>

\* Signature and drawing change together.
ShowList(l) ==
    /\ load[l].at = "answer"
    /\ IF ListSig(load[l].ids) = lastList
       THEN UNCHANGED <<list, lastList>>
       ELSE list' = load[l].ids /\ lastList' = ListSig(load[l].ids)
    /\ load' = [load EXCEPT ![l] = Idle]
    /\ UNCHANGED <<server, panelVars, del, errors, size>>
-----------------------------------------------------------------------------
(* Refreshes and the delete button.                                        *)

\* The timer while the view of the indicators is open, and an event for the
\* selected indicator.
Tick ==
    /\ StartLoad
    /\ IF selected = None \/ \A c \in Calls : ~Free(c)
       THEN UNCHANGED panelVars
       ELSE \E c \in Calls : StartDetail(c, selected, FALSE)
    /\ UNCHANGED <<server, del, errors, size>>

\* An event for another indicator; an indicator added or imported on this page.
Event ==
    /\ StartLoad
    /\ UNCHANGED <<server, panelVars, del, errors, size>>

\* The button belongs to the drawing, whatever is selected by now.
ClickDelete ==
    /\ del = Idle
    /\ panel # Blank
    /\ del' = [at |-> "asked", id |-> panel.id]
    /\ UNCHANGED <<server, panelVars, listVars, errors, size>>

\* deleteIOC: done, 404, or 500 while the worker holds the row.
ServeDelete ==
    /\ del.at = "asked"
    /\ del' = [del EXCEPT !.at = "answer"]
    /\ (reg[del.id] = "live" /\ Removed(del.id)) \/ UNCHANGED server
    /\ UNCHANGED <<panelVars, listVars, errors, size>>

\* fetch rejects: the handler ends there, the panel stays.
DeleteRejected ==
    /\ del # Idle
    /\ MayFail
    /\ del' = Idle
    /\ UNCHANGED <<server, panelVars, listVars, size>>

\* The answer is not looked at; loadList(true) follows.
AnswerDelete ==
    /\ del.at = "answer"
    /\ selected' = None /\ lastSig' = NoSig /\ panel' = Blank
    /\ StartLoad
    /\ del' = Idle
    /\ UNCHANGED <<server, detail, trust, errors, size>>
-----------------------------------------------------------------------------
Others == \E i \in Ioc : AddIOC(i) \/ Enrich(i) \/ DeleteIOC(i)

User == (\E c \in Calls, i \in Ioc : Click(c, i)) \/ ClickDelete

\* Everything that goes on with calls already made.
Progress(c) ==
    \/ GetIocReads(c) \/ GetIocReadsRows(c) \/ ShowFailure(c)
    \/ SkipDrawing(c) \/ StoreSig(c) \/ GetPivotsReads(c) \/ Draw(c)

LoadProgress(l) == ListIocs(l) \/ ShowList(l)

Next ==
    \/ Others \/ User \/ Tick \/ Event \/ ServeDelete \/ DeleteRejected \/ AnswerDelete
    \/ \E c \in Calls : Progress(c) \/ GetIocFails(c) \/ GetPivotsFails(c) \/ Reject(c)
    \/ \E l \in Loads : LoadProgress(l) \/ ListFails(l)

Spec == Init /\ [][Next]_vars

\* Every call is answered; users and workers owe nobody a step, and the timer
\* refreshes the indicators only while their view is open.
FairSpec ==
    /\ Spec
    /\ \A c \in Calls : WF_vars(Progress(c))
    /\ \A l \in Loads : WF_vars(LoadProgress(l))
-----------------------------------------------------------------------------
(* Properties.                                                             *)

\* The panel shows i with n enrichments and relations at least as recent.
Shows(i, n) ==
    panel # Blank /\ panel.id = i /\ panel.n = n /\ panel.piv # None /\ panel.piv >= n

\* What a refresh relies on when it skips the drawing: with no call under way, a
\* stored signature of the selected indicator is that of what the panel shows,
\* relations included, unless a call has failed or two have overlapped and none
\* has drawn undisturbed since.
SkipIsSound ==
    (/\ selected \in LiveIds
     /\ lastSig # NoSig /\ lastSig[1] = selected
     /\ trust = "kept"
     /\ \A c \in Calls : ~Busy(c)) => Shows(selected, lastSig[2])

\* The user comes back to the view of the indicators for ever, so that the timer
\* refreshes the list (the panel), within the bound on calls; in the end with
\* indicator i selected.
ListViewed == []<><<Tick /\ FreeLoads # {}>>_vars
PanelViewed == []<><<Tick /\ \E c \in Calls : Free(c)>>_vars
Stays(i) == PanelViewed /\ <>[](selected = i)

\* Every change of the indicator the user stays with is noticed, whatever failed
\* or overlapped before.
ChangesNoticed ==
    \A i \in Ioc : Stays(i) => []<>(i \notin LiveIds \/ lastSig = <<i, rows[i]>>)

\* DOKUMENTACJA.md:363 "on an event refreshes the list and the open details; a
\* backup timer every 15 s": after every change the panel comes to show the
\* indicator the user stays with, and all its enrichments.
PanelCatchesUp ==
    \A i \in Ioc : Stays(i) =>
        []<>(i \notin LiveIds \/ (panel.id = i /\ panel.n = rows[i]))

\* It does so, relations looked up by all the enrichments included, when calls
\* no longer fail or overlap and one has drawn since.
PanelCatchesUpUnlessFailed ==
    \A i \in Ioc :
        Stays(i) /\ <>[](trust = "kept") => []<>(i \notin LiveIds \/ Shows(i, rows[i]))

\* With the view opened again and again, the list comes to show the registered
\* indicators after every change, although its calls may fail.
ListCatchesUp == ListViewed => []<>(list = LiveIds)
=============================================================================
