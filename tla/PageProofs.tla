----------------------------- MODULE PageProofs -----------------------------
(***************************************************************************)
(* Theorems about Page, for all indicators, any number of enrichments and  *)
(* of calls that fail or overlap: what a refresh may rely on when it skips *)
(* the drawing.                                                            *)
(***************************************************************************)
EXTENDS Page, TLAPS

-----------------------------------------------------------------------------
(* The invariant.                                                          *)

Reading == [at : {"ioc", "rows"}, id : Ioc, force : BOOLEAN]
Failed == [at : {"failed"}, id : Ioc]
Answered == [at : {"answer"}, id : Ioc, force : BOOLEAN, n : Nat]
Pivoting == [at : {"pivots"}, id : Ioc, n : Nat]
Drawing == [at : {"drawing"}, id : Ioc, n : Nat, piv : Nat \cup {None}]
Call == {Idle} \cup Reading \cup Failed \cup Answered \cup Pivoting \cup Drawing
Shown == [id : Ioc, n : Nat, piv : Nat \cup {None}]
Listed == [at : {"answer"}, ids : SUBSET Ioc]
Deleting == [at : {"asked", "answer"}, id : Ioc]

ServerOK ==
    /\ reg \in [Ioc -> {"new", "live", "gone"}]
    /\ rows \in [Ioc -> Nat]

PanelOK ==
    /\ selected \in Ioc \cup {None}
    /\ lastSig \in {NoSig} \cup (Ioc \X Nat)
    /\ panel \in {Blank} \cup Shown
    /\ detail \in [Calls -> Call]
    /\ trust \in {"kept", "mending", "broken"}

\* The signature of the list is that of its drawing.
ListOK ==
    /\ list \subseteq Ioc /\ lastList = ListSig(list)
    /\ load \in [Loads -> {Idle, Asked} \cup Listed]

DelOK == del \in {Idle} \cup Deleting

TypeOK == ServerOK /\ PanelOK /\ ListOK /\ DelOK /\ size \in Sizes

\* The page knows of registered indicators only, which never come back once gone.
Known(i) == reg[i] # "new"

ListKnown ==
    /\ \A i \in list : Known(i)
    /\ \A l \in Loads : load[l].at = "answer" => \A i \in load[l].ids : Known(i)

PanelKnown ==
    /\ selected # None => Known(selected)
    /\ \A c \in Calls : Busy(c) => Known(detail[c].id)

AllKnown == ListKnown /\ PanelKnown

\* What a call r has read of an indicator that is still there has only grown, and
\* the relations were looked up by no less.
Grown(r) ==
    /\ r.at \in {"answer", "pivots", "drawing"} /\ reg[r.id] = "live" => r.n <= rows[r.id]
    /\ r.at = "drawing" /\ r.piv # None => r.piv >= r.n

\* A call r that runs alone is for the selected indicator, which the delete button
\* may have dropped since; it fails, or gets no relations, because the indicator is
\* gone; and the signature is that of the drawing to come, or has been dropped too.
Undisturbed(r, sel, sig) ==
    /\ r # Idle => sel \in {None, r.id}
    /\ r.at = "failed" => reg[r.id] = "gone"
    /\ r.at \in {"pivots", "drawing"} => sig \in {NoSig, <<r.id, r.n>>}
    /\ r.at = "drawing" /\ r.piv = None => reg[r.id] = "gone"

Alone ==
    trust # "broken" =>
        /\ \A c, d \in Calls : Busy(c) /\ Busy(d) => c = d
        /\ \A c \in Calls : Undisturbed(detail[c], selected, lastSig)

ShowsIn(p, i, n) == p # Blank /\ p.id = i /\ p.n = n /\ p.piv # None /\ p.piv >= n

\* Call r is going to draw i, with n enrichments if the signature is stored.
Draws(r, i, n) ==
    /\ r # Idle /\ r.id = i
    /\ \/ r.at \in {"ioc", "rows", "answer"} /\ r.force
       \/ r.at \in {"pivots", "drawing"} /\ r.n = n

\* The stored signature of the selected indicator is that of what the panel shows,
\* or a call will draw.
ShownOrComing ==
    trust = "kept" =>
        \A i \in LiveIds, n \in Nat :
            selected = i /\ lastSig = <<i, n>> =>
                ShowsIn(panel, i, n) \/ \E c \in Calls : Draws(detail[c], i, n)

IInv ==
    /\ TypeOK
    /\ AllKnown
    /\ \A c \in Calls : Grown(detail[c])
    /\ Alone
    /\ ShownOrComing
-----------------------------------------------------------------------------
(* Lemmas about calls and their records.                                   *)

\* A call's place says which record it is.
LEMMA CallIs ==
    ASSUME PanelOK, NEW c \in Calls
    PROVE  /\ Busy(c) <=> detail[c].at # "idle"
           /\ detail[c].at \in {"ioc", "rows"} => detail[c] \in Reading
           /\ detail[c].at = "failed" => detail[c] \in Failed
           /\ detail[c].at = "answer" => detail[c] \in Answered
           /\ detail[c].at = "pivots" => detail[c] \in Pivoting
           /\ detail[c].at = "drawing" => detail[c] \in Drawing
           /\ Busy(c) => detail[c].id \in Ioc
BY DEF PanelOK, Busy, Idle, Call, Reading, Failed, Answered, Pivoting, Drawing

LEMMA LoadIs ==
    ASSUME ListOK, NEW l \in Loads, load[l].at = "answer" PROVE load[l].ids \subseteq Ioc
BY DEF ListOK, Idle, Asked, Listed

\* The signature of one drawing is not that of another, nor the initial one.
LEMMA SigsDiffer ==
    ASSUME NEW i, NEW n, NEW j, NEW m
    PROVE  <<i, n>> # NoSig /\ (<<i, n>> = <<j, m>> => i = j /\ n = m)
BY DEF NoSig

\* Nothing is demanded of a place without a call.
LEMMA IdleIsFine ==
    ASSUME NEW sel, NEW sig
    PROVE  Grown(Idle) /\ Undisturbed(Idle, sel, sig) /\ \A i, n : ~Draws(Idle, i, n)
BY DEF Grown, Undisturbed, Draws, Idle

\* The places of calls of loadList.
LEMMA FreeLoadsAre == ASSUME TypeOK PROVE FreeLoads \subseteq Loads
<1>1. size.loads \in 0 .. MaxList
  BY PageAssumption DEF TypeOK
<1> QED
  BY <1>1, PageAssumption DEF FreeLoads, Loads
-----------------------------------------------------------------------------
(* Types, whatever overlaps.                                               *)

LEMMA InitType == Init => TypeOK
<1> SUFFICES ASSUME Init PROVE TypeOK
  OBVIOUS
<1>1. ServerOK
  BY DEF Init, ServerOK
<1>2. PanelOK
  BY DEF Init, PanelOK, Call
<1>3. ListOK /\ DelOK
  BY DEF Init, ListOK, DelOK
<1> QED
  BY <1>1, <1>2, <1>3 DEF TypeOK, Init

LEMMA OthersType == TypeOK /\ Others => TypeOK'
<1> SUFFICES ASSUME TypeOK, NEW i \in Ioc, AddIOC(i) \/ Enrich(i) \/ DeleteIOC(i) PROVE TypeOK'
  BY DEF Others
<1>1. UNCHANGED <<panelVars, list, lastList, load, del, size>>
  BY DEF AddIOC, Enrich, DeleteIOC, listVars
<1>2. ServerOK'
  BY DEF TypeOK, ServerOK, AddIOC, Enrich, DeleteIOC, Removed
<1> QED
  BY <1>1, <1>2 DEF TypeOK, PanelOK, ListOK, DelOK, panelVars

LEMMA ButtonType == TypeOK /\ (ClickDelete \/ ServeDelete \/ DeleteRejected) => TypeOK'
<1> SUFFICES ASSUME TypeOK, ClickDelete \/ ServeDelete \/ DeleteRejected PROVE TypeOK'
  OBVIOUS
<1>1. UNCHANGED <<panelVars, list, lastList, load, size>>
  BY DEF ClickDelete, ServeDelete, DeleteRejected, listVars
<1>2. ServerOK'
  <2>1. CASE UNCHANGED server
    BY <2>1 DEF TypeOK, ServerOK, server
  <2>2. CASE Removed(del.id)
    BY <2>2 DEF TypeOK, ServerOK, Removed
  <2> QED
    BY <2>1, <2>2 DEF ClickDelete, ServeDelete, DeleteRejected
<1>3. DelOK'
  <2>1. CASE ClickDelete
    <3>1. panel.id \in Ioc
      BY <2>1 DEF ClickDelete, TypeOK, PanelOK, Shown
    <3> QED
      BY <2>1, <3>1 DEF ClickDelete, DelOK, Deleting
  <2>2. CASE ServeDelete
    <3>1. del \in Deleting
      BY <2>2 DEF ServeDelete, TypeOK, DelOK, Idle
    <3>2. [del EXCEPT !.at = "answer"] \in Deleting
      BY <3>1 DEF Deleting
    <3> QED
      BY <2>2, <3>2 DEF ServeDelete, DelOK
  <2>3. CASE DeleteRejected
    BY <2>3 DEF DeleteRejected, DelOK
  <2> QED
    BY <2>1, <2>2, <2>3
<1> QED
  BY <1>1, <1>2, <1>3 DEF TypeOK, PanelOK, ListOK, panelVars

LEMMA StartLoadType == ASSUME TypeOK, StartLoad PROVE ListOK'
BY FreeLoadsAre DEF TypeOK, ListOK, StartLoad

LEMMA EventType == TypeOK /\ Event => TypeOK'
<1> SUFFICES ASSUME TypeOK, Event PROVE TypeOK'
  OBVIOUS
<1>1. UNCHANGED <<reg, rows, panelVars, del, size>>
  BY DEF Event, server
<1>2. ListOK'
  BY StartLoadType DEF Event
<1> QED
  BY <1>1, <1>2 DEF TypeOK, ServerOK, PanelOK, DelOK, panelVars

LEMMA ListType ==
    ASSUME NEW l \in Loads PROVE TypeOK /\ (LoadProgress(l) \/ ListFails(l)) => TypeOK'
<1> SUFFICES ASSUME TypeOK, LoadProgress(l) \/ ListFails(l) PROVE TypeOK'
  OBVIOUS
<1>1. UNCHANGED <<reg, rows, panelVars, del, size>>
  BY DEF LoadProgress, ListIocs, ShowList, ListFails, server
<1>2. ListOK'
  <2>1. CASE ListIocs(l)
    <3>1. [at |-> "answer", ids |-> LiveIds] \in Listed
      BY DEF Listed, LiveIds
    <3> QED
      BY <2>1, <3>1 DEF ListIocs, TypeOK, ListOK
  <2>2. CASE ShowList(l)
    <3>1. load[l].ids \subseteq Ioc
      BY <2>2, LoadIs DEF ShowList, TypeOK
    <3> QED
      BY <2>2, <3>1 DEF ShowList, TypeOK, ListOK, ListSig
  <2>3. CASE ListFails(l)
    BY <2>3 DEF ListFails, TypeOK, ListOK
  <2> QED
    BY <2>1, <2>2, <2>3 DEF LoadProgress
<1> QED
  BY <1>1, <1>2 DEF TypeOK, ServerOK, PanelOK, DelOK, panelVars

\* The steps of a call, and the call they make of it.
Steps(c) == Progress(c) \/ GetIocFails(c) \/ GetPivotsFails(c) \/ Reject(c)

\* What a call does to the page, type by type.
LEMMA StepFrame ==
    ASSUME NEW c \in Calls, Steps(c)
    PROVE  UNCHANGED <<reg, rows, selected, list, lastList, load, del, size>>
BY DEF Steps, Progress, GetIocReads, GetIocReadsRows, ShowFailure, SkipDrawing, StoreSig,
       GetPivotsReads, PivotsCome, Draw, GetIocFails, GetPivotsFails, Reject, server, listVars

LEMMA StepType == ASSUME NEW c \in Calls PROVE TypeOK /\ Steps(c) => TypeOK'
<1> SUFFICES ASSUME TypeOK, Steps(c) PROVE TypeOK'
  OBVIOUS
<1>0. PanelOK /\ ServerOK
  BY DEF TypeOK
<1>1. PanelOK'
  <2>0. ASSUME NEW r \in Call, Becomes(c, r) PROVE detail' \in [Calls -> Call]
    BY <1>0, <2>0 DEF Becomes, PanelOK
  <2>1. CASE GetIocReads(c)
    <3>1. detail[c] \in Reading
      BY <1>0, <2>1, CallIs DEF GetIocReads
    <3>2. [detail[c] EXCEPT !.at = "rows"] \in Call /\ [at |-> "failed", id |-> detail[c].id] \in Call
      BY <3>1 DEF Reading, Failed, Call
    <3>3. detail' \in [Calls -> Call]
      BY <2>0, <2>1, <3>2 DEF GetIocReads
    <3> QED
      BY <1>0, <2>1, <3>3 DEF GetIocReads, PanelOK
  <2>2. CASE GetIocReadsRows(c)
    <3>1. detail[c] \in Reading
      BY <1>0, <2>2, CallIs DEF GetIocReadsRows
    <3>2. [at |-> "answer", id |-> detail[c].id, force |-> detail[c].force,
           n |-> rows[detail[c].id]] \in Call
      BY <1>0, <3>1 DEF ServerOK, Reading, Answered, Call
    <3>3. detail' \in [Calls -> Call]
      BY <2>0, <2>2, <3>2 DEF GetIocReadsRows
    <3> QED
      BY <1>0, <2>2, <3>3 DEF GetIocReadsRows, PanelOK
  <2>3. CASE ShowFailure(c) \/ SkipDrawing(c) \/ Reject(c)
    <3>1. detail' \in [Calls -> Call]
      BY <2>0, <2>3 DEF ShowFailure, SkipDrawing, Reject, Call
    <3> QED
      BY <1>0, <2>3, <3>1 DEF ShowFailure, SkipDrawing, Reject, PanelOK
  <2>4. CASE StoreSig(c)
    <3>1. detail[c] \in Answered
      BY <1>0, <2>4, CallIs DEF StoreSig
    <3>2. /\ [at |-> "pivots", id |-> detail[c].id, n |-> detail[c].n] \in Call
          /\ <<detail[c].id, detail[c].n>> \in Ioc \X Nat
      BY <3>1 DEF Answered, Pivoting, Call
    <3>3. detail' \in [Calls -> Call]
      BY <2>0, <2>4, <3>2 DEF StoreSig
    <3> QED
      BY <1>0, <2>4, <3>2, <3>3 DEF StoreSig, DetailSig, PanelOK
  <2>5. CASE GetPivotsReads(c) \/ GetPivotsFails(c)
    <3>1. detail[c] \in Pivoting
      BY <1>0, <2>5, CallIs DEF GetPivotsReads, GetPivotsFails, PivotsCome
    <3>2. \A p \in Nat \cup {None} :
             [at |-> "drawing", id |-> detail[c].id, n |-> detail[c].n, piv |-> p] \in Call
      BY <3>1 DEF Pivoting, Drawing, Call
    <3>3. rows[detail[c].id] \in Nat
      BY <1>0, <3>1 DEF ServerOK, Pivoting
    <3>4. detail' \in [Calls -> Call]
      BY <2>0, <2>5, <3>2, <3>3 DEF GetPivotsReads, GetPivotsFails, PivotsCome
    <3> QED
      BY <1>0, <2>5, <3>4 DEF GetPivotsReads, GetPivotsFails, PanelOK
  <2>6. CASE Draw(c)
    <3>1. detail[c] \in Drawing
      BY <1>0, <2>6, CallIs DEF Draw
    <3>2. [id |-> detail[c].id, n |-> detail[c].n, piv |-> detail[c].piv] \in Shown
      BY <3>1 DEF Drawing, Shown
    <3>3. detail' \in [Calls -> Call]
      BY <2>0, <2>6 DEF Draw, Call
    <3> QED
      BY <1>0, <2>6, <3>2, <3>3 DEF Draw, PanelOK
  <2>7. CASE GetIocFails(c)
    <3>1. [at |-> "failed", id |-> detail[c].id] \in Call
      BY <1>0, <2>7, CallIs DEF GetIocFails, Reading, Failed, Call
    <3>2. detail' \in [Calls -> Call]
      BY <2>0, <2>7, <3>1 DEF GetIocFails
    <3> QED
      BY <1>0, <2>7, <3>2 DEF GetIocFails, PanelOK
  <2> QED
    BY <2>1, <2>2, <2>3, <2>4, <2>5, <2>6, <2>7 DEF Steps, Progress
<1> QED
  BY <1>1, StepFrame DEF TypeOK, ServerOK, ListOK, DelOK

LEMMA StartType ==
    ASSUME PanelOK, NEW c \in Calls, NEW i \in Ioc, NEW force \in BOOLEAN,
           StartDetail(c, i, force)
    PROVE  PanelOK'
<1>1. Waiting(i, force \/ selected # i) \in Call
  BY DEF Waiting, Reading, Call
<1> QED
  BY <1>1 DEF StartDetail, PanelOK

LEMMA ClickType ==
    ASSUME NEW c \in Calls, NEW i \in Ioc PROVE TypeOK /\ Click(c, i) => TypeOK'
<1> SUFFICES ASSUME TypeOK, Click(c, i) PROVE TypeOK'
  OBVIOUS
<1>1. PanelOK'
  BY StartType DEF Click, TypeOK
<1> QED
  BY <1>1 DEF Click, server, listVars, TypeOK, ServerOK, ListOK, DelOK

LEMMA TickType == TypeOK /\ Tick => TypeOK'
<1> SUFFICES ASSUME TypeOK, Tick PROVE TypeOK'
  OBVIOUS
<1>1. PanelOK'
  <2>1. CASE UNCHANGED panelVars
    BY <2>1 DEF TypeOK, PanelOK, panelVars
  <2>2. ASSUME NEW c \in Calls, StartDetail(c, selected, FALSE), selected # None PROVE PanelOK'
    <3> PICK i \in Ioc : i = selected
      BY <2>2 DEF TypeOK, PanelOK
    <3> QED
      BY <2>2, StartType DEF TypeOK
  <2> QED
    BY <2>1, <2>2 DEF Tick
<1>2. ListOK'
  BY StartLoadType DEF Tick
<1> QED
  BY <1>1, <1>2 DEF Tick, server, TypeOK, ServerOK, DelOK

LEMMA AnswerType == TypeOK /\ AnswerDelete => TypeOK'
<1> SUFFICES ASSUME TypeOK, AnswerDelete PROVE TypeOK'
  OBVIOUS
<1>1. PanelOK'
  BY DEF AnswerDelete, TypeOK, PanelOK
<1>2. ListOK'
  BY StartLoadType DEF AnswerDelete
<1> QED
  BY <1>1, <1>2 DEF AnswerDelete, server, TypeOK, ServerOK, DelOK

LEMMA NextType == TypeOK /\ [Next]_vars => TypeOK'
<1> SUFFICES ASSUME TypeOK, [Next]_vars PROVE TypeOK'
  OBVIOUS
<1>1. CASE Others \/ User \/ Tick \/ Event \/ ServeDelete \/ DeleteRejected \/ AnswerDelete
  BY <1>1, OthersType, ButtonType, ClickType, TickType, EventType, AnswerType DEF User
<1>2. ASSUME NEW c \in Calls, Steps(c) PROVE TypeOK'
  BY <1>2, StepType
<1>3. ASSUME NEW l \in Loads, LoadProgress(l) \/ ListFails(l) PROVE TypeOK'
  BY <1>3, ListType
<1>4. CASE UNCHANGED vars
  BY <1>4 DEF vars, server, panelVars, listVars, TypeOK, ServerOK, PanelOK, ListOK, DelOK
<1> QED
  BY <1>1, <1>2, <1>3, <1>4 DEF Next, Steps
-----------------------------------------------------------------------------
(* The invariant is inductive.                                             *)

LEMMA InitIInv == Init => IInv
<1> SUFFICES ASSUME Init PROVE IInv
  OBVIOUS
<1>1. TypeOK
  BY InitType
<1>2. \A c \in Calls : detail[c] = Idle
  BY DEF Init
<1>3. \A l \in Loads : load[l].at # "answer"
  BY DEF Init, Idle, Asked
<1>4. AllKnown
  BY <1>2, <1>3 DEF Init, AllKnown, ListKnown, PanelKnown, Busy
<1>5. (\A c \in Calls : Grown(detail[c])) /\ Alone
  BY <1>2, IdleIsFine DEF Alone, Busy
<1>6. ShownOrComing
  BY PageAssumption DEF Init, ShownOrComing, LiveIds
<1> QED
  BY <1>1, <1>4, <1>5, <1>6 DEF IInv

\* Indicators come and go once, and enrichments are added until then.
Onward ==
    \A i \in Ioc :
        /\ Known(i) => Known(i)'
        /\ Known(i) /\ reg'[i] = "live" => reg[i] = "live" /\ rows[i] <= rows'[i]
        /\ reg[i] = "gone" => reg'[i] = "gone"

LEMMA SameServerOnward == ASSUME TypeOK, UNCHANGED server PROVE Onward
BY DEF TypeOK, ServerOK, server, Onward, Known

LEMMA RemovedOnward == ASSUME TypeOK, NEW i \in Ioc, reg[i] = "live", Removed(i) PROVE Onward
BY DEF TypeOK, ServerOK, Removed, Onward, Known

\* What others do to the server leaves what the page knows true.
LEMMA PanelStays ==
    ASSUME IInv, TypeOK', UNCHANGED panelVars, Onward, ListKnown' PROVE IInv'
<1>0. TypeOK /\ PanelOK /\ UNCHANGED <<selected, lastSig, panel, detail, trust>>
  BY DEF IInv, TypeOK, panelVars
<1>1. \A c \in Calls : Busy(c) => detail[c].id \in Ioc /\ Known(detail[c].id)
  BY <1>0, CallIs DEF IInv, AllKnown, PanelKnown
<1>2. PanelKnown'
  BY <1>0, <1>1 DEF IInv, AllKnown, PanelKnown, PanelOK, Busy, Onward
<1>3. ASSUME NEW c \in Calls PROVE Grown(detail[c])'
  <2>1. CASE ~Busy(c)
    BY <2>1, <1>0, IdleIsFine DEF Busy, Grown, Idle
  <2>2. CASE Busy(c)
    <3>1. Grown(detail[c])
      BY DEF IInv
    <3>2. detail[c].at \in {"answer", "pivots", "drawing"} => detail[c].n \in Nat
      BY <1>0, CallIs DEF Answered, Pivoting, Drawing
    <3>3. rows[detail[c].id] \in Nat /\ rows'[detail[c].id] \in Nat
      BY <1>0, <1>1, <2>2 DEF TypeOK, ServerOK
    <3> QED
      BY <3>1, <3>2, <3>3, <1>0, <1>1, <2>2 DEF Grown, Onward
  <2> QED
    BY <2>1, <2>2
<1>4. Alone'
  <2>1. ASSUME NEW c \in Calls, Undisturbed(detail[c], selected, lastSig)
        PROVE  Undisturbed(detail[c], selected, lastSig)'
    <3>1. CASE ~Busy(c)
      BY <3>1, <1>0 DEF Busy, Undisturbed, Idle
    <3>2. CASE Busy(c)
      BY <3>2, <2>1, <1>0, <1>1 DEF Undisturbed, Onward
    <3> QED
      BY <3>1, <3>2
  <2> QED
    BY <2>1, <1>0 DEF IInv, Alone, Busy
<1>5. ShownOrComing'
  <2> SUFFICES ASSUME trust = "kept", NEW i \in Ioc, reg'[i] = "live", NEW n \in Nat,
                      selected = i, lastSig = <<i, n>>
               PROVE  ShowsIn(panel, i, n) \/ \E c \in Calls : Draws(detail[c], i, n)
    BY <1>0 DEF ShownOrComing, LiveIds
  <2>1. Known(i)
    BY PageAssumption DEF IInv, AllKnown, PanelKnown
  <2>2. i \in LiveIds
    BY <2>1 DEF Onward, LiveIds
  <2> QED
    BY <2>2 DEF IInv, ShownOrComing
<1> QED
  BY <1>2, <1>3, <1>4, <1>5 DEF IInv, AllKnown

LEMMA SameListKnown ==
    ASSUME IInv, Onward, UNCHANGED listVars PROVE ListKnown'
<1>1. list \subseteq Ioc /\ \A l \in Loads : load[l].at = "answer" => load[l].ids \subseteq Ioc
  BY LoadIs DEF IInv, TypeOK, ListOK
<1> QED
  BY <1>1 DEF IInv, AllKnown, ListKnown, Onward, listVars

LEMMA StartLoadKnown ==
    ASSUME IInv, UNCHANGED server, StartLoad PROVE ListKnown'
<1>1. \A l \in Loads : load'[l].at = "answer" => load'[l] = load[l]
  <2>1. load \in [Loads -> {Idle, Asked} \cup Listed]
    BY DEF IInv, TypeOK, ListOK
  <2> QED
    BY <2>1 DEF StartLoad, Asked
<1> QED
  BY <1>1 DEF IInv, AllKnown, ListKnown, Known, StartLoad, server

LEMMA OthersKeep == IInv /\ Others => IInv'
<1> SUFFICES ASSUME IInv, NEW i \in Ioc, AddIOC(i) \/ Enrich(i) \/ DeleteIOC(i) PROVE IInv'
  BY DEF Others
<1>1. TypeOK /\ TypeOK'
  BY OthersType DEF IInv, Others
<1>2. UNCHANGED panelVars /\ UNCHANGED listVars
  BY DEF AddIOC, Enrich, DeleteIOC
<1>3. Onward
  <2>1. CASE AddIOC(i)
    BY <2>1, <1>1 DEF AddIOC, TypeOK, ServerOK, Onward, Known
  <2>2. CASE Enrich(i)
    BY <2>2, <1>1 DEF Enrich, TypeOK, ServerOK, Onward, Known
  <2>3. CASE DeleteIOC(i)
    BY <2>3, <1>1, RemovedOnward DEF DeleteIOC
  <2> QED
    BY <2>1, <2>2, <2>3
<1> QED
  BY <1>1, <1>2, <1>3, PanelStays, SameListKnown

LEMMA ButtonKeeps == IInv /\ (ClickDelete \/ ServeDelete \/ DeleteRejected) => IInv'
<1> SUFFICES ASSUME IInv, ClickDelete \/ ServeDelete \/ DeleteRejected PROVE IInv'
  OBVIOUS
<1>1. TypeOK /\ TypeOK'
  BY ButtonType DEF IInv
<1>2. UNCHANGED panelVars /\ UNCHANGED listVars
  BY DEF ClickDelete, ServeDelete, DeleteRejected
<1>3. Onward
  <2>1. CASE UNCHANGED server
    BY <2>1, <1>1, SameServerOnward
  <2>2. CASE ServeDelete /\ reg[del.id] = "live" /\ Removed(del.id)
    <3>1. del.id \in Ioc
      BY <2>2, <1>1 DEF ServeDelete, TypeOK, DelOK, Idle, Deleting
    <3> QED
      BY <3>1, <2>2, <1>1, RemovedOnward
  <2> QED
    BY <2>1, <2>2 DEF ClickDelete, ServeDelete, DeleteRejected
<1> QED
  BY <1>1, <1>2, <1>3, PanelStays, SameListKnown

LEMMA EventKeeps == IInv /\ Event => IInv'
<1> SUFFICES ASSUME IInv, Event PROVE IInv'
  OBVIOUS
<1>1. TypeOK /\ TypeOK'
  BY EventType DEF IInv
<1>2. Onward /\ ListKnown'
  BY <1>1, SameServerOnward, StartLoadKnown DEF Event
<1> QED
  BY <1>1, <1>2, PanelStays DEF Event

LEMMA ListKeeps ==
    ASSUME NEW l \in Loads PROVE IInv /\ (LoadProgress(l) \/ ListFails(l)) => IInv'
<1> SUFFICES ASSUME IInv, LoadProgress(l) \/ ListFails(l) PROVE IInv'
  OBVIOUS
<1>1. TypeOK /\ TypeOK'
  BY ListType DEF IInv
<1>2. UNCHANGED server /\ UNCHANGED panelVars
  BY DEF LoadProgress, ListIocs, ShowList, ListFails
<1>3. ListKnown'
  <2>0. load \in [Loads -> {Idle, Asked} \cup Listed] /\ Idle.at # "answer"
    BY <1>1 DEF TypeOK, ListOK, Idle
  <2>1. CASE ListIocs(l)
    BY <2>0, <2>1, <1>2 DEF ListIocs, LiveIds, Known, IInv, AllKnown, ListKnown, server
  <2>2. CASE ShowList(l)
    BY <2>0, <2>2, <1>2 DEF ShowList, Known, IInv, AllKnown, ListKnown, server
  <2>3. CASE ListFails(l)
    BY <2>0, <2>3, <1>2 DEF ListFails, Known, IInv, AllKnown, ListKnown, server
  <2> QED
    BY <2>1, <2>2, <2>3 DEF LoadProgress
<1> QED
  BY <1>1, <1>2, <1>3, SameServerOnward, PanelStays
-----------------------------------------------------------------------------
(* The steps of a call.                                                    *)

\* With the signature sig and panel p after its step, a call that goes on as r
\* leaves what is shown or coming true.
Leaves(r, p, sig) ==
    \A i \in LiveIds, n \in Nat :
        selected = i /\ sig = <<i, n>> => ShowsIn(p, i, n) \/ Draws(r, i, n)

\* A call c goes on as r.
LEMMA CallStep ==
    ASSUME IInv, TypeOK', NEW c \in Calls, NEW r \in Call, Busy(c), Becomes(c, r),
           UNCHANGED <<server, selected, listVars>>,
           r # Idle => r.id = detail[c].id,
           Grown(r),
           \/ trust' = "broken"
           \/ /\ trust # "broken" /\ Undisturbed(r, selected, lastSig')
              /\ trust' = "kept" => Leaves(r, panel', lastSig')
    PROVE  IInv'
<1>0. TypeOK /\ PanelOK
  BY DEF IInv, TypeOK
<1>1. detail' = [detail EXCEPT ![c] = r] /\ detail \in [Calls -> Call]
  BY <1>0 DEF Becomes, PanelOK
<1>2. \A d \in Calls : d # c => detail'[d] = detail[d]
  BY <1>1
<1>3. detail'[c] = r
  BY <1>1
<1>4. UNCHANGED <<reg, rows, selected, list, lastList, load>>
  BY DEF server, listVars
<1>5. AllKnown'
  <2>1. ListKnown'
    BY <1>4 DEF IInv, AllKnown, ListKnown, Known
  <2>2. PanelKnown'
    BY <1>2, <1>3, <1>4 DEF IInv, AllKnown, PanelKnown, Known, Busy
  <2> QED
    BY <2>1, <2>2 DEF AllKnown
<1>6. ASSUME NEW d \in Calls PROVE Grown(detail[d])'
  <2>1. Grown(detail[d]) /\ Grown(r)
    BY DEF IInv
  <2> QED
    BY <2>1, <1>2, <1>3, <1>4 DEF Grown
<1>7. Alone'
  <2> SUFFICES ASSUME trust' # "broken"
               PROVE  /\ \A a, b \in Calls : Busy(a)' /\ Busy(b)' => a = b
                      /\ \A a \in Calls : Undisturbed(detail[a], selected, lastSig)'
    BY DEF Alone
  <2>1. \A a \in Calls : a # c => ~Busy(a)
    BY DEF IInv, Alone
  <2>2. \A a \in Calls : a # c => detail'[a] = Idle
    BY <2>1, <1>2 DEF Busy
  <2>3. Undisturbed(r, selected', lastSig')
    BY <1>4
  <2> QED
    BY <2>2, <2>3, <1>3, <1>4, IdleIsFine DEF Busy, Undisturbed, Idle
<1>8. ShownOrComing'
  <2> SUFFICES ASSUME trust' = "kept", NEW i \in Ioc, reg[i] = "live", NEW n \in Nat,
                      selected = i, lastSig' = <<i, n>>
               PROVE  ShowsIn(panel', i, n) \/ \E d \in Calls : Draws(detail'[d], i, n)
    BY <1>4 DEF ShownOrComing, LiveIds, ShowsIn, Draws
  <2>1. ShowsIn(panel', i, n) \/ Draws(r, i, n)
    BY DEF Leaves, LiveIds
  <2> QED
    BY <2>1, <1>3
<1> QED
  BY <1>5, <1>6, <1>7, <1>8 DEF IInv

\* While trust is kept, a call alone and the panel answer for a stored signature.
LEMMA AloneLeaves ==
    ASSUME IInv, NEW c \in Calls, Busy(c), trust = "kept" PROVE Leaves(detail[c], panel, lastSig)
<1>1. \A d \in Calls : d # c => detail[d] = Idle
  BY DEF IInv, Alone, Busy
<1> QED
  BY <1>1, IdleIsFine DEF IInv, ShownOrComing, Leaves

LEMMA ReadKeeps ==
    ASSUME NEW c \in Calls PROVE IInv /\ (GetIocReads(c) \/ GetIocReadsRows(c)) => IInv'
<1> SUFFICES ASSUME IInv, GetIocReads(c) \/ GetIocReadsRows(c) PROVE IInv'
  OBVIOUS
<1>1. TypeOK /\ TypeOK' /\ PanelOK /\ ServerOK
  BY StepType DEF Steps, Progress, IInv, TypeOK
<1>2. Busy(c) /\ detail[c] \in Reading
  BY <1>1, CallIs DEF GetIocReads, GetIocReadsRows
<1>3. /\ UNCHANGED <<server, selected, listVars>>
      /\ UNCHANGED <<panel, lastSig, trust>>
  BY DEF GetIocReads, GetIocReadsRows
<1>4. trust # "broken" => Undisturbed(detail[c], selected, lastSig)
  BY DEF IInv, Alone
<1>5. trust = "kept" => Leaves(detail[c], panel, lastSig)
  BY <1>2, AloneLeaves
<1>6. detail[c].id \in Ioc /\ Known(detail[c].id)
  BY <1>2 DEF IInv, AllKnown, PanelKnown, Reading
<1>7. CASE GetIocReads(c) /\ reg[detail[c].id] = "live"
  <2> PICK r \in Call : r = [detail[c] EXCEPT !.at = "rows"]
    BY <1>2 DEF Reading, Call
  <2>1. r.at = "rows" /\ r.id = detail[c].id /\ r.force = detail[c].force
    BY <1>2 DEF Reading
  <2>2. Becomes(c, r)
    BY <1>7 DEF GetIocReads
  <2>3. Grown(r)
    BY <2>1 DEF Grown
  <2>4. trust # "broken" => Undisturbed(r, selected, lastSig)
    BY <1>2, <1>4, <2>1 DEF Undisturbed, Busy
  <2>5. trust = "kept" => Leaves(r, panel, lastSig)
    <3>1. detail[c].at = "ioc"
      BY <1>7 DEF GetIocReads
    <3>2. \A i, n : Draws(detail[c], i, n) => Draws(r, i, n)
      BY <2>1, <3>1 DEF Draws, Idle
    <3> QED
      BY <1>5, <3>2 DEF Leaves
  <2> QED
    BY <1>1, <1>2, <1>3, <2>1, <2>2, <2>3, <2>4, <2>5, CallStep
<1>8. CASE GetIocReads(c) /\ reg[detail[c].id] # "live"
  <2> PICK r \in Call : r = [at |-> "failed", id |-> detail[c].id]
    BY <1>6 DEF Failed, Call
  <2>1. r.at = "failed" /\ r.id = detail[c].id
    OBVIOUS
  <2>2. Becomes(c, r)
    BY <1>8 DEF GetIocReads
  <2>3. reg[r.id] = "gone"
    BY <1>1, <1>6, <1>8, <2>1 DEF ServerOK, Known
  <2>4. Grown(r)
    BY <2>1 DEF Grown
  <2>5. trust # "broken" => Undisturbed(r, selected, lastSig)
    BY <1>2, <1>4, <2>1, <2>3 DEF Undisturbed, Busy
  <2>6. trust # "broken" => Leaves(r, panel, lastSig)
    <3> SUFFICES ASSUME trust # "broken", NEW i \in LiveIds, selected = i PROVE FALSE
      BY DEF Leaves
    <3>1. selected = r.id
      BY <1>2, <1>4, <2>1, PageAssumption DEF Undisturbed, Busy, LiveIds
    <3> QED
      BY <3>1, <2>3 DEF LiveIds
  <2> QED
    BY <1>1, <1>2, <1>3, <2>1, <2>2, <2>4, <2>5, <2>6, CallStep
<1>9. CASE GetIocReadsRows(c)
  <2> PICK r \in Call : r = [at |-> "answer", id |-> detail[c].id, force |-> detail[c].force,
                             n |-> rows[detail[c].id]]
    BY <1>1, <1>2 DEF ServerOK, Reading, Answered, Call
  <2>1. /\ r.at = "answer" /\ r.id = detail[c].id /\ r.force = detail[c].force
        /\ r.n = rows[detail[c].id]
    OBVIOUS
  <2>2. Becomes(c, r)
    BY <1>9 DEF GetIocReadsRows
  <2>3. Grown(r)
    BY <1>1, <1>6, <2>1 DEF Grown, ServerOK
  <2>4. trust # "broken" => Undisturbed(r, selected, lastSig)
    BY <1>2, <1>4, <2>1 DEF Undisturbed, Busy
  <2>5. trust = "kept" => Leaves(r, panel, lastSig)
    <3>1. detail[c].at = "rows"
      BY <1>9 DEF GetIocReadsRows
    <3>2. \A i, n : Draws(detail[c], i, n) => Draws(r, i, n)
      BY <2>1, <3>1 DEF Draws, Idle
    <3> QED
      BY <1>5, <3>2 DEF Leaves
  <2> QED
    BY <1>1, <1>2, <1>3, <2>1, <2>2, <2>3, <2>4, <2>5, CallStep
<1> QED
  BY <1>7, <1>8, <1>9

LEMMA FailKeeps ==
    ASSUME NEW c \in Calls
    PROVE  IInv /\ (GetIocFails(c) \/ GetPivotsFails(c) \/ Reject(c)) => IInv'
<1> SUFFICES ASSUME IInv, GetIocFails(c) \/ GetPivotsFails(c) \/ Reject(c) PROVE IInv'
  OBVIOUS
<1>1. TypeOK /\ TypeOK' /\ PanelOK
  BY StepType DEF Steps, IInv, TypeOK
<1>2. UNCHANGED <<server, selected, listVars>> /\ trust' = "broken"
  BY DEF GetIocFails, GetPivotsFails, Reject
<1>3. Grown(detail[c])
  BY DEF IInv
<1>4. CASE GetIocFails(c)
  <2>1. Busy(c) /\ detail[c] \in Reading
    BY <1>1, <1>4, CallIs DEF GetIocFails
  <2> PICK r \in Call : r = [at |-> "failed", id |-> detail[c].id]
    BY <2>1 DEF Reading, Failed, Call
  <2> QED
    BY <1>1, <1>2, <1>4, <2>1, CallStep DEF GetIocFails, Grown
<1>5. CASE GetPivotsFails(c)
  <2>1. Busy(c) /\ detail[c] \in Pivoting
    BY <1>1, <1>5, CallIs DEF GetPivotsFails, PivotsCome
  <2> PICK r \in Call : r = [at |-> "drawing", id |-> detail[c].id, n |-> detail[c].n,
                             piv |-> None]
    BY <2>1 DEF Pivoting, Drawing, Call
  <2>2. Grown(r)
    BY <1>3, <2>1 DEF Grown, Pivoting
  <2>3. Becomes(c, r) /\ r.id = detail[c].id
    BY <1>5 DEF GetPivotsFails, PivotsCome
  <2> QED
    BY <1>1, <1>2, <2>1, <2>2, <2>3, CallStep
<1>6. CASE Reject(c)
  <2> PICK r \in Call : r = Idle
    BY DEF Call
  <2> QED
    BY <1>1, <1>2, <1>6, IdleIsFine, CallStep DEF Reject
<1> QED
  BY <1>4, <1>5, <1>6

\* The panel with the failure in it: the selected indicator is gone.
LEMMA FailureKeeps ==
    ASSUME NEW c \in Calls PROVE IInv /\ (ShowFailure(c) \/ SkipDrawing(c)) => IInv'
<1> SUFFICES ASSUME IInv, ShowFailure(c) \/ SkipDrawing(c) PROVE IInv'
  OBVIOUS
<1>1. TypeOK /\ TypeOK' /\ PanelOK
  BY StepType DEF Steps, Progress, IInv, TypeOK
<1>2. Busy(c)
  BY <1>1, CallIs DEF ShowFailure, SkipDrawing
<1> PICK r \in Call : r = Idle
  BY DEF Call
<1>3. Becomes(c, r) /\ UNCHANGED <<server, selected, listVars>> /\ UNCHANGED <<lastSig, trust>>
  BY DEF ShowFailure, SkipDrawing
<1>4. trust # "broken" => Undisturbed(detail[c], selected, lastSig)
  BY DEF IInv, Alone
<1>5. trust = "kept" => Leaves(r, panel', lastSig)
  <2> SUFFICES ASSUME trust = "kept", NEW i \in LiveIds, NEW n \in Nat, selected = i,
                      lastSig = <<i, n>>
               PROVE  ShowsIn(panel', i, n)
    BY DEF Leaves
  <2>1. selected = detail[c].id
    BY <1>2, <1>4, PageAssumption DEF Undisturbed, Busy, LiveIds
  <2>2. CASE ShowFailure(c)
    <3>1. reg[selected] = "gone"
      BY <2>1, <2>2, <1>4 DEF ShowFailure, Undisturbed
    <3> QED
      BY <3>1 DEF LiveIds
  <2>3. CASE SkipDrawing(c)
    <3>1. detail[c].at = "answer" /\ ~detail[c].force
      BY <2>3 DEF SkipDrawing, Unchanged
    <3>2. ~Draws(detail[c], i, n)
      BY <3>1 DEF Draws
    <3>3. ShowsIn(panel, i, n)
      BY <1>2, <3>2, AloneLeaves DEF Leaves
    <3> QED
      BY <2>3, <3>3 DEF SkipDrawing
  <2> QED
    BY <2>2, <2>3
<1> QED
  BY <1>1, <1>2, <1>3, <1>4, <1>5, IdleIsFine, CallStep

LEMMA StoreKeeps == ASSUME NEW c \in Calls PROVE IInv /\ StoreSig(c) => IInv'
<1> SUFFICES ASSUME IInv, StoreSig(c) PROVE IInv'
  OBVIOUS
<1>1. TypeOK /\ TypeOK' /\ PanelOK
  BY StepType DEF Steps, Progress, IInv, TypeOK
<1>2. Busy(c) /\ detail[c] \in Answered
  BY <1>1, CallIs DEF StoreSig
<1> PICK r \in Call : r = [at |-> "pivots", id |-> detail[c].id, n |-> detail[c].n]
  BY <1>2 DEF Answered, Pivoting, Call
<1>3. r.at = "pivots" /\ r.id = detail[c].id /\ r.n = detail[c].n /\ r # Idle
  BY DEF Idle
<1>4. /\ Becomes(c, r) /\ UNCHANGED <<server, selected, listVars>> /\ UNCHANGED trust
      /\ lastSig' = <<r.id, r.n>> /\ detail[c].at = "answer"
  BY <1>3 DEF StoreSig, DetailSig
<1>5. Grown(r)
  <2>1. Grown(detail[c])
    BY DEF IInv
  <2> QED
    BY <1>3, <1>4, <2>1 DEF Grown
<1>6. trust # "broken" => Undisturbed(r, selected, lastSig')
  <2>1. trust # "broken" => Undisturbed(detail[c], selected, lastSig)
    BY DEF IInv, Alone
  <2> QED
    BY <1>2, <1>3, <1>4, <2>1 DEF Undisturbed, Busy
<1>7. Leaves(r, panel', lastSig')
  BY <1>3, <1>4, SigsDiffer DEF Leaves, Draws
<1> QED
  BY <1>1, <1>2, <1>3, <1>4, <1>5, <1>6, <1>7, CallStep

LEMMA PivotsKeep == ASSUME NEW c \in Calls PROVE IInv /\ GetPivotsReads(c) => IInv'
<1> SUFFICES ASSUME IInv, GetPivotsReads(c) PROVE IInv'
  OBVIOUS
<1>1. TypeOK /\ TypeOK' /\ PanelOK /\ ServerOK
  BY StepType DEF Steps, Progress, IInv, TypeOK
<1>2. Busy(c) /\ detail[c] \in Pivoting /\ detail[c].at = "pivots"
  BY <1>1, CallIs DEF GetPivotsReads, PivotsCome
<1>3. detail[c].id \in Ioc /\ Known(detail[c].id) /\ rows[detail[c].id] \in Nat
  BY <1>1, <1>2 DEF IInv, AllKnown, PanelKnown, Pivoting, ServerOK
<1> PICK r \in Call : r = [at |-> "drawing", id |-> detail[c].id, n |-> detail[c].n,
                           piv |-> IF reg[detail[c].id] = "live" THEN rows[detail[c].id] ELSE None]
  BY <1>2, <1>3 DEF Pivoting, Drawing, Call
<1>4. /\ r.at = "drawing" /\ r.id = detail[c].id /\ r.n = detail[c].n /\ r # Idle
      /\ r.piv = IF reg[detail[c].id] = "live" THEN rows[detail[c].id] ELSE None
  BY DEF Idle
<1>5. Becomes(c, r) /\ UNCHANGED <<server, selected, listVars>> /\ UNCHANGED <<trust, panel, lastSig>>
  BY DEF GetPivotsReads, PivotsCome
<1>6. Grown(r)
  <2>1. Grown(detail[c])
    BY DEF IInv
  <2> QED
    BY <1>2, <1>4, <2>1 DEF Grown
<1>7. trust # "broken" => Undisturbed(r, selected, lastSig)
  <2>1. trust # "broken" => Undisturbed(detail[c], selected, lastSig)
    BY DEF IInv, Alone
  <2>2. reg[r.id] # "live" => reg[r.id] = "gone"
    BY <1>1, <1>3, <1>4 DEF ServerOK, Known
  <2>3. r.piv = None => reg[r.id] # "live"
    BY <1>3, <1>4, PageAssumption
  <2> QED
    BY <1>2, <1>4, <2>1, <2>2, <2>3 DEF Undisturbed, Busy
<1>8. trust = "kept" => Leaves(r, panel, lastSig)
  <2>1. \A i, n : Draws(detail[c], i, n) => Draws(r, i, n)
    BY <1>2, <1>4 DEF Draws
  <2> QED
    BY <1>2, <2>1, AloneLeaves DEF Leaves
<1> QED
  BY <1>1, <1>2, <1>4, <1>5, <1>6, <1>7, <1>8, CallStep

LEMMA DrawKeeps == ASSUME NEW c \in Calls PROVE IInv /\ Draw(c) => IInv'
<1> SUFFICES ASSUME IInv, Draw(c) PROVE IInv'
  OBVIOUS
<1>1. TypeOK /\ TypeOK' /\ PanelOK
  BY StepType DEF Steps, Progress, IInv, TypeOK
<1>2. Busy(c) /\ detail[c] \in Drawing /\ detail[c].at = "drawing"
  BY <1>1, CallIs DEF Draw
<1> PICK r \in Call : r = Idle
  BY DEF Call
<1>3. Becomes(c, r) /\ UNCHANGED <<server, selected, listVars>> /\ UNCHANGED lastSig
  BY DEF Draw
<1>4. /\ panel' = [id |-> detail[c].id, n |-> detail[c].n, piv |-> detail[c].piv]
      /\ panel'.id = detail[c].id /\ panel'.n = detail[c].n /\ panel'.piv = detail[c].piv
      /\ panel' # Blank
  BY DEF Draw, Blank
<1>5. CASE trust = "broken"
  <2>1. trust' = "broken"
    BY <1>5 DEF Draw
  <2> QED
    BY <2>1, <1>1, <1>2, <1>3, IdleIsFine, CallStep
<1>6. CASE trust # "broken"
  <2>1. Undisturbed(detail[c], selected, lastSig) /\ Grown(detail[c])
    BY <1>6 DEF IInv, Alone
  <2>2. trust' = "kept" => Leaves(r, panel', lastSig')
    <3> SUFFICES ASSUME NEW i \in LiveIds, NEW n \in Nat, selected = i, lastSig = <<i, n>>
                 PROVE  ShowsIn(panel', i, n)
      BY <1>3 DEF Leaves
    <3>1. detail[c].id = i /\ detail[c].n = n
      BY <1>2, <2>1, SigsDiffer DEF Undisturbed
    <3>2. detail[c].piv # None
      BY <1>2, <2>1, <3>1 DEF Undisturbed, LiveIds
    <3>3. detail[c].piv >= n
      BY <1>2, <2>1, <3>1, <3>2 DEF Grown
    <3> QED
      BY <1>4, <3>1, <3>2, <3>3 DEF ShowsIn
  <2> QED
    BY <1>1, <1>2, <1>3, <1>6, <2>2, IdleIsFine, CallStep
<1> QED
  BY <1>5, <1>6
-----------------------------------------------------------------------------
(* Calls that start, and the delete button's answer.                       *)

\* A call started next to another breaks the trust; one started alone draws unless
\* the panel shows the selected indicator already.
LEMMA StartKeeps ==
    ASSUME IInv, TypeOK', NEW c \in Calls, NEW i \in Ioc, NEW force \in BOOLEAN, Known(i),
           StartDetail(c, i, force), UNCHANGED server, ListKnown'
    PROVE  IInv'
<1>0. TypeOK /\ PanelOK /\ detail \in [Calls -> Call]
  BY DEF IInv, TypeOK, PanelOK
<1> PICK r : r = Waiting(i, force \/ selected # i)
  OBVIOUS
<1>1. r.at = "ioc" /\ r.id = i /\ (r.force <=> (force \/ selected # i)) /\ r # Idle
  BY DEF Waiting, Idle
<1>2. /\ detail' = [detail EXCEPT ![c] = r] /\ selected' = i
      /\ UNCHANGED <<reg, rows, lastSig, panel>> /\ ~Busy(c)
  BY DEF StartDetail, Free, server
<1>3. detail'[c] = r /\ \A d \in Calls : d # c => detail'[d] = detail[d]
  BY <1>0, <1>2
<1>4. PanelKnown'
  <2>1. Known(selected)'
    BY <1>2 DEF Known
  <2>2. ASSUME NEW d \in Calls, Busy(d)' PROVE Known(detail[d].id)'
    <3>1. CASE d = c
      BY <3>1, <1>1, <1>2, <1>3 DEF Known
    <3>2. CASE d # c
      BY <2>2, <3>2, <1>2, <1>3 DEF IInv, AllKnown, PanelKnown, Known, Busy
    <3> QED
      BY <3>1, <3>2
  <2> QED
    BY <2>1, <2>2 DEF PanelKnown
<1>5. ASSUME NEW d \in Calls PROVE Grown(detail[d])'
  <2>1. Grown(detail[d]) /\ Grown(r)
    BY <1>1 DEF IInv, Grown
  <2> QED
    BY <2>1, <1>2, <1>3 DEF Grown
<1>6. Alone' /\ ShownOrComing'
  <2>1. CASE \E d \in Calls : Busy(d)
    <3>1. trust' = "broken"
      BY <2>1 DEF StartDetail
    <3> QED
      BY <3>1 DEF Alone, ShownOrComing
  <2>2. CASE \A d \in Calls : ~Busy(d)
    <3>1. \A d \in Calls : d # c => detail'[d] = Idle
      BY <2>2, <1>3 DEF Busy
    <3>2. Undisturbed(r, i, lastSig)
      BY <1>1 DEF Undisturbed
    <3>3. Alone'
      <4>1. \A d \in Calls : Busy(d)' => d = c
        BY <3>1 DEF Busy
      <4>2. Undisturbed(detail[c], selected, lastSig)'
        BY <3>2, <1>2, <1>3 DEF Undisturbed
      <4>3. \A d \in Calls : d # c => Undisturbed(detail[d], selected, lastSig)'
        BY <3>1 DEF Undisturbed, Idle
      <4> QED
        BY <4>1, <4>2, <4>3 DEF Alone
    <3>4. ShownOrComing'
      <4> SUFFICES ASSUME trust' = "kept", reg[i] = "live", NEW n \in Nat, lastSig = <<i, n>>
                   PROVE  ShowsIn(panel, i, n) \/ Draws(r, i, n)
        BY <1>2, <1>3 DEF ShownOrComing, LiveIds, ShowsIn, Draws
      <4>1. trust = "kept"
        BY <2>2 DEF StartDetail
      <4>2. CASE r.force
        BY <4>2, <1>1 DEF Draws
      <4>3. CASE ~r.force
        <5>1. selected = i
          BY <4>3, <1>1
        <5>2. \A d \in Calls : ~Draws(detail[d], i, n)
          BY <2>2, IdleIsFine DEF Busy
        <5> QED
          BY <5>1, <5>2, <4>1 DEF IInv, ShownOrComing, LiveIds
      <4> QED
        BY <4>2, <4>3
    <3> QED
      BY <3>3, <3>4
  <2> QED
    BY <2>1, <2>2
<1> QED
  BY <1>4, <1>5, <1>6 DEF IInv, AllKnown

LEMMA ClickKeeps == ASSUME NEW c \in Calls, NEW i \in Ioc PROVE IInv /\ Click(c, i) => IInv'
<1> SUFFICES ASSUME IInv, Click(c, i) PROVE IInv'
  OBVIOUS
<1>1. TypeOK /\ TypeOK'
  BY ClickType DEF IInv
<1>2. Known(i)
  BY DEF Click, IInv, AllKnown, ListKnown, Known
<1>3. ListKnown'
  BY <1>1, SameServerOnward, SameListKnown DEF Click
<1> QED
  BY <1>1, <1>2, <1>3, StartKeeps DEF Click

LEMMA TickKeeps == IInv /\ Tick => IInv'
<1> SUFFICES ASSUME IInv, Tick PROVE IInv'
  OBVIOUS
<1>1. TypeOK /\ TypeOK' /\ Onward
  BY TickType, SameServerOnward DEF IInv, Tick
<1>2. ListKnown'
  BY StartLoadKnown DEF Tick
<1>3. CASE UNCHANGED panelVars
  BY <1>1, <1>2, <1>3, PanelStays
<1>4. ASSUME NEW c \in Calls, StartDetail(c, selected, FALSE), selected # None PROVE IInv'
  <2> PICK i \in Ioc : i = selected
    BY <1>1, <1>4 DEF TypeOK, PanelOK
  <2>1. Known(i)
    BY <1>4 DEF IInv, AllKnown, PanelKnown
  <2>2. StartDetail(c, i, FALSE)
    BY <1>4
  <2> QED
    BY <1>1, <1>2, <2>1, <2>2, StartKeeps DEF Tick
<1> QED
  BY <1>3, <1>4 DEF Tick

LEMMA AnswerKeeps == IInv /\ AnswerDelete => IInv'
<1> SUFFICES ASSUME IInv, AnswerDelete PROVE IInv'
  OBVIOUS
<1>1. TypeOK /\ TypeOK'
  BY AnswerType DEF IInv
<1>2. /\ selected' = None /\ lastSig' = NoSig /\ UNCHANGED <<reg, rows, detail, trust>>
      /\ UNCHANGED server
  BY DEF AnswerDelete, server
<1>3. AllKnown'
  <2>1. ListKnown'
    BY StartLoadKnown DEF AnswerDelete
  <2> QED
    BY <1>2, <2>1 DEF IInv, AllKnown, PanelKnown, Known, Busy
<1>4. \A c \in Calls : Grown(detail[c])'
  BY <1>2 DEF IInv, Grown
<1>5. Alone'
  BY <1>2 DEF IInv, Alone, Undisturbed, Busy
<1>6. ShownOrComing'
  BY <1>2, PageAssumption DEF ShownOrComing, LiveIds
<1> QED
  BY <1>1, <1>3, <1>4, <1>5, <1>6 DEF IInv

LEMMA StutterKeeps == IInv /\ UNCHANGED vars => IInv'
<1> SUFFICES ASSUME IInv, UNCHANGED vars PROVE IInv'
  OBVIOUS
<1>1. UNCHANGED server /\ UNCHANGED panelVars /\ UNCHANGED listVars
  BY DEF vars
<1>2. TypeOK /\ TypeOK'
  BY NextType DEF IInv
<1> QED
  BY <1>1, <1>2, SameServerOnward, SameListKnown, PanelStays

LEMMA NextIInv == IInv /\ [Next]_vars => IInv'
<1> SUFFICES ASSUME IInv, [Next]_vars PROVE IInv'
  OBVIOUS
<1>1. CASE Others \/ ServeDelete \/ DeleteRejected \/ Event \/ Tick \/ AnswerDelete
  BY <1>1, OthersKeep, ButtonKeeps, EventKeeps, TickKeeps, AnswerKeeps
<1>2. CASE User
  BY <1>2, ClickKeeps, ButtonKeeps DEF User
<1>3. ASSUME NEW c \in Calls, Progress(c) PROVE IInv'
  BY <1>3, ReadKeeps, FailureKeeps, StoreKeeps, PivotsKeep, DrawKeeps DEF Progress
<1>4. ASSUME NEW c \in Calls, GetIocFails(c) \/ GetPivotsFails(c) \/ Reject(c) PROVE IInv'
  BY <1>4, FailKeeps
<1>5. ASSUME NEW l \in Loads, LoadProgress(l) \/ ListFails(l) PROVE IInv'
  BY <1>5, ListKeeps
<1>6. CASE UNCHANGED vars
  BY <1>6, StutterKeeps
<1> QED
  BY <1>1, <1>2, <1>3, <1>4, <1>5, <1>6 DEF Next

LEMMA IInvIsSound == IInv => SkipIsSound
<1> SUFFICES ASSUME IInv, selected \in LiveIds, lastSig # NoSig, lastSig[1] = selected,
                    trust = "kept", \A c \in Calls : ~Busy(c)
             PROVE  Shows(selected, lastSig[2])
  BY DEF SkipIsSound
<1>1. lastSig \in Ioc \X Nat
  BY DEF IInv, TypeOK, PanelOK
<1>2. lastSig = <<selected, lastSig[2]>> /\ lastSig[2] \in Nat
  BY <1>1
<1>3. \A c \in Calls : ~Draws(detail[c], selected, lastSig[2])
  BY IdleIsFine DEF Busy
<1> QED
  BY <1>2, <1>3 DEF IInv, ShownOrComing, ShowsIn, Shows
-----------------------------------------------------------------------------
(* Theorems.                                                               *)

\* The page keeps its types, whatever overlaps and fails.
THEOREM TypeCorrect == Spec => []TypeOK
<1>1. Init => TypeOK
  BY InitType
<1>2. TypeOK /\ [Next]_vars => TypeOK'
  BY NextType
<1> QED
  BY <1>1, <1>2, PTL DEF Spec

\* However many calls of showDetail overlap and fail, a refresh that skips the
\* drawing (index.html:594) leaves the indicator, its enrichments and relations as
\* recent in the panel, once a call has drawn undisturbed since the last of them.
THEOREM SkipsAreSound == Spec => []SkipIsSound
<1>1. Init => IInv
  BY InitIInv
<1>2. IInv /\ [Next]_vars => IInv'
  BY NextIInv
<1>3. IInv => SkipIsSound
  BY IInvIsSound
<1> QED
  BY <1>1, <1>2, <1>3, PTL DEF Spec
=============================================================================
