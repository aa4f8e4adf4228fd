--------------------------- MODULE SourcesProofs ----------------------------
(***************************************************************************)
(* Theorems about Sources, for every set of lists, every TTL, every        *)
(* interval and every bound.                                               *)
(***************************************************************************)
EXTENDS Sources, TLAPS

-----------------------------------------------------------------------------
(* The inductive invariant.                                                *)

\* The wall clock lags behind the time passed by what it was set back at most,
\* so no time noted lies further ahead of it than that.
Clocks ==
    /\ wall + setback >= now
    /\ vtLast <= wall + setback
    /\ \A f \in Feed : cache[f].at <= wall + setback /\ changed[f] >= Epoch

\* Within an era the wall clock measures no more since the last request than
\* has passed.
Measured == last # None /\ last.era = broken => wall - vtLast <= now - last.at

\* Whoever sleeps sleeps long enough, and not too long.
Sleeping ==
    Running("sleep") =>
        /\ call.wake <= call.started + VtInterval + setback
        /\ last # None /\ last.era = broken => call.wake >= last.at + VtInterval

\* The list's server has changed it since a time that list was noted at.
ChangedSince(f, at) == changed[f] + (wall - at) + setback >= now

\* A cached list is what the server would send, or it has changed since.
CacheCurrent ==
    \A f \in Feed :
        cache[f].sound /\ cache[f].list # listing[f] => ChangedSince(f, cache[f].at)

\* List f has not changed since it may have been downloaded for the call.
SettledIn(f) == changed[f] + TTL[f] + setback < call.started

\* The call has consulted the list as the server would send it.
Done(f) == SettledIn(f) => /\ f \in call.hits <=> call.item \in listing[f]
                           /\ cache[f].list = listing[f]

Pending(f) == \E n \in DOMAIN call.todo : call.todo[n] = f

\* The call of an enricher of lists: what it has consulted so far is current.
Looking ==
    call # None /\ call.src \in FeedSource =>
        /\ call.started <= now
        /\ \A n \in DOMAIN call.todo : call.todo[n] \in Consulted(call)
        /\ call.hits \subseteq Consulted(call)
        /\ ~call.excused =>
              \A f \in Consulted(call) :
                 /\ Pending(f) \/ Done(f)
                 /\ f \in call.hits /\ SettledIn(f) => call.item \in listing[f]
        /\ call.step = "download" =>
              /\ call.fetch <= wall + setback
              /\ call.saw # listing[List] => /\ changed[List] >= call.started
                                             /\ ChangedSince(List, call.fetch)

\* Whoever is called has not answered yet.
Silent == call # None => answer = None

IInv ==
    /\ TypeOK
    /\ Clocks
    /\ Measured
    /\ Sleeping
    /\ CacheCurrent
    /\ Looking
    /\ Silent
-----------------------------------------------------------------------------
(* Types.                                                                  *)

\* The types of the fields of the running call.
LEMMA CallTypes ==
    ASSUME TypeOK, call # None
    PROVE  /\ call \in Calls
           /\ call.src \in Caller /\ call.item \in Item
           /\ call.step \in {"consult", "download", "sleep", "wait"}
           /\ call.started \in Nat /\ call.wake \in Nat /\ call.todo \in Seq(Feed)
           /\ call.hits \in SUBSET Feed /\ call.fetch \in Int
           /\ call.saw \in SUBSET Item /\ call.excused \in BOOLEAN
BY DEF TypeOK, Calls

\* The types of the clocks and of what is noted by them.
LEMMA ClockTypes ==
    ASSUME TypeOK
    PROVE  /\ now \in Nat /\ wall \in Int /\ setback \in Nat /\ steps \in Nat
           /\ vtLast \in Int /\ broken \in Nat
           /\ \A f \in Feed : /\ cache[f].at \in Int /\ changed[f] \in Int
                              /\ listing[f] \in SUBSET Item
                              /\ cache[f].sound \in BOOLEAN
           /\ last # None => last.at \in Nat /\ last.era \in Nat /\ last.era <= broken
BY SourcesAssumption DEF TypeOK

\* The lists a call still has to consult.
LEMMA TodoTypes ==
    ASSUME TypeOK, call # None, call.todo # <<>>
    PROVE  /\ List \in Feed /\ List = call.todo[1] /\ 1 \in DOMAIN call.todo
           /\ Tail(call.todo) \in Seq(Feed)
           /\ \A n \in DOMAIN call.todo :
                 n = 1 \/ (n - 1 \in DOMAIN Tail(call.todo) /\ Tail(call.todo)[n - 1] = call.todo[n])
           /\ \A n \in DOMAIN Tail(call.todo) :
                 n + 1 \in DOMAIN call.todo /\ Tail(call.todo)[n] = call.todo[n + 1]
<1>1. call.todo \in Seq(Feed)
  BY CallTypes
<1> QED
  BY <1>1 DEF List

\* The initial states.
LEMMA InitIInv == Init => IInv
<1> SUFFICES ASSUME Init PROVE IInv
  OBVIOUS
<1>1. TypeOK
  BY SourcesAssumption DEF Init, TypeOK, Never
<1>2. Clocks
  BY SourcesAssumption DEF Init, Clocks, Never
<1>3. CacheCurrent
  BY SourcesAssumption DEF Init, CacheCurrent, ChangedSince, Never
<1> QED
  BY <1>1, <1>2, <1>3 DEF Init, IInv, Measured, Sleeping, Running, Looking, Silent
-----------------------------------------------------------------------------
(* What a step that does not touch some of the state keeps.                *)

\* While the clocks, the lists and what is remembered stand still, only the
\* call matters.
LEMMA StandStill ==
    ASSUME IInv, UNCHANGED <<clock, world, memory, history>>
    PROVE  Clocks' /\ Measured' /\ CacheCurrent'
BY DEF IInv, clock, world, memory, history, Clocks, Measured, CacheCurrent, ChangedSince

\* Nothing is demanded of a call that is over.
LEMMA CallOver == ASSUME call' = None PROVE Sleeping' /\ Looking' /\ Silent'
BY DEF Sleeping, Running, Looking, Silent

\* A call of no list and of no sleep.
LEMMA NotLooking ==
    ASSUME TypeOK', call' # None, call'.step \in {"sleep", "wait"}
    PROVE  Looking'
BY DEF TypeOK, Looking

\* A lag that was enough stays enough while the clocks move together.
LEMMA Shift ==
    ASSUME NEW a \in Int, NEW at \in Int, NEW n \in Int, NEW w \in Int, NEW s \in Int,
           NEW m \in Int, NEW v \in Int, NEW t \in Int,
           a + (w - at) + s >= n, m - n <= (v + t) - (w + s)
    PROVE  a + (v - at) + t >= m
OBVIOUS

\* A list that does not change, or changes while the clocks stand still.
OneAtATime(f) ==
    \/ listing'[f] = listing[f] /\ changed'[f] = changed[f]
    \/ changed'[f] = now /\ now' = now /\ wall' = wall /\ setback' = setback

\* The world and the clocks, during a call.
LEMMA LookingKeeps ==
    ASSUME IInv, TypeOK', UNCHANGED <<cache, call>>,
           now <= now', setback <= setback',
           now' - now <= (wall' + setback') - (wall + setback),
           \A f \in Feed : OneAtATime(f)
    PROVE  Looking'
<1> SUFFICES ASSUME call # None, call.src \in FeedSource PROVE
        /\ call.started <= now'
        /\ \A n \in DOMAIN call.todo : call.todo[n] \in Consulted(call)
        /\ call.hits \subseteq Consulted(call)
        /\ ~call.excused =>
              \A f \in Consulted(call) :
                 /\ Pending(f) \/ Done(f)'
                 /\ f \in call.hits /\ SettledIn(f)' => call.item \in listing'[f]
        /\ call.step = "download" =>
              /\ call.fetch <= wall' + setback'
              /\ call.saw # listing'[List] =>
                    /\ changed'[List] >= call.started
                    /\ changed'[List] + (wall' - call.fetch) + setback' >= now'
  BY DEF Looking, Pending, Consulted, List, ChangedSince
<1>0. TypeOK /\ Looking /\ Clocks
  BY DEF IInv
<1>t. /\ call.started \in Nat /\ call.fetch \in Int /\ call.item \in Item
      /\ now \in Nat /\ now' \in Nat /\ setback \in Nat /\ setback' \in Nat
      /\ wall \in Int /\ wall' \in Int
      /\ call.started <= now /\ Consulted(call) \subseteq Feed
  <2>1. now' \in Nat /\ setback' \in Nat /\ wall' \in Int
    BY SourcesAssumption DEF TypeOK
  <2>2. FeedsOf[call.src][call.item] \in Seq(Feed)
    BY <1>0, CallTypes, SourcesAssumption
  <2>3. Consulted(call) \subseteq Feed
    BY <2>2 DEF Consulted, ToSet
  <2> QED
    BY <1>0, <2>1, <2>3, CallTypes, ClockTypes DEF Looking
<1>n. /\ now \in Int /\ now' \in Int /\ setback \in Int /\ setback' \in Int
      /\ wall \in Int /\ wall' \in Int
  BY <1>t
<1>1. ASSUME NEW f \in Feed, SettledIn(f)'
      PROVE  SettledIn(f) /\ listing'[f] = listing[f]
  <2>1. changed[f] \in Int /\ TTL[f] \in Nat /\ changed'[f] \in Int
    BY <1>0, ClockTypes, SourcesAssumption DEF TypeOK
  <2>2. changed'[f] + TTL[f] + setback' < call.started
    BY <1>1 DEF SettledIn
  <2>3. changed'[f] # now
    BY <1>t, <2>1, <2>2
  <2>4. listing'[f] = listing[f] /\ changed'[f] = changed[f]
    BY <2>3 DEF OneAtATime
  <2> QED
    BY <1>t, <2>1, <2>2, <2>4 DEF SettledIn
<1>2. ASSUME ~call.excused, NEW f \in Consulted(call)
      PROVE  /\ Pending(f) \/ Done(f)'
             /\ f \in call.hits /\ SettledIn(f)' => call.item \in listing'[f]
  <2>1. f \in Feed /\ (Pending(f) \/ Done(f))
        /\ (f \in call.hits /\ SettledIn(f) => call.item \in listing[f])
    BY <1>0, <1>t, <1>2 DEF Looking
  <2> QED
    BY <1>1, <2>1 DEF Done
<1>3. ASSUME call.step = "download"
      PROVE  /\ call.fetch <= wall' + setback'
             /\ call.saw # listing'[List] =>
                   /\ changed'[List] >= call.started
                   /\ changed'[List] + (wall' - call.fetch) + setback' >= now'
  <2>1. PICK g \in Feed, d \in Int : g = List /\ d = call.fetch
    BY <1>0, <1>t, <1>3, TodoTypes DEF TypeOK
  <2>2. d <= wall + setback /\
        (call.saw # listing[g] => changed[g] >= call.started /\ ChangedSince(g, d))
    BY <1>0, <1>3, <2>1 DEF Looking
  <2>3. CASE listing'[g] = listing[g] /\ changed'[g] = changed[g]
    <3>1. d <= wall' + setback'
      BY <1>t, <2>1, <2>2
    <3>2. changed[g] \in Int
      BY <1>0, ClockTypes
    <3>3. ASSUME ChangedSince(g, d) PROVE changed[g] + (wall' - d) + setback' >= now'
      <4>1. changed[g] + (wall - d) + setback >= now
        BY <3>3 DEF ChangedSince
      <4> QED
        BY <1>n, <3>2, <4>1, Shift
    <3> QED
      BY <2>1, <2>2, <2>3, <3>1, <3>3
  <2>4. CASE changed'[g] = now /\ now' = now /\ wall' = wall /\ setback' = setback
    BY <1>t, <2>1, <2>2, <2>4
  <2> QED
    BY <2>1, <2>3, <2>4 DEF OneAtATime
<1> QED
  BY <1>0, <1>t, <1>2, <1>3 DEF Looking
-----------------------------------------------------------------------------
(* Time and the world.                                                     *)

LEMMA TickKeeps == IInv /\ Tick => IInv'
<1> SUFFICES ASSUME IInv, Tick PROVE IInv'
  OBVIOUS
<1>0. TypeOK /\ Clocks /\ Measured /\ CacheCurrent
  BY DEF IInv
<1>1. /\ now < MaxTime /\ now' = now + 1 /\ wall' = wall + 1
      /\ UNCHANGED <<setback, steps, listing, changed, flips, cache, vtLast, last, broken,
                     faults, call, answer, load>>
  BY DEF Tick, world, memory, history
<1>2. TypeOK'
  <2>1. now' \in 0 .. MaxTime /\ wall' \in Int
    BY <1>0, <1>1, SourcesAssumption DEF TypeOK
  <2>2. last' \in [at : 0 .. now', era : 0 .. broken] \cup {None}
    <3>1. 0 .. now \subseteq 0 .. now'
      BY <1>0, <1>1, ClockTypes
    <3>2. last \in [at : 0 .. now, era : 0 .. broken] \cup {None}
      BY <1>0 DEF TypeOK
    <3> QED
      BY <1>1, <3>1, <3>2
  <2> QED
    BY <1>0, <1>1, <2>1, <2>2 DEF TypeOK
<1>3. Clocks' /\ Measured' /\ CacheCurrent'
  BY <1>0, <1>1, ClockTypes DEF Clocks, Measured, CacheCurrent, ChangedSince
<1>4. Sleeping'
  BY <1>1 DEF IInv, Sleeping, Running
<1>5. Looking'
  <2>1. /\ now <= now' /\ setback <= setback'
        /\ now' - now <= (wall' + setback') - (wall + setback)
    BY <1>0, <1>1, ClockTypes
  <2> QED
    BY <1>1, <1>2, <2>1, LookingKeeps DEF OneAtATime
<1> QED
  BY <1>1, <1>2, <1>3, <1>4, <1>5 DEF IInv, Silent

LEMMA SetClockKeeps == ASSUME NEW d \in {-1, 1} PROVE IInv /\ SetClock(d) => IInv'
<1> SUFFICES ASSUME IInv, SetClock(d) PROVE IInv'
  OBVIOUS
<1>0. TypeOK /\ Clocks /\ Measured /\ CacheCurrent
  BY DEF IInv
<1>1. /\ steps < MaxSteps /\ steps' = steps + 1 /\ wall' = wall + d
      /\ setback' = IF d < 0 THEN setback + 1 ELSE setback
      /\ broken' = IF d > 0 THEN broken + 1 ELSE broken
      /\ UNCHANGED <<now, listing, changed, flips, cache, vtLast, last, faults, call,
                     answer, load>>
  BY DEF SetClock, world, memory
<1>t. /\ now \in Nat /\ wall \in Int /\ setback \in 0 .. steps /\ steps \in 0 .. MaxSteps
      /\ broken \in Nat /\ MaxSteps \in Nat
  BY <1>0, SourcesAssumption DEF TypeOK
<1>2. TypeOK'
  <2>1. wall' \in Int /\ setback' \in 0 .. steps' /\ steps' \in 0 .. MaxSteps /\ broken' \in Nat
    BY <1>1, <1>t
  <2>2. last' \in [at : 0 .. now, era : 0 .. broken'] \cup {None}
    <3>1. 0 .. broken \subseteq 0 .. broken'
      BY <1>1, <1>t
    <3>2. last \in [at : 0 .. now, era : 0 .. broken] \cup {None}
      BY <1>0 DEF TypeOK
    <3> QED
      BY <1>1, <3>1, <3>2
  <2> QED
    BY <1>0, <1>1, <2>1, <2>2 DEF TypeOK
<1>3. wall + setback <= wall' + setback' /\ setback <= setback'
      /\ (d > 0 => broken' = broken + 1) /\ (d < 0 => wall' = wall - 1 /\ broken' = broken)
  BY <1>1, <1>t
<1>p. wall' \in Int /\ setback' \in Nat /\ broken' \in Nat
  BY <1>1, <1>t
<1>4. Clocks'
  BY <1>0, <1>1, <1>3, <1>t, <1>p, ClockTypes DEF Clocks
<1>5. Measured'
  <2>1. CASE d > 0
    <3>1. last # None => last.era # broken'
      BY <1>0, <1>3, <2>1, ClockTypes
    <3> QED
      BY <1>1, <3>1 DEF Measured
  <2>2. CASE d < 0
    BY <1>0, <1>1, <1>3, <2>2, ClockTypes DEF Measured
  <2> QED
    BY <2>1, <2>2
<1>6. \A f \in Feed, at \in Int : ChangedSince(f, at) => ChangedSince(f, at)'
  BY <1>0, <1>1, <1>3, <1>p, ClockTypes DEF ChangedSince
<1>7. CacheCurrent'
  BY <1>0, <1>1, <1>6, ClockTypes DEF CacheCurrent
<1>8. Sleeping'
  <2>1. last # None /\ last.era = broken' => broken' = broken
    BY <1>0, <1>1, ClockTypes
  <2>2. Running("sleep") => call.wake \in Nat /\ call.started \in Nat
    BY <1>0, CallTypes DEF Running
  <2> QED
    BY <1>1, <1>3, <1>p, <1>t, <2>1, <2>2, SourcesAssumption DEF IInv, Sleeping, Running
<1>9. Looking'
  BY <1>1, <1>2, <1>3, <1>6, <1>t, LookingKeeps DEF OneAtATime
<1> QED
  BY <1>1, <1>2, <1>4, <1>5, <1>7, <1>8, <1>9 DEF IInv, Silent

LEMMA FlipKeeps == ASSUME NEW g \in Feed, NEW v \in Item PROVE IInv /\ Flip(g, v) => IInv'
<1> SUFFICES ASSUME IInv, Flip(g, v) PROVE IInv'
  OBVIOUS
<1>0. TypeOK /\ Clocks /\ Measured /\ CacheCurrent
  BY DEF IInv
<1>1. /\ flips < MaxFlips /\ flips' = flips + 1
      /\ listing' = [listing EXCEPT ![g] = IF v \in @ THEN @ \ {v} ELSE @ \cup {v}]
      /\ changed' = [changed EXCEPT ![g] = now]
      /\ UNCHANGED <<now, wall, setback, steps, cache, vtLast, last, broken, faults, call,
                     answer, load>>
  BY DEF Flip, clock, memory, history
<1>2. TypeOK'
  <2>1. listing' \in [Feed -> SUBSET Item] /\ changed' \in [Feed -> Int]
        /\ flips' \in 0 .. MaxFlips
    BY <1>0, <1>1, SourcesAssumption DEF TypeOK
  <2> QED
    BY <1>0, <1>1, <2>1 DEF TypeOK
<1>3. /\ changed'[g] = now
      /\ \A f \in Feed : f # g => changed'[f] = changed[f] /\ listing'[f] = listing[f]
  BY <1>0, <1>1 DEF TypeOK
<1>4. Clocks' /\ Measured'
  BY <1>0, <1>1, <1>3, ClockTypes, SourcesAssumption DEF Clocks, Measured
<1>5. CacheCurrent'
  <2>1. ASSUME NEW f \in Feed, cache[f].sound, cache[f].list # listing'[f]
        PROVE  changed'[f] + (wall - cache[f].at) + setback >= now
    BY <1>0, <1>3, <2>1, ClockTypes DEF CacheCurrent, ChangedSince, Clocks
  <2> QED
    BY <1>0, <1>1, <2>1 DEF CacheCurrent, ChangedSince
<1>6. Sleeping'
  BY <1>1 DEF IInv, Sleeping, Running
<1>7. Looking'
  <2>1. now \in Nat /\ setback \in Nat /\ wall \in Int
    BY <1>0, ClockTypes
  <2> QED
    BY <1>1, <1>2, <1>3, <2>1, LookingKeeps DEF OneAtATime
<1> QED
  BY <1>1, <1>2, <1>4, <1>5, <1>6, <1>7 DEF IInv, Silent
-----------------------------------------------------------------------------
(* The calls.                                                              *)

\* A call ends without leaving anything behind.
LEMMA EndKeeps ==
    ASSUME IInv, call' = None, UNCHANGED <<clock, world, memory, history, load>>,
           faults' \in 0 .. MaxFaults, answer' # None => answer'.origins \subseteq Item'
    PROVE  IInv'
<1>1. UNCHANGED <<now, wall, setback, steps, listing, changed, flips, cache, vtLast, last,
                  broken, load>>
  BY DEF clock, world, memory, history
<1>2. TypeOK'
  BY <1>1 DEF IInv, TypeOK
<1> QED
  BY <1>2, StandStill, CallOver DEF IInv

LEMMA ReturnVirustotalKeeps == IInv /\ ReturnVirustotal => IInv'
<1> SUFFICES ASSUME IInv, ReturnVirustotal PROVE IInv'
  OBVIOUS
<1>1. /\ call # None /\ call' = None
      /\ UNCHANGED <<clock, world, memory, history, faults, load, answer>>
  BY DEF ReturnVirustotal, Running
<1>2. answer = None /\ answer' = None
  BY <1>1 DEF IInv, Silent
<1>3. faults' \in 0 .. MaxFaults
  BY <1>1 DEF IInv, TypeOK
<1> QED
  BY <1>1, <1>2, <1>3, EndKeeps

\* The three ways in which a lookup ends.
LEMMA ReturnsKeep ==
    ASSUME IInv, NEW says \in {"error", "listed", "clean"}, NEW origins \in SUBSET Item,
           Returns(says, origins), UNCHANGED <<clock, world, memory, history, load>>,
           faults' \in 0 .. MaxFaults
    PROVE  IInv'
<1>1. call' = None /\ answer'.says = says /\ answer'.origins = origins
  BY DEF Returns, Answer
<1> QED
  BY <1>1, EndKeeps

LEMMA DownloadFailsKeeps == IInv /\ DownloadFails => IInv'
<1> SUFFICES ASSUME IInv, DownloadFails PROVE IInv'
  OBVIOUS
<1>1. faults' \in 0 .. MaxFaults
  BY SourcesAssumption DEF IInv, TypeOK, DownloadFails
<1> QED
  BY <1>1, ReturnsKeep DEF DownloadFails

LEMMA ReturnLookupKeeps == IInv /\ ReturnLookup => IInv'
<1> SUFFICES ASSUME IInv, ReturnLookup PROVE IInv'
  OBVIOUS
<1>1. faults' \in 0 .. MaxFaults
  BY DEF IInv, TypeOK, ReturnLookup
<1>2. CASE call.hits = {}
  BY <1>1, <1>2, ReturnsKeep DEF ReturnLookup
<1>3. CASE call.hits # {}
  BY <1>1, <1>3, ReturnsKeep DEF ReturnLookup
<1> QED
  BY <1>2, <1>3

LEMMA ReturnCdnKeeps ==
    ASSUME NEW resolves \in BOOLEAN, NEW rev \in SUBSET Telling, NEW revs \in SUBSET Telling,
           NEW alive \in SUBSET Item
    PROVE  IInv /\ ReturnCdn(resolves, rev, alive, revs) => IInv'
<1> SUFFICES ASSUME IInv, ReturnCdn(resolves, rev, alive, revs) PROVE IInv'
  OBVIOUS
<1>1. faults' \in 0 .. MaxFaults /\ UNCHANGED <<clock, world, memory, history, load>>
  BY DEF IInv, TypeOK, ReturnCdn
<1>2. Origins(alive, revs) \in SUBSET Item
  BY DEF Origins
<1>3. \E says \in {"error", "listed", "clean"}, origins \in SUBSET Item : Returns(says, origins)
  <2>1. CASE ~resolves
    BY <2>1 DEF ReturnCdn
  <2>2. CASE resolves /\ (call.hits # {} \/ call.item \in rev)
    BY <1>2, <2>2 DEF ReturnCdn
  <2>3. CASE resolves /\ ~(call.hits # {} \/ call.item \in rev)
    BY <2>3 DEF ReturnCdn
  <2> QED
    BY <2>1, <2>2, <2>3
<1> QED
  BY <1>1, <1>3, ReturnsKeep
-----------------------------------------------------------------------------
(* The lists that a call consults.                                         *)

LEMMA BeginLookupKeeps ==
    ASSUME NEW s \in FeedSource, NEW v \in Item PROVE IInv /\ BeginLookup(s, v) => IInv'
<1> SUFFICES ASSUME IInv, BeginLookup(s, v) PROVE IInv'
  OBVIOUS
<1>1. /\ call' = [src |-> s, item |-> v, step |-> "consult", started |-> now, wake |-> now,
                  todo |-> FeedsOf[s][v], hits |-> {}, fetch |-> 0, saw |-> {},
                  excused |-> FALSE]
      /\ answer' = None
      /\ UNCHANGED <<clock, world, memory, history, faults, load>>
  BY DEF BeginLookup, Begins, Call
<1>2. FeedsOf[s][v] \in Seq(Feed) /\ s \in Caller /\ now \in Nat
  BY ClockTypes, SourcesAssumption DEF IInv, FeedSource, Caller
<1>3. TypeOK'
  <2>1. call' \in Calls
    BY <1>1, <1>2 DEF Calls
  <2>2. UNCHANGED <<now, wall, setback, steps, listing, changed, flips, cache, vtLast, last,
                    broken, load, faults>>
    BY <1>1 DEF clock, world, memory, history
  <2> QED
    BY <1>1, <2>1, <2>2 DEF IInv, TypeOK
<1>4. Looking'
  <2>1. Consulted(call') = {FeedsOf[s][v][n] : n \in DOMAIN FeedsOf[s][v]}
    BY <1>1 DEF Consulted, ToSet
  <2>2. now' = now /\ now <= now
    BY <1>1, <1>2 DEF clock
  <2>3. \A f \in Consulted(call') : Pending(f)'
    BY <1>1, <2>1 DEF Pending
  <2>4. \A n \in DOMAIN call'.todo : call'.todo[n] \in Consulted(call')
    BY <1>1, <2>1
  <2>5. call'.started = now /\ call'.hits = {} /\ call'.step = "consult"
    BY <1>1
  <2> QED
    BY <2>2, <2>3, <2>4, <2>5 DEF Looking
<1>5. Sleeping' /\ Silent'
  BY <1>1 DEF Sleeping, Running, Silent
<1> QED
  BY <1>1, <1>3, <1>4, <1>5, StandStill DEF IInv

\* The list at hand has been consulted and said what is in L.
LEMMA Consults ==
    ASSUME IInv, TypeOK', call # None, call.todo # <<>>, NEW L,
           call'.src = call.src, call'.item = call.item, call'.started = call.started,
           call'.step = "consult", call'.todo = Tail(call.todo), call'.hits = Found(L),
           UNCHANGED <<clock, world>>,
           \A f \in Feed : f # List => cache'[f] = cache[f],
           ~call'.excused =>
              ~call.excused
              /\ (SettledIn(List) => L = listing[List] /\ cache'[List].list = L)
    PROVE  Looking'
<1> SUFFICES ASSUME call.src \in FeedSource PROVE
        /\ call.started <= now
        /\ \A n \in DOMAIN call'.todo : call'.todo[n] \in Consulted(call)
        /\ call'.hits \subseteq Consulted(call)
        /\ ~call'.excused =>
              \A f \in Consulted(call) :
                 /\ Pending(f)' \/ Done(f)'
                 /\ f \in call'.hits /\ SettledIn(f) => call.item \in listing[f]
  BY DEF Looking, Consulted, SettledIn, clock, world
<1>0. TypeOK /\ Looking /\ UNCHANGED <<now, setback, changed, listing>>
  BY DEF IInv, clock, world
<1>1. PICK g \in Feed : g = List /\ g = call.todo[1] /\ g \in Consulted(call)
  BY <1>0, TodoTypes DEF Looking
<1>2. Consulted(call) \subseteq Feed
  <2>1. FeedsOf[call.src][call.item] \in Seq(Feed)
    BY <1>0, CallTypes, SourcesAssumption
  <2> QED
    BY <2>1 DEF Consulted, ToSet
<1>3. call'.hits = IF call.item \in L THEN call.hits \cup {g} ELSE call.hits
  BY <1>1 DEF Found
<1>4. \A n \in DOMAIN call'.todo : call'.todo[n] \in Consulted(call)
  BY <1>0, TodoTypes DEF Looking
<1>5. call'.hits \subseteq Consulted(call)
  BY <1>0, <1>1, <1>3 DEF Looking
<1>6. ASSUME ~call'.excused, NEW f \in Consulted(call)
      PROVE  /\ Pending(f)' \/ Done(f)'
             /\ f \in call'.hits /\ SettledIn(f) => call.item \in listing[f]
  <2>1. /\ Pending(f) \/ Done(f)
        /\ f \in call.hits /\ SettledIn(f) => call.item \in listing[f]
        /\ SettledIn(g) => L = listing[g] /\ cache'[g].list = L
    BY <1>0, <1>1, <1>6 DEF Looking
  <2>2. SettledIn(f)' <=> SettledIn(f)
    BY <1>0 DEF SettledIn
  <2>3. CASE f = g
    <3>1. SettledIn(f) => /\ f \in call'.hits <=> call.item \in listing[f]
                          /\ cache'[f].list = listing[f]
      BY <1>3, <2>1, <2>3
    <3> QED
      BY <1>0, <2>2, <3>1 DEF Done
  <2>4. CASE f # g
    <3>1. f \in call'.hits <=> f \in call.hits
      BY <1>3, <2>4
    <3>2. cache'[f] = cache[f]
      BY <1>1, <1>2, <2>4
    <3>3. Pending(f) => Pending(f)'
      <4> SUFFICES ASSUME NEW n \in DOMAIN call.todo, call.todo[n] = f PROVE Pending(f)'
        BY DEF Pending
      <4>1. n # 1
        BY <1>1, <2>4
      <4>2. n - 1 \in DOMAIN Tail(call.todo) /\ Tail(call.todo)[n - 1] = call.todo[n]
        BY <1>0, <4>1, TodoTypes
      <4> QED
        BY <4>2 DEF Pending
    <3>4. Done(f) => Done(f)'
      BY <1>0, <2>2, <3>1, <3>2 DEF Done
    <3> QED
      BY <2>1, <3>1, <3>3, <3>4
  <2> QED
    BY <2>3, <2>4
<1> QED
  BY <1>0, <1>4, <1>5, <1>6 DEF Looking

LEMMA UseCachedKeeps == IInv /\ UseCached => IInv'
<1> SUFFICES ASSUME IInv, UseCached PROVE IInv'
  OBVIOUS
<1>0. TypeOK /\ Looking /\ CacheCurrent
  BY DEF IInv
<1>1. /\ call # None /\ call.step = "consult" /\ call.todo # <<>> /\ Valid(List)
      /\ call' = [call EXCEPT !.hits = Found(cache[List].list), !.todo = Tail(@),
                    !.excused = @ \/ ~cache[List].sound]
      /\ UNCHANGED <<clock, world, memory, history, faults, answer, load>>
  BY DEF UseCached, Running
<1>2. PICK g \in Feed : g = List
  BY <1>0, <1>1, TodoTypes
<1>3. /\ call'.src = call.src /\ call'.item = call.item /\ call'.started = call.started
      /\ call'.step = "consult" /\ call'.todo = Tail(call.todo)
      /\ call'.hits = Found(cache[g].list)
      /\ ~call'.excused => ~call.excused /\ cache[g].sound
  BY <1>0, <1>1, <1>2, CallTypes DEF Calls
<1>u. UNCHANGED <<now, wall, setback, steps, listing, changed, flips, cache, vtLast, last,
                  broken, load, faults>>
  BY <1>1 DEF clock, world, memory, history
<1>4. TypeOK'
  <2>1. Found(cache[List].list) \in SUBSET Feed /\ Tail(call.todo) \in Seq(Feed)
    BY <1>0, <1>1, CallTypes, TodoTypes DEF Found
  <2>2. call' \in Calls
    BY <1>0, <1>1, <2>1, CallTypes DEF Calls
  <2> QED
    BY <1>0, <1>1, <1>3, <1>u, <2>2 DEF TypeOK
<1>5. Looking'
  <2>1. ~call'.excused /\ SettledIn(g) /\ call.src \in FeedSource => cache[g].list = listing[g]
    <3> SUFFICES ASSUME ~call'.excused, SettledIn(g), call.src \in FeedSource,
                        cache[g].list # listing[g]
                 PROVE  FALSE
      OBVIOUS
    <3>1. wall - cache[g].at <= TTL[g]
      BY <1>1, <1>2 DEF Valid
    <3>2. cache[g].sound
      BY <1>3
    <3>3. changed[g] + (wall - cache[g].at) + setback >= now
      BY <1>0, <3>2 DEF CacheCurrent, ChangedSince
    <3>4. changed[g] + TTL[g] + setback < call.started /\ call.started <= now
      BY <1>0, <1>1 DEF Looking, SettledIn
    <3>5. /\ changed[g] \in Int /\ cache[g].at \in Int /\ wall \in Int /\ setback \in Int
          /\ now \in Int /\ TTL[g] \in Int
      BY <1>0, ClockTypes, SourcesAssumption
    <3>6. call.started \in Int
      BY <1>0, <1>1, CallTypes
    <3> QED
      BY <3>1, <3>3, <3>4, <3>5, <3>6
  <2>2. CASE call.src \in FeedSource
    BY <1>1, <1>2, <1>3, <1>4, <1>u, <2>1, <2>2, Consults
  <2>3. CASE call.src \notin FeedSource
    BY <1>3, <2>3 DEF Looking
  <2> QED
    BY <2>2, <2>3
<1>6. Sleeping' /\ Silent'
  BY <1>1, <1>3 DEF IInv, Sleeping, Running, Silent
<1> QED
  BY <1>1, <1>4, <1>5, <1>6, StandStill DEF IInv

LEMMA DownloadKeeps == IInv /\ Download => IInv'
<1> SUFFICES ASSUME IInv, Download PROVE IInv'
  OBVIOUS
<1>0. TypeOK /\ Looking /\ Clocks
  BY DEF IInv
<1>1. /\ call # None /\ call.step = "consult" /\ call.todo # <<>>
      /\ call' = [call EXCEPT !.step = "download", !.fetch = wall, !.saw = listing[List]]
      /\ UNCHANGED <<clock, world, memory, history, faults, answer, load>>
  BY DEF Download, Running
<1>2. /\ call'.src = call.src /\ call'.item = call.item /\ call'.started = call.started
      /\ call'.step = "download" /\ call'.todo = call.todo /\ call'.hits = call.hits
      /\ call'.excused = call.excused /\ call'.fetch = wall /\ call'.saw = listing[List]
  BY <1>0, <1>1, CallTypes DEF Calls
<1>u. UNCHANGED <<now, wall, setback, steps, listing, changed, flips, cache, vtLast, last,
                  broken, load, faults>>
  BY <1>1 DEF clock, world, memory, history
<1>3. TypeOK'
  <2>1. listing[List] \in SUBSET Item /\ wall \in Int
    BY <1>0, <1>1, TodoTypes, ClockTypes
  <2>2. call' \in Calls
    BY <1>0, <1>1, <2>1, CallTypes DEF Calls
  <2> QED
    BY <1>0, <1>1, <1>2, <1>u, <2>2 DEF TypeOK
<1>4. Looking'
  <2>1. wall <= wall + setback
    BY <1>0, ClockTypes
  <2>2. List' = List
    BY <1>2 DEF List
  <2>3. Consulted(call') = Consulted(call)
    BY <1>2 DEF Consulted
  <2> QED
    BY <1>0, <1>1, <1>2, <1>u, <2>1, <2>2, <2>3
       DEF Looking, Pending, Done, SettledIn
<1>5. Sleeping' /\ Silent'
  BY <1>1, <1>2 DEF IInv, Sleeping, Running, Silent
<1> QED
  BY <1>1, <1>3, <1>4, <1>5, StandStill DEF IInv

LEMMA ReceiveKeeps ==
    ASSUME NEW list \in SUBSET (Item \cup {Junk}), NEW sound \in BOOLEAN
    PROVE  IInv /\ Receive(list, sound) => IInv'
<1> SUFFICES ASSUME IInv, Receive(list, sound) PROVE IInv'
  OBVIOUS
<1>0. TypeOK /\ Looking /\ Clocks /\ CacheCurrent /\ Measured
  BY DEF IInv
<1>1. /\ call # None /\ call.step = "download" /\ call.todo # <<>> /\ call.src \in FeedSource
      /\ cache' = [cache EXCEPT ![List] = [list |-> list, at |-> call.fetch, sound |-> sound]]
      /\ call' = [call EXCEPT !.step = "consult", !.hits = Found(list), !.todo = Tail(@),
                    !.excused = @ \/ ~sound, !.fetch = 0, !.saw = {}]
      /\ sound => list \in {call.saw, listing[List]} /\ faults' = faults
      /\ ~sound => faults < MaxFaults /\ faults' = faults + 1
      /\ UNCHANGED <<now, wall, setback, steps, listing, changed, flips, vtLast, last, broken,
                     answer, load>>
  BY <1>0 DEF Receive, Running, TypeOK, FetchedAt, clock, world, history
<1>2. PICK g \in Feed : g = List
  BY <1>0, <1>1, TodoTypes
<1>3. /\ call'.src = call.src /\ call'.item = call.item /\ call'.started = call.started
      /\ call'.step = "consult" /\ call'.todo = Tail(call.todo) /\ call'.hits = Found(list)
      /\ ~call'.excused => ~call.excused /\ sound
  BY <1>0, <1>1, CallTypes DEF Calls
<1>4. /\ cache'[g].list = list /\ cache'[g].at = call.fetch /\ cache'[g].sound = sound
      /\ \A f \in Feed : f # g => cache'[f] = cache[f]
  BY <1>0, <1>1, <1>2 DEF TypeOK
<1>t. call.fetch \in Int /\ call.started \in Nat /\ now \in Nat /\ wall \in Int /\ setback \in Nat
  BY <1>0, <1>1, CallTypes, ClockTypes
<1>5. TypeOK'
  <2>1. PICK h \in SUBSET Feed, t \in Seq(Feed), e \in BOOLEAN :
            h = Found(list) /\ t = Tail(call.todo) /\ e = (call.excused \/ ~sound)
    BY <1>0, <1>1, CallTypes, TodoTypes DEF Found
  <2>2. call' \in Calls
    <3>1. call' = [call EXCEPT !.step = "consult", !.hits = h, !.todo = t, !.excused = e,
                               !.fetch = 0, !.saw = {}]
      BY <1>0, <1>1, <2>1, CallTypes DEF Calls
    <3>2. call \in Calls
      BY <1>0, <1>1, CallTypes
    <3>3. "consult" \in {"consult", "download", "sleep", "wait"} /\ {} \in SUBSET Item /\ 0 \in Int
      OBVIOUS
    <3> QED
      BY <3>1, <3>2, <3>3 DEF Calls
  <2>3. cache' \in [Feed -> [list : SUBSET (Item \cup {Junk}), at : Int, sound : BOOLEAN]]
    BY <1>0, <1>1, <1>t DEF TypeOK
  <2>4. faults' \in 0 .. MaxFaults
    <3>1. faults \in 0 .. MaxFaults /\ MaxFaults \in Nat
      BY <1>0, SourcesAssumption DEF TypeOK
    <3>2. faults' = faults \/ (faults < MaxFaults /\ faults' = faults + 1)
      BY <1>1
    <3> QED
      BY <3>1, <3>2
  <2> QED
    BY <1>0, <1>1, <1>3, <2>2, <2>3, <2>4 DEF TypeOK
<1>6. call.fetch <= wall + setback /\
      (call.saw # listing[g] => changed[g] >= call.started /\ ChangedSince(g, call.fetch))
  BY <1>0, <1>1, <1>2 DEF Looking
<1>7. Clocks' /\ Measured'
  BY <1>0, <1>1, <1>4, <1>6 DEF Clocks, Measured
<1>8. CacheCurrent'
  <2>1. cache'[g].sound /\ cache'[g].list # listing[g]
          => changed[g] + (wall - cache'[g].at) + setback >= now
    BY <1>1, <1>2, <1>4, <1>6 DEF ChangedSince
  <2> QED
    BY <1>0, <1>1, <1>4, <2>1 DEF CacheCurrent, ChangedSince
<1>9. Looking'
  <2>1. ~call'.excused /\ SettledIn(g) => list = listing[g] /\ cache'[g].list = list
    <3> SUFFICES ASSUME ~call'.excused, SettledIn(g) PROVE list = listing[g]
      BY <1>4
    <3>1. changed[g] + TTL[g] + setback < call.started
      BY DEF SettledIn
    <3>2. ~(changed[g] >= call.started)
      BY <1>0, <1>t, <3>1, ClockTypes, SourcesAssumption
    <3> QED
      BY <1>1, <1>2, <1>3, <1>6, <3>2
  <2>2. UNCHANGED <<clock, world>>
    BY <1>1 DEF clock, world
  <2> QED
    BY <1>1, <1>2, <1>3, <1>4, <1>5, <2>1, <2>2, Consults
<1>10. Sleeping' /\ Silent'
  BY <1>1, <1>3 DEF IInv, Sleeping, Running, Silent
<1> QED
  BY <1>5, <1>7, <1>8, <1>9, <1>10 DEF IInv
-----------------------------------------------------------------------------
(* The requests to VirusTotal, and a new life of the process.              *)

\* What is left of the interval.
LEMMA WaitSuffices ==
    ASSUME IInv
    PROVE  /\ Wait \in Nat /\ Wait <= VtInterval + setback
           /\ last # None /\ last.era = broken => now + Wait >= last.at + VtInterval
<1>0. TypeOK /\ Clocks /\ Measured
  BY DEF IInv
<1>1. /\ now \in Nat /\ wall \in Int /\ setback \in Nat /\ vtLast \in Int /\ VtInterval \in Nat
      /\ last # None => last.at \in Nat
      /\ vtLast <= wall + setback
      /\ last # None /\ last.era = broken => wall - vtLast <= now - last.at
  BY <1>0, ClockTypes, SourcesAssumption DEF Clocks, Measured
<1>2. CASE VtInterval > wall - vtLast
  BY <1>1, <1>2 DEF Wait
<1>3. CASE ~(VtInterval > wall - vtLast)
  BY <1>1, <1>3 DEF Wait
<1> QED
  BY <1>2, <1>3

LEMMA BeginVirustotalKeeps ==
    ASSUME NEW v \in Item PROVE IInv /\ BeginVirustotal(v) => IInv'
<1> SUFFICES ASSUME IInv, BeginVirustotal(v) PROVE IInv'
  OBVIOUS
<1>1. /\ call' = [src |-> "virustotal", item |-> v, step |-> "sleep", started |-> now,
                  wake |-> now + Wait, todo |-> <<>>, hits |-> {}, fetch |-> 0, saw |-> {},
                  excused |-> FALSE]
      /\ answer' = None
      /\ UNCHANGED <<clock, world, memory, history, faults, load>>
  BY DEF BeginVirustotal, Begins, Call, FeedSource
<1>2. now \in Nat /\ VtInterval \in Nat /\ setback \in Nat
  BY ClockTypes, SourcesAssumption DEF IInv
<1>u. UNCHANGED <<now, wall, setback, steps, listing, changed, flips, cache, vtLast, last,
                  broken, load, faults>>
  BY <1>1 DEF clock, world, memory, history
<1>3. TypeOK'
  <2>1. call' \in Calls
    BY <1>1, <1>2, WaitSuffices DEF Calls, Caller, FeedSource
  <2> QED
    BY <1>1, <1>u, <2>1 DEF IInv, TypeOK, FeedSource
<1>4. Sleeping'
  <2>1. call'.wake = now + Wait /\ call'.started = now
    BY <1>1
  <2> QED
    BY <1>2, <1>u, <2>1, WaitSuffices DEF Sleeping, Running
<1>5. Looking' /\ Silent'
  BY <1>1 DEF Looking, FeedSource, Silent
<1> QED
  BY <1>1, <1>3, <1>4, <1>5, StandStill DEF IInv

LEMMA RequestKeeps == IInv /\ Request => IInv'
<1> SUFFICES ASSUME IInv, Request PROVE IInv'
  OBVIOUS
<1>0. TypeOK /\ Clocks
  BY DEF IInv
<1>1. /\ call # None /\ call.step = "sleep" /\ vtLast' = wall
      /\ last' = [at |-> now, era |-> broken]
      /\ call' = [call EXCEPT !.step = "wait"]
      /\ UNCHANGED <<clock, world, cache, broken, faults, answer, load>>
  BY DEF Request, Running
<1>u. UNCHANGED <<now, wall, setback, steps, listing, changed, flips, cache, broken, load,
                  faults, answer>>
  BY <1>1 DEF clock, world
<1>2. /\ call' \in Calls /\ call'.src = call.src /\ call'.step = "wait"
      /\ call.src \notin FeedSource
  BY <1>0, <1>1, CallTypes DEF Calls, TypeOK
<1>3. TypeOK'
  <2>1. last' \in [at : 0 .. now, era : 0 .. broken]
    BY <1>0, <1>1, ClockTypes
  <2> QED
    BY <1>0, <1>1, <1>2, <1>u, <2>1 DEF TypeOK
<1>4. Clocks' /\ Measured'
  BY <1>0, <1>1, <1>u, ClockTypes DEF Clocks, Measured
<1>5. CacheCurrent'
  BY <1>u DEF IInv, CacheCurrent, ChangedSince
<1>6. Sleeping' /\ Looking' /\ Silent'
  BY <1>1, <1>2, <1>u DEF IInv, Sleeping, Running, Looking, Silent
<1> QED
  BY <1>3, <1>4, <1>5, <1>6 DEF IInv

LEMMA RestartKeeps == IInv /\ Restart => IInv'
<1> SUFFICES ASSUME IInv, Restart PROVE IInv'
  OBVIOUS
<1>0. TypeOK /\ Clocks
  BY DEF IInv
<1>1. /\ faults < MaxFaults /\ faults' = faults + 1 /\ broken' = broken + 1
      /\ cache' = [f \in Feed |-> [list |-> {}, at |-> Epoch, sound |-> TRUE]]
      /\ vtLast' = Epoch /\ call' = None /\ answer' = None
      /\ UNCHANGED <<now, wall, setback, steps, listing, changed, flips, last, load>>
  BY DEF Restart, Never, clock, world
<1>t. /\ now \in Nat /\ wall \in Int /\ setback \in Nat /\ broken \in Nat
      /\ \A f \in Feed : changed[f] \in Int
      /\ Epoch \in Int /\ Epoch < 0
  BY <1>0, ClockTypes, SourcesAssumption
<1>2. Epoch <= wall + setback
  <2>1. now <= wall + setback
    BY <1>0 DEF Clocks
  <2> QED
    BY <1>t, <2>1
<1>3. TypeOK'
  <2>1. last' \in [at : 0 .. now, era : 0 .. broken'] \cup {None}
    <3>1. 0 .. broken \subseteq 0 .. broken'
      BY <1>1, <1>t
    <3>2. last \in [at : 0 .. now, era : 0 .. broken] \cup {None}
      BY <1>0 DEF TypeOK
    <3> QED
      BY <1>1, <3>1, <3>2
  <2>2. faults' \in 0 .. MaxFaults
    BY <1>0, <1>1, SourcesAssumption DEF TypeOK
  <2>3. cache' \in [Feed -> [list : SUBSET (Item \cup {Junk}), at : Int, sound : BOOLEAN]]
    BY <1>1, <1>t
  <2> QED
    BY <1>0, <1>1, <1>t, <2>1, <2>2, <2>3 DEF TypeOK
<1>4. Clocks'
  BY <1>0, <1>1, <1>2 DEF Clocks
<1>5. Measured'
  <2>1. last # None => last.era # broken'
    BY <1>0, <1>1, ClockTypes
  <2> QED
    BY <1>1, <2>1 DEF Measured
<1>6. CacheCurrent'
  <2>1. ASSUME NEW f \in Feed PROVE changed[f] + (wall - Epoch) + setback >= now
    <3>1. changed[f] >= Epoch /\ wall + setback >= now
      BY <1>0 DEF Clocks
    <3> QED
      BY <1>t, <3>1
  <2> QED
    BY <1>1, <2>1 DEF CacheCurrent, ChangedSince
<1>7. Sleeping' /\ Looking' /\ Silent'
  BY <1>1, CallOver
<1> QED
  BY <1>3, <1>4, <1>5, <1>6, <1>7 DEF IInv
-----------------------------------------------------------------------------
(* The theorems.                                                           *)

LEMMA NextIInv == IInv /\ [Next]_vars => IInv'
<1> SUFFICES ASSUME IInv, [Next]_vars PROVE IInv'
  OBVIOUS
<1>1. CASE Elsewhere
  BY <1>1, TickKeeps, SetClockKeeps, FlipKeeps DEF Elsewhere
<1>2. CASE Lookup
  <2>1. ASSUME NEW resolves \in BOOLEAN, NEW rev \in SUBSET Telling, NEW revs \in SUBSET Telling,
               NEW alive \in SUBSET (IF call = None THEN {} ELSE Hosts[call.item]),
               ReturnCdn(resolves, rev, alive, revs)
        PROVE  IInv'
    <3>1. call # None
      BY <2>1 DEF ReturnCdn, Running
    <3>2. Hosts[call.item] \subseteq Item
      BY <3>1, CallTypes, SourcesAssumption DEF IInv
    <3>3. alive \in SUBSET Item
      BY <3>1, <3>2
    <3> QED
      BY <2>1, <3>3, ReturnCdnKeeps
  <2> QED
    BY <1>2, <2>1, BeginLookupKeeps, UseCachedKeeps, DownloadKeeps, DownloadFailsKeeps,
       ReceiveKeeps, ReturnLookupKeeps DEF Lookup
<1>3. CASE Query
  BY <1>3, BeginVirustotalKeeps, RequestKeeps, ReturnVirustotalKeeps DEF Query
<1>4. CASE Restart
  BY <1>4, RestartKeeps
<1>5. CASE UNCHANGED vars
  <2>1. UNCHANGED <<now, wall, setback, steps, listing, changed, flips, cache, vtLast, last,
                    broken, load, faults, call, answer>>
    BY <1>5 DEF vars, clock, world, memory, history
  <2>2. TypeOK' /\ Sleeping' /\ Silent'
    BY <2>1 DEF IInv, TypeOK, Sleeping, Running, Silent
  <2>3. Looking'
    <3>1. now \in Nat /\ wall \in Int /\ setback \in Nat
      BY ClockTypes DEF IInv
    <3> QED
      BY <2>1, <2>2, <3>1, LookingKeeps DEF OneAtATime
  <2> QED
    BY <1>5, <2>2, <2>3, StandStill DEF IInv, vars
<1> QED
  BY <1>1, <1>2, <1>3, <1>4, <1>5 DEF Next

LEMMA AlwaysIInv == Spec => []IInv
<1>1. Init => IInv
  BY InitIInv
<1>2. IInv /\ [Next]_vars => IInv'
  BY NextIInv
<1> QED
  BY <1>1, <1>2, PTL DEF Spec

\* The clocks, the caches and the running call keep their types.
THEOREM TypeCorrect == Spec => []TypeOK
<1>1. IInv => TypeOK
  BY DEF IInv
<1> QED
  BY <1>1, AlwaysIInv, PTL

\* The pause before a request to VirusTotal outlasts the interval by no more
\* than the wall clock was set back.
THEOREM PauseIsBounded == Spec => []PauseBounded
<1>1. IInv => PauseBounded
  BY DEF IInv, Sleeping, PauseBounded
<1> QED
  BY <1>1, AlwaysIInv, PTL

Asks == Running("sleep") /\ last # None /\ last.era = broken /\ call' # None /\ call'.step = "wait"

\* A call that sleeps can only go on to its request.
LEMMA AskStep == IInv /\ [Next]_vars /\ Asks => now - last.at >= VtInterval
<1> SUFFICES ASSUME IInv, [Next]_vars, Asks PROVE now - last.at >= VtInterval
  OBVIOUS
<1>1. call # None /\ call.step = "sleep" /\ call' # call
  BY DEF Asks, Running
<1>2. now >= call.wake
  <2>1. CASE Elsewhere
    BY <1>1, <2>1 DEF Elsewhere, Tick, SetClock, Flip
  <2>2. CASE Lookup
    BY <1>1, <2>2 DEF Lookup, BeginLookup, Begins, UseCached, Download, DownloadFails, Receive,
                      ReturnLookup, ReturnCdn, Running
  <2>3. CASE Query
    BY <1>1, <2>3 DEF Query, BeginVirustotal, Begins, Request, ReturnVirustotal, Running
  <2>4. CASE Restart
    BY <2>4 DEF Restart, Asks
  <2>5. CASE UNCHANGED vars
    BY <1>1, <2>5 DEF vars
  <2> QED
    BY <2>1, <2>2, <2>3, <2>4, <2>5 DEF Next
<1>3. call.wake >= last.at + VtInterval
  BY DEF IInv, Sleeping, Asks
<1>4. now \in Nat /\ call.wake \in Nat /\ last.at \in Nat /\ VtInterval \in Nat
  BY <1>1, CallTypes, ClockTypes, SourcesAssumption DEF IInv, Asks
<1> QED
  BY <1>2, <1>3, <1>4

\* Within one life of the process, and unless the wall clock is set forward, two
\* requests to VirusTotal are an interval apart, whatever the clock does else.
THEOREM RequestsAreSpaced == Spec => RequestsSpaced
<1>1. IInv /\ [Next]_vars =>
        [Running("sleep") /\ last # None /\ last.era = broken /\ call' # None
           /\ call'.step = "wait" => now - last.at >= VtInterval]_vars
  BY AskStep DEF Asks
<1> QED
  BY <1>1, AlwaysIInv, PTL DEF Spec, RequestsSpaced

Answers(c) ==
    c # None /\ call' = None /\ answer' # None /\ c.src \in FeedSource /\ Settled(c) /\ ~c.excused

\* What the three ways to end a lookup may say.
LEMMA AnswerStep == IInv /\ [Next]_vars /\ Answers(call) => Agrees(call, answer')
<1> SUFFICES ASSUME IInv, [Next]_vars, Answers(call) PROVE Agrees(call, answer')
  OBVIOUS
<1>0. TypeOK /\ Looking /\ call # None /\ call.src \in FeedSource /\ ~call.excused
      /\ call' # call /\ answer' # None /\ answer = None
  BY DEF IInv, Answers, Silent
<1>1. \A f \in Consulted(call) : SettledIn(f)
  BY DEF Answers, Settled, SettledIn
<1>2. CASE DownloadFails
  <2>1. answer'.says = "error" /\ answer'.origins = {}
    BY <1>2 DEF DownloadFails, Returns, Answer
  <2> QED
    BY <2>1 DEF Agrees
<1>3. call.todo = <<>> =>
        /\ call.hits \subseteq Consulted(call)
        /\ \A f \in Consulted(call) : /\ f \in call.hits <=> call.item \in listing[f]
                                      /\ cache[f].list = listing[f]
  <2> SUFFICES ASSUME call.todo = <<>> PROVE
        /\ call.hits \subseteq Consulted(call)
        /\ \A f \in Consulted(call) : /\ f \in call.hits <=> call.item \in listing[f]
                                      /\ cache[f].list = listing[f]
    OBVIOUS
  <2>1. \A f \in Consulted(call) : ~Pending(f)
    BY DEF Pending
  <2> QED
    BY <1>0, <1>1, <2>1 DEF Looking, Done
<1>4. call.item \in Item
  BY <1>0, CallTypes
<1>5. CASE ReturnLookup
  <2>1. /\ call.todo = <<>> /\ answer'.origins = {}
        /\ answer'.says = IF call.hits = {} THEN "clean" ELSE "listed"
    BY <1>5 DEF ReturnLookup, Returns, Answer
  <2>2. call.hits # {} => \E f \in Consulted(call) : call.item \in listing[f]
    BY <1>3, <2>1
  <2>3. call.hits = {} => \A f \in Consulted(call) : call.item \notin listing[f]
    BY <1>3, <2>1
  <2> QED
    BY <1>4, <2>1, <2>2, <2>3 DEF Agrees
<1>6. CASE \E resolves \in BOOLEAN, rev, revs \in SUBSET Telling :
              \E alive \in SUBSET (IF call = None THEN {} ELSE Hosts[call.item]) :
                 ReturnCdn(resolves, rev, alive, revs)
  <2>1. PICK resolves \in BOOLEAN, rev \in SUBSET Telling, revs \in SUBSET Telling,
               alive \in SUBSET (IF call = None THEN {} ELSE Hosts[call.item]) :
               ReturnCdn(resolves, rev, alive, revs)
    BY <1>6
  <2>2. call.todo = <<>> /\ call.src = "cdn"
    BY <2>1 DEF ReturnCdn, Running
  <2>3. \A o \in Origins(alive, revs) : \A f \in Consulted(call) : o \notin listing[f]
    <3> SUFFICES ASSUME NEW o \in Origins(alive, revs), NEW f \in Consulted(call)
                 PROVE  o \notin listing[f]
      OBVIOUS
    <3>1. f \in ToSet(FeedsOf["cdn"][call.item])
      BY <2>2 DEF Consulted
    <3>2. o \notin cache[f].list
      BY <3>1 DEF Origins, Detected
    <3> QED
      BY <1>3, <2>2, <3>2
  <2>4. CASE ~resolves
    <3>1. answer'.says = "error" /\ answer'.origins = {}
      BY <2>1, <2>4 DEF ReturnCdn, Returns, Answer
    <3> QED
      BY <3>1 DEF Agrees
  <2>5. CASE resolves /\ (call.hits # {} \/ call.item \in rev)
    <3>1. answer'.says = "listed" /\ answer'.origins = Origins(alive, revs)
      BY <2>1, <2>5 DEF ReturnCdn, Returns, Answer
    <3>2. call.item \in Telling \/ \E f \in Consulted(call) : call.item \in listing[f]
      BY <1>3, <2>2, <2>5
    <3> QED
      BY <1>4, <2>2, <2>3, <3>1, <3>2 DEF Agrees
  <2>6. CASE resolves /\ call.hits = {} /\ call.item \notin rev
    <3>1. answer'.says = "clean" /\ answer'.origins = {}
      BY <2>1, <2>6 DEF ReturnCdn, Returns, Answer
    <3>2. \A f \in Consulted(call) : call.item \notin listing[f]
      BY <1>3, <2>2, <2>6
    <3> QED
      BY <3>1, <3>2 DEF Agrees
  <2> QED
    BY <2>4, <2>5, <2>6
<1>7. CASE ~(DownloadFails \/ ReturnLookup \/ \E resolves \in BOOLEAN, rev, revs \in SUBSET Telling :
              \E alive \in SUBSET (IF call = None THEN {} ELSE Hosts[call.item]) :
                 ReturnCdn(resolves, rev, alive, revs))
  <2>1. CASE Elsewhere
    BY <1>0, <2>1 DEF Elsewhere, Tick, SetClock, Flip
  <2>2. CASE Lookup
    <3>1. \/ \E s \in FeedSource, v \in Item : BeginLookup(s, v)
          \/ UseCached \/ Download
          \/ \E list \in SUBSET (Item \cup {Junk}), sound \in BOOLEAN : Receive(list, sound)
      BY <1>7, <2>2 DEF Lookup
    <3> QED
      BY <1>0, <3>1 DEF BeginLookup, Begins, UseCached, Download, Receive
  <2>3. CASE Query
    <3>1. ~(call.step \in {"sleep", "wait"})
      BY <1>0 DEF TypeOK
    <3> QED
      BY <1>0, <2>3, <3>1 DEF Query, BeginVirustotal, Begins, Request, ReturnVirustotal, Running
  <2>4. CASE Restart
    BY <1>0, <2>4 DEF Restart
  <2>5. CASE UNCHANGED vars
    BY <1>0, <2>5 DEF vars
  <2> QED
    BY <2>1, <2>2, <2>3, <2>4, <2>5 DEF Next
<1> QED
  BY <1>2, <1>5, <1>6, <1>7

\* Whatever downloads fail, restarts happen and clocks are set: an answer from
\* lists that have been as they are for their TTL before the call is true of them.
THEOREM AnswersAreCurrent == Spec => AnswersCurrent
<1>1. IInv /\ [Next]_vars =>
        [\A c \in {call} :
          c # None /\ call' = None /\ answer' # None /\ c.src \in FeedSource
             /\ Settled(c) /\ ~c.excused
         => Agrees(c, answer')]_vars
  BY AnswerStep DEF Answers
<1> QED
  BY <1>1, AlwaysIInv, PTL DEF Spec, AnswersCurrent
=============================================================================
