------------------------------ MODULE Sources -------------------------------
(***************************************************************************)
(* The memory of the enrichment worker's process and the calls it makes    *)
(* (worker/worker.py): the downloaded lists with their TTLs, the time of   *)
(* the last VirusTotal request, and one enricher at a time that looks an   *)
(* item up in the lists, or asks a service.                                *)
(*                                                                         *)
(* The code measures ages with time.time(), the wall clock, which may be   *)
(* set; downloads and sleeps take time; lists change while they are        *)
(* cached; a process restart empties the caches.  The enrichers without    *)
(* such memory are left out: module Enrichers has their outcomes.          *)
(***************************************************************************)
EXTENDS Integers, Sequences, FiniteSets, SequencesExt

CONSTANTS
    Item,         \* indicator values
    Feed,         \* downloaded lists
    FeedsOf,      \* FeedsOf[s][v]: the lists s consults for v, in order
    Hosts,        \* Hosts[v]: other addresses cdn looks at: v's origin candidates
    Telling,      \* items whose reverse name gives a CDN away
    TTL,          \* TTL[f], in ticks
    KeepsEmpty,   \* lists whose cache entry is valid although it is empty
    Lines,        \* lists of which every line of a page, whatever it is, is an entry
    Junk,         \* such an entry
    VtInterval,   \* VT_MIN_INTERVAL, in ticks
    Workloads,    \* sets of <<s, v>>: the calls one life of the database asks for
    MaxTime,      \* bound: ticks
    MaxFlips,     \* bound: changes of the lists
    MaxFaults,    \* bound: restarts, failures of downloads, pages that are not the list
    MaxSteps,     \* bound: times the wall clock is set, by a tick
    Epoch,        \* 0.0, the fetched_at of a list that was never fetched
    None

FeedSource == {"tor", "blocklist", "threatfox", "cdn"}
Caller == FeedSource \cup {"virustotal"}

ASSUME SourcesAssumption ==
    /\ FeedsOf \in [FeedSource -> [Item -> Seq(Feed)]]
    /\ Hosts \in [Item -> SUBSET Item] /\ Telling \subseteq Item
    /\ TTL \in [Feed -> Nat] /\ KeepsEmpty \subseteq Feed /\ Lines \subseteq Feed
    /\ Junk \notin Item
    /\ VtInterval \in Nat
    /\ Workloads \subseteq SUBSET (Caller \X Item)
    /\ MaxTime \in Nat /\ MaxFlips \in Nat /\ MaxFaults \in Nat /\ MaxSteps \in Nat
    /\ Epoch \in Int /\ Epoch < 0

VARIABLES
    now,       \* ticks passed
    wall,      \* what time.time() returns
    setback,   \* ticks by which the wall clock has been set back, in all
    steps,     \* times the wall clock was set
    listing,   \* listing[f]: what the list's server would send
    changed,   \* changed[f]: when that changed last (history)
    flips,     \* changes of the lists so far
    cache,     \* cache[f]: the list, fetched_at, and whether the download was sound
    vtLast,    \* _vt_last
    last,      \* the last request to VirusTotal: when, and broken at that time (history)
    broken,    \* restarts, and steps of the wall clock forward (history)
    faults,
    load,      \* the calls that are made (never changes)
    call,      \* the enricher that runs, or None
    answer     \* what the last lookup returned, or None

world == <<listing, changed, flips>>
clock == <<now, wall, setback, steps>>
memory == <<cache, vtLast>>
history == <<last, broken>>
vars == <<clock, world, memory, history, faults, load, call, answer>>

Never == [list |-> {}, at |-> Epoch, sound |-> TRUE]

Init ==
    /\ now = 0 /\ wall = 0 /\ setback = 0 /\ steps = 0
    /\ listing \in [Feed -> SUBSET Item]
    /\ changed = [f \in Feed |-> Epoch]
    /\ flips = 0
    /\ cache = [f \in Feed |-> Never]
    /\ vtLast = Epoch
    /\ last = None /\ broken = 0 /\ faults = 0
    /\ load \in Workloads
    /\ call = None /\ answer = None
-----------------------------------------------------------------------------
(* Time and the world.                                                     *)

Tick ==
    /\ now < MaxTime
    /\ now' = now + 1 /\ wall' = wall + 1
    /\ UNCHANGED <<setback, steps, world, memory, history, faults, call, answer, load>>

\* The wall clock is set, forward or back.
SetClock(d) ==
    /\ steps < MaxSteps
    /\ steps' = steps + 1
    /\ wall' = wall + d
    /\ setback' = IF d < 0 THEN setback + 1 ELSE setback
    /\ broken' = IF d > 0 THEN broken + 1 ELSE broken
    /\ UNCHANGED <<now, world, memory, last, faults, call, answer, load>>

Flip(f, v) ==
    /\ flips < MaxFlips
    /\ flips' = flips + 1
    /\ listing' = [listing EXCEPT ![f] = IF v \in @ THEN @ \ {v} ELSE @ \cup {v}]
    /\ changed' = [changed EXCEPT ![f] = now]
    /\ UNCHANGED <<clock, memory, history, faults, call, answer, load>>
-----------------------------------------------------------------------------
(* The calls.                                                              *)

Running(step) == call # None /\ call.step = step

Call(s, v, step) ==
    [src |-> s, item |-> v, step |-> step, started |-> now, wake |-> now,
     todo |-> IF s \in FeedSource THEN FeedsOf[s][v] ELSE <<>>,
     hits |-> {}, fetch |-> 0, saw |-> {}, excused |-> FALSE]

Answer(says, origins) == [says |-> says, origins |-> origins]

Returns(says, origins) ==
    /\ call' = None
    /\ answer' = Answer(says, origins)

Begins(c) == call = None /\ call' = c /\ answer' = None

\* The enrichers of a list: the next one to be consulted.
BeginLookup(s, v) ==
    /\ <<s, v>> \in load /\ s \in FeedSource
    /\ Begins(Call(s, v, "consult"))
    /\ UNCHANGED <<clock, world, memory, history, faults, load>>

List == Head(call.todo)

\* An empty set or dict is falsy, a tuple that holds one is not.
Valid(f) == wall - cache[f].at <= TTL[f] /\ (f \in KeepsEmpty \/ cache[f].list # {})

\* The list at hand answers; the next list is consulted.
Found(list) == IF call.item \in list THEN call.hits \cup {List} ELSE call.hits

\* A cached list; one from an unsound download excuses a wrong answer.
UseCached ==
    /\ Running("consult") /\ call.todo # <<>>
    /\ Valid(List)
    /\ call' = [call EXCEPT !.hits = Found(cache[List].list), !.todo = Tail(@),
                            !.excused = @ \/ ~cache[List].sound]
    /\ UNCHANGED <<clock, world, memory, history, faults, answer, load>>

\* now = time.time() and the request.
Download ==
    /\ Running("consult") /\ call.todo # <<>>
    /\ ~Valid(List)
    /\ call' = [call EXCEPT !.step = "download", !.fetch = wall, !.saw = listing[List]]
    /\ UNCHANGED <<clock, world, memory, history, faults, answer, load>>

FetchedAtEnd == wall

\* fetched_at is the time before the request.
FetchedAt == call.fetch

\* The reply: the list as it was at some moment of the download, or, from a
\* server in trouble, a page without entries or with other text.
Receive(list, sound) ==
    /\ Running("download")
    /\ IF sound THEN list \in {call.saw, listing[List]} /\ faults' = faults
                ELSE /\ list = {} \/ (List \in Lines /\ list = {Junk})
                     /\ faults < MaxFaults /\ faults' = faults + 1
    /\ cache' = [cache EXCEPT ![List] = [list |-> list, at |-> FetchedAt, sound |-> sound]]
    /\ call' = [call EXCEPT !.step = "consult", !.hits = Found(list), !.todo = Tail(@),
                            !.excused = @ \/ ~sound, !.fetch = 0, !.saw = {}]
    /\ UNCHANGED <<clock, world, vtLast, history, answer, load>>

\* The exception reaches the enricher's try: earlier hits are dropped, the
\* cache is left as it was.
DownloadFails ==
    /\ Running("download")
    /\ faults < MaxFaults /\ faults' = faults + 1
    /\ Returns("error", {})
    /\ UNCHANGED <<clock, world, memory, history, load>>

\* enrich_tor, enrich_blocklist, enrich_threatfox after their last list.
ReturnLookup ==
    /\ Running("consult") /\ call.todo = <<>> /\ call.src # "cdn"
    /\ Returns(IF call.hits = {} THEN "clean" ELSE "listed", {})
    /\ UNCHANGED <<clock, world, memory, history, faults, load>>

\* _detect_provider: the ranges first, then the reverse names that resolve
\* (rev), which every lookup asks for again.
Detected(o, rev) ==
    o \in rev \/ \E f \in ToSet(FeedsOf["cdn"][call.item]) : o \in cache[f].list

\* The addresses found under the origin prefixes that are not a CDN's.
Origins(alive, rev) == {o \in alive : ~Detected(o, rev)}

\* The rest of enrich_cdn: the domain resolves or not; only behind a CDN are
\* origin candidates looked for.
ReturnCdn(resolves, rev, alive, revs) ==
    /\ Running("consult") /\ call.todo = <<>> /\ call.src = "cdn"
    /\ IF ~resolves THEN Returns("error", {})
       ELSE IF call.hits # {} \/ call.item \in rev
       THEN Returns("listed", Origins(alive, revs))
       ELSE Returns("clean", {})
    /\ UNCHANGED <<clock, world, memory, history, faults, load>>

WaitUnchecked == VtInterval - (wall - vtLast)

WaitSwapped == IF VtInterval > vtLast - wall THEN VtInterval - (vtLast - wall) ELSE 0

\* time.sleep is called with what is left, if anything.
Wait == IF VtInterval > wall - vtLast THEN VtInterval - (wall - vtLast) ELSE 0

\* enrich_virustotal sleeps for what is left of the interval.
BeginVirustotal(v) ==
    /\ <<"virustotal", v>> \in load
    /\ Begins([Call("virustotal", v, "sleep") EXCEPT !.wake = now + Wait])
    /\ UNCHANGED <<clock, world, memory, history, faults, load>>

RequestLocal ==
    /\ Running("sleep") /\ now >= call.wake
    /\ last' = [at |-> now, era |-> broken]
    /\ call' = [call EXCEPT !.step = "wait"]
    /\ UNCHANGED <<clock, world, memory, broken, faults, answer, load>>

\* _vt_last is the time before the request, whatever becomes of that.
Request ==
    /\ Running("sleep") /\ now >= call.wake
    /\ vtLast' = wall
    /\ last' = [at |-> now, era |-> broken]
    /\ call' = [call EXCEPT !.step = "wait"]
    /\ UNCHANGED <<clock, world, cache, broken, faults, answer, load>>

\* The reply is turned into a result, an error, or an exception.
ReturnVirustotal ==
    /\ Running("wait")
    /\ call' = None
    /\ UNCHANGED <<clock, world, memory, history, faults, load, answer>>

\* The process dies and is started again (docker-compose.yml: restart): its
\* module-level variables are as at first.
Restart ==
    /\ faults < MaxFaults /\ faults' = faults + 1
    /\ cache' = [f \in Feed |-> Never] /\ vtLast' = Epoch
    /\ broken' = broken + 1
    /\ call' = None /\ answer' = None
    /\ UNCHANGED <<clock, world, last, load>>
-----------------------------------------------------------------------------
Elsewhere ==
    \/ Tick
    \/ \E d \in {-1, 1} : SetClock(d)
    \/ \E f \in Feed, v \in Item : Flip(f, v)

Lookup ==
    \/ \E s \in FeedSource, v \in Item : BeginLookup(s, v)
    \/ UseCached \/ Download \/ DownloadFails
    \/ \E list \in SUBSET (Item \cup {Junk}), sound \in BOOLEAN : Receive(list, sound)
    \/ ReturnLookup
    \/ \E resolves \in BOOLEAN, rev, revs \in SUBSET Telling :
          \E alive \in SUBSET (IF call = None THEN {} ELSE Hosts[call.item]) :
             ReturnCdn(resolves, rev, alive, revs)

Query ==
    \/ \E v \in Item : BeginVirustotal(v)
    \/ Request
    \/ ReturnVirustotal

Next == Elsewhere \/ Lookup \/ Query \/ Restart

Spec == Init /\ [][Next]_vars
-----------------------------------------------------------------------------
(* Properties.                                                             *)

Consulted(c) == ToSet(FeedsOf[c.src][c.item])

\* No list of call c has changed since a list that is within its TTL at the
\* start of c may have been downloaded; a clock that was set back lengthens that.
Settled(c) == \A f \in Consulted(c) : changed[f] + TTL[f] + setback < c.started

\* What an answer a may say of lists that have settled.
Agrees(c, a) ==
    LET listed == {v \in Item : \E f \in Consulted(c) : v \in listing[f]} IN
    /\ a.says = "listed" => c.item \in listed \/ (c.src = "cdn" /\ c.item \in Telling)
    /\ a.says = "clean" => c.item \notin listed
    /\ a.origins \cap listed = {}

\* tor, blocklist, threatfox and cdn answer by lists no older than the TTL,
\* whatever downloads fail, restarts happen and clocks are set: an outage gives
\* an error, never a false "clean".  Only a page without the list's entries
\* misleads; an empty one misleads no later call where empty lists are not kept.
AnswersCurrent ==
    [][\A c \in {call} :
         c # None /\ call' = None /\ answer' # None /\ c.src \in FeedSource
             /\ Settled(c) /\ ~c.excused
         => Agrees(c, answer')]_vars

\* Two consecutive requests to VirusTotal are VT_MIN_INTERVAL apart (so at most
\* four in a minute), except over a restart, which forgets _vt_last, or a clock
\* set forward.
RequestsSpaced ==
    [][Running("sleep") /\ last # None /\ last.era = broken /\ call' # None /\ call'.step = "wait"
         => now - last.at >= VtInterval]_vars

\* The pause before a request does not outlast VT_MIN_INTERVAL by more than the
\* wall clock was set back: the single-threaded round waits for it.
PauseBounded ==
    Running("sleep") => call.wake <= call.started + VtInterval + setback

Calls == [src : Caller, item : Item, step : {"consult", "download", "sleep", "wait"},
          started : Nat, wake : Nat, todo : Seq(Feed), hits : SUBSET Feed, fetch : Int,
          saw : SUBSET Item, excused : BOOLEAN]

TypeOK ==
    /\ now \in 0 .. MaxTime /\ wall \in Int /\ setback \in 0 .. steps /\ steps \in 0 .. MaxSteps
    /\ listing \in [Feed -> SUBSET Item] /\ changed \in [Feed -> Int] /\ flips \in 0 .. MaxFlips
    /\ cache \in [Feed -> [list : SUBSET (Item \cup {Junk}), at : Int, sound : BOOLEAN]]
    /\ vtLast \in Int
    /\ last \in [at : 0 .. now, era : 0 .. broken] \cup {None} /\ broken \in Nat /\ faults \in 0 .. MaxFaults
    /\ load \in Workloads
    /\ call \in Calls \cup {None}
    /\ call # None => (call.step \in {"consult", "download"} <=> call.src \in FeedSource)
    /\ call # None /\ call.step = "download" => call.todo # <<>>
    /\ answer # None => answer.origins \subseteq Item
=============================================================================
