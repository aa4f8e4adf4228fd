------------------------------ MODULE Monitor -------------------------------
(***************************************************************************)
(* Watching indicators and targets: the tables watchlist and alerts        *)
(* (migrations/005_watchlist.sql), the API handlers that add and delete    *)
(* watchlist rows (api/watchlist.go) and the worker that compares what it  *)
(* observes of each watched object with what it stored the last time       *)
(* (worker/monitor_worker.py).                                             *)
(*                                                                         *)
(* A round reads the whole watchlist once; its items take seconds each,    *)
(* all on one connection, whose transaction an error leaves aborted.       *)
(* Indicators are looked up in lists that the process downloads            *)
(* (worker/worker.py) and keeps for one or six hours, so that a reading    *)
(* may be older than the watch itself.                                     *)
(***************************************************************************)
EXTENDS Integers, Sequences, FiniteSets, SequencesExt

CONSTANTS
    Ioc,          \* watched indicators, by id
    Target,       \* watched targets, by id
    Domains,      \* those of type domain; the "ips" of an address is itself
    Keys,         \* Keys[o]: the keys of o's signature, by o's kind and type
    Unreliable,   \* lists whose download may fail; "ips" if the resolver may
    Worlds,       \* the sets of objects of which there is one to begin with
    MaxWatch,     \* bound: rows ever inserted into watchlist
    MaxFlips,     \* bound: changes of the world
    MaxFaults,    \* bound: sessions that break, downloads and resolutions that fail
    None

Ref == Ioc \cup Target

\* What a signature holds: facts and flags.
Count == {"assets", "findings"}
Fact == {"ips"} \cup Count
Flag == {"tor", "blocklist", "threatfox"}
Key == Fact \cup Flag

\* The lists behind the flags, in the order in which they are consulted.
ListOrder == <<"tor", "cert", "urlhaus", "feodo", "threatfox">>
List == {"tor", "cert", "urlhaus", "feodo", "threatfox"}
KeyOf(l) == IF l \in {"cert", "urlhaus", "feodo"} THEN "blocklist" ELSE l

\* Those that ioc_signature looks o up in.
Consulted(o) ==
    {l \in List : /\ KeyOf(l) \in Keys[o]
                  /\ l \in {"cert", "urlhaus"} => o \in Domains
                  /\ l = "feodo" => o \notin Domains}

Wids == 1 .. MaxWatch

ASSUME MonitorAssumption ==
    /\ Keys \in [Ref -> SUBSET Key]
    /\ \A o \in Ioc : Keys[o] \cap Count = {} /\ ("ips" \in Keys[o] \/ Keys[o] = {"threatfox"})
    /\ \A o \in Target : Keys[o] = Count
    /\ Domains \subseteq Ioc /\ Ioc \cap Target = {}
    /\ Unreliable \subseteq List \cup {"ips"}
    /\ Worlds \subseteq SUBSET Ref
    /\ MaxWatch \in Nat /\ MaxFlips \in Nat /\ MaxFaults \in Nat
    /\ None \notin Ref /\ None \notin [Key -> Nat \cup {-1}]
    /\ \A S \in SUBSET Ioc : S # None

\* What a key of a signature holds: a count; for a flag 0 or 1; for "ips" one of
\* two address lists.  Missing is what a failure leaves: a flag is then missing
\* from the dict (except: pass), "ips" is the empty list.
Missing == -1
Value == Nat \cup {Missing}

VARIABLES
    exists,       \* the objects still in the tables iocs and targets
    truth,        \* truth[o][k]: the addresses of o, the number of rows that refer to it
    listing,      \* listing[l]: the indicators on list l
    adding,       \* objects whose label addWatch has read, not yet inserted
    watch,        \* watch[w]: ref_id of watchlist row w, or None
    nextW,        \* next value of its id sequence
    sig,          \* sig[w]: stored signature, None for NULL
    alerts,       \* alerts[w][k]: alerts of key k stored for row w
    pc,           \* worker: "down", "idle", "read", "store"
    rest,         \* worker: rows left in this round, as the round read them
    txn,          \* its transaction: "ok", or "aborted" (only ROLLBACK helps)
    seen,         \* of the item at hand: its number of assets, its addresses
    cache,        \* cache[l]: its copy of list l, None without one (or an old one)
    failed,       \* the lists it could not download for the item at hand
    faults,
    flips,        \* changes of the world so far
    outages,      \* readings spoilt by a resolver or by downloads, and lists that
                  \* were something else when they were downloaded
    changes,      \* history: changes[w][k], changes of the world since row w exists
                  \* (of a count: its growth)
    lag           \* history: lag[w][k], the cached lists of key k that were out of
                  \* date about row w's object when w was inserted

world == <<exists, truth, listing, flips, outages>>
table == <<adding, watch, nextW, sig, alerts, lag>>
worker == <<pc, rest, txn, seen, cache, failed>>
vars == <<world, table, worker, faults, changes>>

Zero == [k \in Key |-> 0]
Signature == [Key -> Value]

TypeOK ==
    /\ exists \subseteq Ref
    /\ truth \in [Ref -> [Fact -> Nat]]
    /\ listing \in [List -> SUBSET Ioc]
    /\ adding \subseteq Ref
    /\ watch \in [Wids -> Ref \cup {None}]
    /\ nextW \in 1 .. MaxWatch + 1
    /\ sig \in [Wids -> Signature \cup {None}]
    /\ alerts \in [Wids -> [Key -> Nat]]
    /\ pc \in {"down", "idle", "read", "store"}
    /\ rest \in Seq([id : Wids, ref : Ref, sig : Signature \cup {None}])
    /\ txn \in {"ok", "aborted"}
    /\ seen \in Value
    /\ cache \in [List -> {None} \cup SUBSET Ioc]
    /\ failed \subseteq List
    /\ faults \in Nat /\ flips \in Nat /\ outages \in Nat
    /\ changes \in [Wids -> [Key -> Nat]]
    /\ lag \in [Wids -> [Key -> Nat]]

Unset == [w \in Wids |-> None]

Init ==
    /\ exists \in Worlds
    /\ truth = [o \in Ref |-> [k \in Fact |-> 0]]
    /\ listing \in {f \in [List -> SUBSET (Ioc \cap exists)] :
                      \A l \in List : \A o \in f[l] : l \in Consulted(o)}
    /\ adding = {}
    /\ watch = Unset /\ nextW = 1
    /\ sig = Unset
    /\ alerts = [w \in Wids |-> Zero]
    /\ pc = "down" /\ rest = <<>> /\ txn = "ok" /\ seen = 0
    /\ cache = [l \in List |-> None] /\ failed = {}
    /\ faults = 0 /\ flips = 0 /\ outages = 0
    /\ changes = [w \in Wids |-> Zero]
    /\ lag = [w \in Wids |-> Zero]

Watched(w) == watch[w] # None
-----------------------------------------------------------------------------
(* The world and the API.                                                  *)

\* A change of what key k of o stands for, while o is registered or watched.
Flips(o, k) ==
    /\ o \in exists \/ \E w \in Wids : watch[w] = o
    /\ flips < MaxFlips
    /\ flips' = flips + 1
    /\ changes' = [w \in Wids |-> IF watch[w] = o THEN [changes[w] EXCEPT ![k] = @ + 1]
                                                ELSE changes[w]]
    /\ UNCHANGED <<exists, outages, table, worker, faults>>

\* An address changes; a scan of a target commits an asset or a finding it did not
\* have.
Flip(o, k) ==
    /\ k \in Keys[o] \cap Fact
    /\ k = "ips" => o \in Domains
    /\ k \in Count => o \in exists
    /\ truth' = [truth EXCEPT ![o][k] = IF k \in Count THEN @ + 1 ELSE (@ + 1) % 2]
    /\ UNCHANGED listing
    /\ Flips(o, k)

\* An indicator is put on a list, or taken off it.
Relist(o, l) ==
    /\ l \in Consulted(o)
    /\ listing' = [listing EXCEPT ![l] = IF o \in @ THEN @ \ {o} ELSE @ \cup {o}]
    /\ UNCHANGED truth
    /\ Flips(o, KeyOf(l))

\* deleteIOC, deleteTarget: no key relates watchlist.ref_id to either table, its
\* rows stay; assets and findings go with their target.
Delete(o) ==
    /\ o \in exists
    /\ exists' = exists \ {o}
    /\ truth' = [truth EXCEPT ![o] = [k \in Fact |-> IF k \in Count THEN 0 ELSE @[k]]]
    /\ UNCHANGED <<listing, flips, outages, table, worker, faults, changes>>

\* addWatch reads the label in one statement ...
AddWatchReads(o) ==
    /\ o \in exists
    /\ adding' = adding \cup {o}
    /\ UNCHANGED <<world, watch, nextW, sig, alerts, lag, worker, faults, changes>>

\* The worker's lists of key k that are out of date about o.
Outdated(o, k) ==
    {l \in Consulted(o) : KeyOf(l) = k /\ cache[l] # None
                          /\ ~(o \in cache[l] <=> o \in listing[l])}

\* ... and inserts in another, unless the object is watched already.
AddWatchInserts(o) ==
    /\ o \in adding
    /\ adding' = adding \ {o}
    /\ \/ /\ \A w \in Wids : watch[w] # o
          /\ nextW \in Wids
          /\ watch' = [watch EXCEPT ![nextW] = o]
          /\ nextW' = nextW + 1
          /\ lag' = [lag EXCEPT ![nextW] = [k \in Key |-> Cardinality(Outdated(o, k))]]
       \/ /\ \E w \in Wids : watch[w] = o
          /\ UNCHANGED <<watch, nextW, lag>>
    /\ UNCHANGED <<world, sig, alerts, worker, faults, changes>>

\* deleteWatch: the row's alerts go with it (ON DELETE CASCADE).
DeleteWatch(w) ==
    /\ Watched(w)
    /\ watch' = [watch EXCEPT ![w] = None]
    /\ sig' = [sig EXCEPT ![w] = None]
    /\ alerts' = [alerts EXCEPT ![w] = Zero]
    /\ UNCHANGED <<world, adding, nextW, lag, worker, faults, changes>>
-----------------------------------------------------------------------------
(* The worker.                                                             *)

Connect ==
    /\ pc = "down"
    /\ pc' = "idle" /\ txn' = "ok"
    /\ UNCHANGED <<world, table, rest, seen, cache, failed, faults, changes>>

\* The session ends: uncommitted work is rolled back, the round is forgotten.
Abort ==
    /\ pc' = "down" /\ rest' = <<>> /\ txn' = "ok" /\ seen' = 0 /\ failed' = {}
    /\ UNCHANGED <<world, table, cache, changes>>

ById(S) == {ids \in SetToSeqs(S) : \A m, n \in DOMAIN ids : m < n => ids[m] < ids[n]}

RowIdsEver == ById(Wids)

\* ORDER BY id: the one such sequence.
RowIds == ById({w \in Wids : Watched(w)})

\* SELECT ... FROM watchlist, at the start of a round.
BeginRound ==
    /\ pc = "idle" /\ txn = "ok"
    /\ \E ids \in RowIds :
          rest' = [n \in DOMAIN ids |->
                     [id |-> ids[n], ref |-> watch[ids[n]], sig |-> sig[ids[n]]]]
    /\ pc' = "read"
    /\ UNCHANGED <<world, table, txn, seen, cache, failed, faults, changes>>

RoundRefusedSwallowed ==
    /\ pc = "idle" /\ txn = "aborted"
    /\ UNCHANGED vars

\* In an aborted transaction the SELECT raises, outside the loop's try.
RoundRefused ==
    /\ pc = "idle" /\ txn = "aborted"
    /\ Abort
    /\ UNCHANGED faults

Item == Head(rest)

\* Something fails, within the bound.
Failures == faults + outages + (IF failed = {} THEN 0 ELSE 1)
MayFail == Failures < MaxFaults

\* check_ioc finds its indicator and the resolver answers; check_target counts the
\* assets, of a deleted target too.
ReadItem ==
    /\ pc = "read" /\ rest # <<>> /\ txn = "ok"
    /\ Item.ref \in exists \cup Target
    /\ seen' = truth[Item.ref][IF Item.ref \in Target THEN "assets" ELSE "ips"]
    /\ pc' = "store"
    /\ UNCHANGED <<world, table, rest, txn, cache, failed, faults, changes>>

\* resolve_all swallows the failure and returns the empty list.
ResolverFails ==
    /\ pc = "read" /\ rest # <<>> /\ txn = "ok"
    /\ Item.ref \in exists \cap Domains /\ "ips" \in Unreliable
    /\ MayFail
    /\ outages' = outages + 1
    /\ seen' = Missing
    /\ pc' = "store"
    /\ UNCHANGED <<exists, truth, listing, flips, table, rest, txn, cache, failed, faults,
                   changes>>

\* The indicator has been deleted and check_ioc returns; or the transaction is
\* aborted, every statement raises, and process catches that without a rollback.
SkipItem ==
    /\ pc = "read" /\ rest # <<>>
    /\ txn = "aborted" \/ Item.ref \notin exists \cup Target
    /\ rest' = Tail(rest)
    /\ UNCHANGED <<world, table, pc, txn, seen, cache, failed, faults, changes>>

\* cert or urlhaus: the second list is not consulted if the first one knows the
\* domain, nor if it could not be downloaded.
Settled(o, l) ==
    /\ l = "urlhaus"
    /\ "cert" \in failed \/ (cache["cert"] # None /\ o \in cache["cert"])

\* The lists that are still to be downloaded for o, and the next of them.
Lacking(o) ==
    {l \in Consulted(o) : cache[l] = None /\ l \notin failed /\ ~Settled(o, l)}

Wanted(l) ==
    /\ pc = "store"
    /\ l \in Lacking(Item.ref)
    /\ \A m, n \in DOMAIN ListOrder :
          ListOrder[m] \in Lacking(Item.ref) /\ ListOrder[n] = l => n <= m

\* _get_tor_exits, _cached_set, _threatfox_map without a recent copy.
Download(l) ==
    /\ Wanted(l)
    /\ cache' = [cache EXCEPT ![l] = listing[l]]
    /\ UNCHANGED <<world, table, pc, rest, txn, seen, failed, faults, changes>>

\* Another page with status 200 is taken for the list, line by line; ThreatFox's
\* alone has to be JSON.
DownloadOther(l) ==
    /\ Wanted(l) /\ l # "threatfox" /\ l \in Unreliable
    /\ MayFail
    /\ outages' = outages + 1
    /\ cache' = [cache EXCEPT ![l] = {}]
    /\ UNCHANGED <<exists, truth, listing, flips, table, pc, rest, txn, seen, failed, faults,
                   changes>>

\* The request raises (no answer, an error status): the key is left out.
DownloadFails(l) ==
    /\ Wanted(l) /\ l \in Unreliable
    /\ failed = {} => MayFail
    /\ failed' = failed \cup {l}
    /\ UNCHANGED <<world, table, pc, rest, txn, seen, cache, faults, changes>>

\* TOR_TTL or BLOCKLIST_TTL passes (or the process has been restarted).  Within an
\* item each list is consulted once.
Expire(l) ==
    /\ pc # "store" /\ cache[l] # None
    /\ cache' = [cache EXCEPT ![l] = None]
    /\ UNCHANGED <<world, table, pc, rest, txn, seen, failed, faults, changes>>

LooksUp(o, k) ==
    IF \E l \in Consulted(o) \cap failed : KeyOf(l) = k THEN Missing
    ELSE IF \E l \in Consulted(o) : KeyOf(l) = k /\ cache[l] # None /\ o \in cache[l] THEN 1
    ELSE 0

\* What ioc_signature returns; the two counts of check_target.
Reading(o) ==
    [k \in Key |-> IF k \notin Keys[o] THEN Missing
                   ELSE IF k \in Flag THEN LooksUp(o, k)
                   ELSE IF k = "findings" THEN truth[o][k] ELSE seen]

\* Python's "not old": NULL, or a dict without any key.
Falsy(o, s) == s = None \/ ("ips" \notin Keys[o] /\ \A k \in Keys[o] : s[k] = Missing)

ChangedSwapped(k, before, now) ==
    \/ k = "ips" /\ now # before
    \/ k \in Count /\ now > before
    \/ k \in Flag /\ before = 1 /\ now # 1

Changed(k, before, now) ==
    \/ k = "ips" /\ now # before
    \/ k \in Count /\ now > before
    \/ k \in Flag /\ now = 1 /\ before # 1

DiffNoBaseline(o, before, now) ==
    {k \in Keys[o] : Changed(k, IF before = None THEN 0 ELSE before[k], now[k])}

\* diff_alerts and its like in check_target: an alert for another address list,
\* for a flag that is set now and was not (or was not known) before, and for a
\* count that has grown.
Diff(o, before, now) ==
    IF Falsy(o, before) THEN {} ELSE {k \in Keys[o] : Changed(k, before[k], now[k])}

\* What an alert adds up to: "Nowe assety: +n".
Amount(k, before, now) == IF k \in Count THEN now - before ELSE 1

\* Alerts and signature are one transaction.
StoreItem(s) ==
    /\ Watched(Item.id)
    /\ alerts' = [alerts EXCEPT ![Item.id] =
                    [k \in Key |-> IF k \in Diff(Item.ref, Item.sig, s)
                                   THEN @[k] + Amount(k, Item.sig[k], s[k]) ELSE @[k]]]
    /\ sig' = [sig EXCEPT ![Item.id] = s]
    /\ UNCHANGED <<adding, watch, nextW, lag, txn>>

StoreVanishedUpserting(s) ==
    /\ ~Watched(Item.id)
    /\ sig' = [sig EXCEPT ![Item.id] = s]
    /\ UNCHANGED <<adding, watch, nextW, alerts, lag, txn>>

\* The row has been deleted since the round read it: UPDATE finds nothing, but
\* an alert violates the foreign key and leaves the transaction aborted.
StoreVanished(s) ==
    /\ ~Watched(Item.id)
    /\ txn' = IF Diff(Item.ref, Item.sig, s) = {} THEN "ok" ELSE "aborted"
    /\ UNCHANGED table

\* The rest of check_ioc with every list at hand: compare, store; or of
\* check_target: count the findings, compare, store.
Check ==
    /\ pc = "store" /\ Lacking(Item.ref) = {}
    /\ LET s == Reading(Item.ref) IN StoreItem(s) \/ StoreVanished(s)
    /\ outages' = IF failed = {} THEN outages ELSE outages + 1
    /\ pc' = "read" /\ rest' = Tail(rest) /\ seen' = 0 /\ failed' = {}
    /\ UNCHANGED <<exists, truth, listing, flips, cache, faults, changes>>

\* INTERVAL passes before the next round.
EndRound ==
    /\ pc = "read" /\ rest = <<>>
    /\ pc' = "idle"
    /\ UNCHANGED <<world, table, rest, txn, seen, cache, failed, faults, changes>>

\* The session breaks or the process dies, before or after any commit.
Fail ==
    /\ pc # "down"
    /\ MayFail
    /\ faults' = faults + 1
    /\ Abort
-----------------------------------------------------------------------------
World ==
    \E o \in Ref :
        Delete(o) \/ (\E k \in Key : Flip(o, k)) \/ (\E l \in List : Relist(o, l))

API ==
    \/ \E o \in Ref : AddWatchReads(o) \/ AddWatchInserts(o)
    \/ \E w \in Wids : DeleteWatch(w)

Worker ==
    \/ Connect \/ BeginRound \/ RoundRefused
    \/ ReadItem \/ SkipItem \/ Check \/ EndRound
    \/ \E l \in List : Download(l) \/ DownloadOther(l) \/ DownloadFails(l)

Next == World \/ API \/ Worker \/ ResolverFails \/ Fail \/ \E l \in List : Expire(l)

Spec == Init /\ [][Next]_vars

\* The worker's loop runs for ever, and a list is old in the end whenever it is
\* between two items (worker.py: the age is computed from time.time()).
FairSpec ==
    /\ Spec
    /\ WF_vars(Worker)
    /\ \A l \in UNION {Consulted(o) : o \in Ref} : SF_vars(Expire(l))
-----------------------------------------------------------------------------
(* Properties.                                                             *)

\* Nothing is stored for a watchlist row that was deleted in mid-round.
NothingOfUnwatched ==
    \A w \in Wids : ~Watched(w) => alerts[w] = Zero /\ sig[w] = None

\* What one failure may add: a flag that comes back once, an address list that
\* goes and comes back.
FalseAlerts(k) == IF k = "ips" THEN 2 ELSE 1

\* No change is alerted twice, and no growth of a target counted twice, whatever
\* crashes, aborts or is deleted in between.  A list that was out of date when the
\* watch began costs one false alert at most, so does a failed download; a failed
\* resolution costs two.
AlertsBounded ==
    \A w \in Wids : Watched(w) =>
        \A k \in Key : alerts[w][k] <= changes[w][k] + lag[w][k] + FalseAlerts(k) * outages

\* DOKUMENTACJA.md:344 "first reading = baseline (no alert); an alert only on a
\* real change": no more alerts than the watched property has changed while it
\* was watched.
AlertsJustified ==
    \A w \in Wids : Watched(w) => \A k \in Key : alerts[w][k] <= changes[w][k]

\* Every watched row whose object exists gets its baseline, although an aborted
\* transaction costs the items after it the rest of the round.
EveryItemChecked ==
    []<>(\A w \in Wids : Watched(w) /\ watch[w] \in exists => sig[w] # None)

\* The property of o that key k stands for.
Present(o, k) ==
    IF k \in Fact THEN truth[o][k]
    ELSE IF \E l \in Consulted(o) : KeyOf(l) = k /\ o \in listing[l] THEN 1 ELSE 0

\* What key k of row w stands for has risen above what is stored.
Unalerted(w, k) ==
    /\ Watched(w) /\ watch[w] \in exists /\ ~Falsy(watch[w], sig[w])
    /\ k \in Keys[watch[w]] \ {"ips"}
    /\ Present(watch[w], k) > 0 /\ Present(watch[w], k) > sig[w][k]

\* The rise is gone before it was seen: deleted, unwatched, off the list again.
Withdrawn(w, k) ==
    ~Watched(w) \/ watch[w] \notin exists \/ Present(watch[w], k) = 0

\* A failed download has left a signature without any key: of a hash or a url,
\* which only ThreatFox knows of.  The next reading is a baseline again.
Emptied(w) == Watched(w) /\ sig[w] # None /\ Falsy(watch[w], sig[w])

\* DOKUMENTACJA.md:339 "an alert on a difference": an indicator known to be off
\* a list that gets listed, and stays so, is alerted when it is noticed, unless a
\* failure has emptied its signature; so is every asset and finding a target gains
\* after its baseline; and in the end there is nothing left to notice.
RiseAlerted ==
    /\ [][\A w \in Wids, k \in Key :
            Unalerted(w, k) /\ ~Unalerted(w, k)'
                => alerts'[w][k] > alerts[w][k] \/ Withdrawn(w, k)' \/ Emptied(w)']_vars
    /\ []<>(\A w \in Wids, k \in Key : ~Unalerted(w, k))
=============================================================================
