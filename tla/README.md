# TI aggregator: specification and verification

This directory holds TLA+ specifications of the TI aggregator (a threat
intelligence aggregator: a Go API with a web page, three Python workers and
PostgreSQL), the TLC instances that check them and TLAPS proofs about them.
Paths below are relative to the repository's root (`api/`, `worker/`,
`migrations/`); a definition's lines are in `PROJECT.json`, under `map`.

## 1. The system

```
 browser --HTTP--> api (Go) --SQL--> PostgreSQL <--SQL-- worker.py        (enrichment)
    ^                 |                  |       <--SQL-- recon_worker.py  (reconnaissance)
    +---- SSE --------+ <---- NOTIFY ----+       <--SQL-- monitor_worker.py (monitoring)
```

No two programs talk to each other directly except browser and API. Everything
else goes through tables, foreign keys, row locks, and one notification channel
(`enrichments`). Each worker is one process with one database connection and an
endless loop: connect, work, and after any exception close and reconnect after
3 s. `docker-compose.yml` restarts the three workers when they end (`restart:
unless-stopped`), but not the API.

| component | state | operations | talks to | what is hard |
|---|---|---|---|---|
| IOC database (`migrations/001_init.sql`) | `iocs`, `enrichments` | insert, delete with cascade, foreign key lock | API, worker | no `UNIQUE (ioc_id, source)`; deletes against uncommitted inserts |
| IOC API (`api/iocs.go`) | none | create, get, list, delete | database, browser | two statements in `getIOC`, 3 s timeouts |
| Log import (`api/import.go`) | none | extract addresses and names, insert each | database | one insert of many fails |
| Enrichment worker (`worker/worker.py`) | position in `ENRICHERS`, batch, transaction | select batch, ask source, insert, commit and notify | database, sources | seconds between read and write, exceptions, lost COMMIT answers |
| Feed caches (`worker/worker.py`) | lists and fetch times | refresh after TTL | feeds | failed refresh, a page that is not the list, lists that change during the download |
| VirusTotal limit (`worker/worker.py`) | time of the last call | wait | VirusTotal | a restart forgets it, the wall clock is set |
| Enrichers (`worker/worker.py`) | none | one function per source | external services | what ends in data, an error dict or an exception |
| Listener and hub (`api/sse.go`) | session, map of channels, mutex | listen, broadcast, subscribe, unsubscribe, stream | database, browsers | three kinds of goroutines, full and closed channels, lost sessions |
| Recon API (`api/recon.go`) | `targets`, `assets`, `findings` | create, delete, list | database | deletion in mid-scan |
| Recon worker (`worker/recon_worker.py`) | round, scan in progress, transaction | find, resolve, check, record | database, network | one scan is many commits; polls that find nothing share one transaction, in which `now()` stands still |
| Passive checks (`worker/checks.py`) | none | findings of one host, zone transfer | network | - |
| Watchlist API (`api/watchlist.go`) | `watchlist`, `alerts` | add, delete, list | database | two statements; no key to the watched object |
| Monitor worker (`worker/monitor_worker.py`) | round, transaction, cached lists | signature, compare, alert | database, feeds | exception without rollback, failing feeds, lists older than the watch, stale round |
| Pivots (`api/pivots.go`) | none | relations of an indicator | database | several statements against a running worker |
| Risk (`api/risk.go`), STIX (`api/stix.go`), MITRE (`api/mitre.go`) | none | pure functions | detail API | duplicates, errors, escaping |
| Overview (`api/overview.go`), server (`api/main.go`, `api/respond.go`) | none | counts, routing, health | database | - |
| Web page (`api/web/index.html`) | selected id, signature of the drawn panel, EventSource | refresh, open detail, delete | API, SSE | answers that overtake each other |

What makes each of them correct:

- *Pipeline*: a source records once for an indicator, or at worst once more per
  broken session; nothing survives the deletion of its indicator; every indicator
  is answered by every source that covers its type; a lock that blocks a DELETE is
  given back.
- *Events*: a browser sees notifications in commit order and none twice; the
  listener never waits for a browser and never sends on a closed channel; what a
  browser misses has a cause (nobody listened, its channel was full).
- *Reconnaissance*: a target shown as `done` has everything its last scan
  reported; nothing survives its deletion; a new target is not starved; a scan is
  not repeated before its time; an interrupted scan is completed.
- *Monitoring*: one alert for a change, and none without except after a failure or
  from a list that was cached before the watch began; a failed item does not stop
  the others for good; nothing survives the deletion of a watch.
- *Page*: a panel is left as drawn only while it shows what it would be drawn
  from, unless calls overlapped or failed; every change of the selected indicator
  is noticed; the list shows the registered indicators again after each change.
- *Pivots*: the answer is the relations of one state of the database if nothing
  changes meanwhile, and otherwise still misses no relation that was there all
  along and calls none weak that is not.
- *Sources*: an answer from lists is no older than their TTL, and a failed
  download is an error, never a false "clean"; requests to VirusTotal keep their
  interval and the pause before them is bounded. (That no reply of a service makes
  an enricher raise would be needed too, and is not so: `enrichment_blocked`.)
- *Risk, STIX, MITRE, overview, the counts of an import*: see section 5.

## 2. Modules

| module | models | state and actions in the code |
|---|---|---|
| `Registry` | abstract: registered indicators and result counts | `Register`, `Remove`, `Record` |
| `Enrichment` | `001_init.sql`, `iocs.go`, `import.go`, `worker.py` | `iocs`, `enr`: the tables; `k`, `batch`: `process_once`'s loop and `process_source`'s rows; `txn`: its open transaction; `orphan`: a COMMIT in flight. `AddIOC`, `DeleteIOC`; `SelectBatch`, `Enrich`, `InsertFails`, `EnricherRaises`, `Commit` |
| `LossyBroadcast` | abstract: an event stream with losses | `Publish`, `Show` |
| `Hub` | `sse.go`, the page's EventSource | `subs`, `chan`, `closed`: `hub` and its channels; `bc`, `todo`: the running `broadcast`, which holds `h.mu`; `hpc`: a handler's position |
| `Recon` | `002`-`004`, `recon.go`, `recon_worker.py`, `checks.py` | `scanned`, `stale`: the order of `last_scanned_at` and the part older than RESCAN_HOURS; `rows`, `hosts`, `found`: locals of `process_once` and `scan_target`; `pc` "idle": the transaction of a poll that found nothing, still open |
| `Monitor` | `005`, `watchlist.go`, `monitor_worker.py` | `sig`, `alerts`: the columns; `rest`: the round as read; `txn`: the connection's transaction; `seen`: the addresses resolved, or `check_target`'s first count; `listing`: the lists as their servers have them; `cache`: the copies of `worker.py`'s caches that are within their TTL; `failed`: the lists that could not be downloaded for this item; `truth`: an indicator's addresses, a target's rows |
| `Enrichers` | the enrichers of `worker.py` | no state: which replies of its service give data, an error dict or an exception; `MCEnrichment` takes from it which indicators an enricher raises on |
| `Sources` | the caches and `_vt_last` of `worker.py`, and one enricher at a time | `cache`: a list with `fetched_at`; `vtLast`: `_vt_last`; `call`: the running enricher with the lists it has yet to consult; `now`, `wall`: time passed and `time.time()`; `listing`: what the servers of the lists would send |
| `Page` | `showDetail`, `loadList`, the delete button and the refreshes of `index.html`, `getIOC`, `listIOCs` | `selectedId`, `lastDetailSig`, `lastListSig`: the page's variables; `panel`: indicator, number of enrichments and relations as drawn; a call in flight is a record with its statement or answer |
| `Pivots` | `pivots.go` | `focalIPs`, `cdnIPs`, `rest`, `related`, `low`, `byAsn`: `getPivots`' locals; one step per statement |
| `EnrichmentProofs`, `HubProofs`, `ReconProofs`, `MonitorProofs`, `SourcesProofs`, `PivotsProofs`, `PageProofs` | theorems about the module each is named for | |
| `MCEnrichment`, `MCHub`, `MCRecon`, `MCMonitor`, `MCSources`, `MCPage`, `MCPivots` | constants for TLC | |

`Enrichment` implements `Registry` (`ImplementsRegistry`: a committed batch is
one `Record`), `Hub` implements `LossyBroadcast` (`ImplementsBroadcast`).

Granularity. A SQL statement in autocommit is one step. A transaction is as many
steps as it has statements with something between them that others can see or that
may fail: the worker's batch is read in one step, each row inserted in one,
committed in one. The recon worker's poll, when it finds nothing, leaves its
transaction open, and the next polls are in it. `scan_target`'s first transaction,
and the alerts and the update with which the monitor stores an item, are one step,
because the tables show nothing of them before the commit and nothing is awaited
between their statements. What the monitor reads of an item is a step of its own:
seconds pass before the resolver and the lists' servers have answered, each download
is a step, and between `check_target`'s two counts a scan may commit and a delete
may come. A download is two steps, since the list and the clock move meanwhile, and
so is a request to VirusTotal; what the enricher does between them is one. A
goroutine's critical section under `h.mu` is one step, except `broadcast`'s loop,
whose sends interleave with the handlers that receive.

PostgreSQL is modelled by what the code relies on: sequences do not reuse ids,
`ON DELETE CASCADE` deletes with the parent, an uncommitted insert holds its
parent row, a foreign key refuses a child without parent, a broken session is
rolled back unless its COMMIT was received, NOTIFY reaches the sessions that
listen at the commit. The steps of the server itself are marked external.

Values are abstract: an indicator is a model value, an enricher returns `data` or
`error` or raises, an address list is one of two values, a copy of a list is the set
of watched indicators on it, a finding is a host and a title. The relations in the
panel are the number of enrichments `getPivots` looked them up by (what it answers
is `Pivots`' matter): they are up to date with the drawing if that is no less than
the number drawn. That the relations of an indicator may also change through other
indicators, of which this page hears nothing, is left out. Values that only change a
text are left out. In `Enrichers` a service's reply is classed by what the code can
tell apart: no reply, kinds of status, and bodies that are not JSON, that have
fields of other types, that say the service failed, or that are good.

The lists of `Monitor`. `ioc_signature` looks an indicator up in the lists that
`worker.py` caches for one hour (Tor) or six. `Consulted` says which ones, by kind
and type; `KeyOf` which key of the signature each one is behind; `Settled` that of
the two lists for a domain the second one is not asked if the first one knows it,
nor if its download failed. A copy is either within its TTL or gone: `Expire`
may come at any time between two items, which covers a restart and every TTL. A
failed download raises, and its key is left out of the signature (`Missing`);
another page in place of the list is taken for a list without the indicator
(`DownloadOther`), save ThreatFox's, which has to be JSON. `lag` notes how many
copies were out of date about an object when its watch began, `outages` counts
the spoilt readings and lists. Left out are two answers that are downloaded again
by each reading, because an empty list does not count as cached: an empty JSON
object from ThreatFox, an empty page from Tor.

The hub's browsers. `Open` lets a browser connect when its last handler is gone. In
the program an EventSource may be back before that handler has seen its
connection close. The two handlers then have a channel each, and what is sent to
the old one nobody reads: the same as a browser that has gone and not been
noticed yet, which the model has, next to a second browser.

The clock of `Sources`. The code measures the age of a list and of the last
request with `time.time()`, so the module has two clocks: `now` counts the time
that passes, `wall` is what `time.time()` returns, and `SetClock` sets the
second without the first. `setback` is how far `wall` was set back in all. A tick
stands for the time unit in which the TTLs and the interval are given; every
action may take none or many.

Some definitions (`CandidatesSeen`, `FullOffByOne`, `LowWithoutSharing`, ...)
stand just before the one they resemble and are used by no specification: each
is a plausible mistake in that code, and the property named with it in
`PROJECT.json`, under `mutants`, fails when it takes the other's place.

## 3. What the runs check

| run | instance | shows |
|---|---|---|
| `enrichment` | 3 indicators, 4 ids, 2 sources, batches of 2, 2 broken sessions | `OneRowPerSource`, `NoOrphanRows`, `SnapshotFresh`, `ImplementsRegistry` when every COMMIT is decided before the worker is back |
| `enrichment_live` | 2 indicators, 3 sources, one enricher that raises on one of them, a COMMIT that may land late | `RedundantRowsBounded`, `LocksReleased`, `EnrichedUnlessBlocked` |
| `enrichment_blocked` | 2 indicators, 3 sources, crt.sh answers one of them with an error object, batches of 1, no faults | violated: `HarmlessIocEnriched` |
| `hub` | 2 browsers, channels of 1, 2 notifications | `NoSendOnClosed`, `NothingSkipped`, `ImplementsBroadcast`, `BroadcastEnds`, `HandlersReturn` |
| `recon` | 3 targets of one name, 2 titles, rounds of 2, 1 interruption, days pass | `NothingOfDeleted`, `DoneIsComplete`, `FindingsHaveAssets`, `NoEarlyRescan`, `EveryTargetScanned`, `EveryScanCompletes` |
| `recon_interrupted` | 2 targets, 2 names, 3 titles, rounds of 2, 1 interruption, days pass | violated: `InterruptedScanRetried` |
| `monitor` | a domain, or a file hash, or a target and an address; 2 watchlist rows, 1 change of address, list or count, 1 failure of the resolver, of CERT's list, of ThreatFox or of the session | `NothingOfUnwatched`, `AlertsBounded`, `EveryItemChecked`, `RiseAlerted` |
| `monitor_outage` | an address that is a Tor exit and a hash, 1 download of the Tor list that fails | violated: `AlertsJustified` |
| `page` | 2 indicators, 1 call that fails; 2 overlapping calls of `showDetail` and an enrichment, or 2 of `loadList`, or one of each | `SkipIsSound`, `ChangesNoticed`, `PanelCatchesUpUnlessFailed`, `ListCatchesUp` |
| `page_failure` | 1 indicator, 1 call of each kind at a time, 1 call that fails | violated: `PanelCatchesUp` |
| `pivots` | 2 addresses, a domain, 4 rows, 2 failing statements | `ExactWhenCalm`, `WeakOnlyOverCdn`, `NoneMissed`, `RelationHasItsReason` |
| `sources` | 1 indicator, its address lists and 2 block lists, TTL 1, interval 2, time 0 to 3, 1 change, 1 fault, the clock set once | `AnswersCurrent`, `RequestsSpaced`, `PauseBounded` |

`TypeOK` is checked in the first run of each module, save `Page`.

**Why the bounds are enough.** Two actors of a kind show every conflict the code can
have, because the code has no rule about three. *Enrichment*: three indicators with
batches of two make a batch that does not take all candidates; four ids let a
deleted indicator come back under a new id; two broken sessions let one fault follow
another's recovery. *Hub*: a channel of one message is full after one, and two
messages are enough to lose the first or the second, with one browser that reads and
one that does not. *Recon*: rounds of two out of three targets: the second one's row
is older by a whole scan when its turn comes, and meanwhile any target may be
deleted or become stale and the third competes for the next round. They have one
name each; several names, of which one is cut off by MAX_CHECK_HOSTS, are in
`recon_interrupted` and in the theorems, which hold for any names and limits.
*Monitor*: two rows let one vanish and abort the transaction for the other, or let
an object be watched again; one change beside one failed reading or one expiry lets
a listing be lost, found again, or seen late. The objects come one kind at a time
(`Worlds`), since an item's reading touches only its own keys: the domain has an
address that changes and two block lists, the first of which may fail; the hash has
ThreatFox alone, so that a failure empties its signature; the target has both
counts, with an address beside it whose item shares the transaction. All
combinations are in the theorems. *Sources*: a list may expire, be fetched again and
be wrong within three ticks; one fault is a failed download, a page that is not the
list, or a restart, each of which leaves its trace in the caches for the calls that
follow; two block lists let the second fail after the first has hit; the four
workloads (`MCWorkloads`) are the enrichers that share no memory with each other.
*Page*: two indicators and two calls in flight let the user change the selection
while an answer is on its way, the answers overtake each other, and a refresh fall
between `StoreSig` and `Draw`. Calls of `showDetail` and of `loadList` share no
variable but through the delete button, whose click is also checked with one of each
(`MCSizes`). *Pivots*: two addresses that share the AS number and a domain that may
resolve to either; a second domain (16 million states) found nothing more. Every
counter with a bound is named in the module's CONSTANTS (`MaxId`, `MaxFaults`,
`MaxMsgs`, `MaxWatch`, `MaxFlips`, `MaxTime`, `MaxSteps`, `MaxDetail`, `MaxList`,
`Sizes`, `MaxErrors`, `MaxCommits`) and limits clients, faults and the world, never
the program.

**Fairness.** Weak fairness of the workers' loops (`WF_vars(Worker)`): they are
`while True` loops whose every wait has a timeout. Weak fairness of the server for a
COMMIT it has received. In `Hub`: weak fairness of the listener and strong fairness
for taking `h.mu`, since Go's mutex passes to a waiter that has starved; none for a
browser reading, so that a browser that stops is covered. In `Recon`: days pass
(`WF_vars(Age)`), which does not oblige an idle worker to see it:
`EveryScanCompletes` has the premise `IdlenessEnds`, that the transaction of an
empty poll ends again and again, by a new target or a lost session. The code does
not see to that, and `recon_interrupted` shows what happens without. In `Monitor`: a
list that is consulted is old in the end, whenever the worker is between two items
(`SF_vars(Expire(l))`: its age is the wall clock's, but it is looked at only by the
next reading). In `Page`: weak fairness of calls that are under way (the API's
statements have timeouts), and none of the timer or of events: the timer refreshes
only while the view of the indicators is open, and an event may be lost. What the
page owes the user is stated for a user who keeps coming back to that view
(`ListViewed`), in the end with one indicator selected (`Stays`). `Pivots` and
`Sources` have safety properties only. No client and no fault is ever obliged to
act. Deadlock is checked in all runs but `pivots`, whose handler rests when nobody
calls it, and `sources`, where time ends at `MaxTime` and a pause may end later:
elsewhere the workers and the timer always have a step.

### Where code and documentation disagree

1. `enrichment_blocked`: when an enricher raises on an indicator (`worker.py:691`
   has no handler), the batch is rolled back and, after the reconnection, the
   round starts at the first source again. Sources after it are never reached,
   for any indicator. In the run crt.sh answers a domain with an error object in
   place of a list; `enrich_crtsh` goes over its keys, and `str.get` raises outside
   the `try` (`worker.py:196-197`). The address beside it never gets to VirusTotal.
   `EnrichedUnlessBlocked` states what does hold.
2. `recon_interrupted`: `last_scanned_at` is committed before the checks
   (`recon_worker.py:93`), so that a scan interrupted by an exception is not due,
   although the log says it is retried in 3 s. And it may never be: the worker
   reconnects, polls, finds nothing and does not commit (`recon_worker.py:127-148`),
   psycopg keeps the transaction open over the sleep, and `now()` in line 133 is
   that transaction's start in every poll that follows. The target stays
   `scanning` until a new target or a lost session ends the transaction, however
   many days pass. `EveryScanCompletes` states what does hold. New targets are not
   affected (`EveryTargetScanned`): NULL does not depend on the time.
3. `monitor_outage`: a Tor list that cannot be downloaded leaves its key out of the
   signature, and `diff_alerts` takes that for "was not listed": after the outage
   an old listing is alerted as new, even when the first reading was the one that
   failed. It is one of two ways to an alert without a change. The other one needs
   no failure: the copy from which the baseline is taken may be up to six hours
   older than the watch (`worker.py:64-77`), and when it is refreshed a listing
   that is older than the watch is alerted. `AlertsBounded` counts both: at most one
   false alert for each list that was out of date when the watch began (`lag`), one
   for each reading or list that is spoilt, two for a resolver that fails.
4. `page_failure`: `lastDetailSig` is stored (`index.html:595`) before `/pivots` is
   awaited. When that request gets no answer, `fetch` rejects and nothing is drawn;
   from then on each refresh finds the signature unchanged and skips, until the
   number of enrichments changes or the user clicks. An answer of `/iocs` that is
   not ok (`index.html:591`) has the same effect: it is drawn over the panel and
   leaves the signature. `PanelCatchesUpUnlessFailed` states what does hold.

More were seen with the same models and have no run. *Overlapping calls of
`showDetail`*: the panel may keep the drawing of the earlier one, and a late 404 of
another indicator blanks it; the properties of `Page` say so with `trust`, which is
lost by an overlap or a failure and comes back when a call draws undisturbed. *An
error status of `/pivots`* leaves the relations out of the panel, and refreshes skip
the drawing as if they were there; this too costs `trust`. *A swallowed listing*: of
a hash or a URL, which only ThreatFox knows of, a failed reading stores the empty
dict `{}`, which counts as no baseline, so that a listing that comes with the next
reading is taken into the baseline and never alerted. `RiseAlerted` excuses this
case (`Emptied`) and a listing that is gone again before it is noticed
(`Withdrawn`), and no other. In `Pivots`, `cdnIPSet` is read before the related: a
relation found through a "cdn" row committed in between is `high` although
every shared address is a CDN's, and a `cdnIPSet` that breaks off has the same
effect, because no loop of `pivots.go` looks at `rows.Err()`. When the worker reconnects
before a broken session's COMMIT lands (`SlowCommit`), a source records two rows
for an indicator; `RedundantRowsBounded` says how many at most. And a stored
error dict counts as an answer for good, so that the source is not asked again.

## 4. What is proved

`EnrichmentProofs`, for all indicators, sources, tables of enrichers, types
covered, poisonous pairs, batch limits and bounds:

- `TypeCorrect`: `Spec => []TypeOK`. The round's position stays in the table.
- `NothingLeftBehind`: `Spec => []NoOrphanRows`, with late COMMITs as well. The
  invariant is inductive with `TypeOK`: a row in the transaction or in a COMMIT
  in flight holds its parent, `DeleteIOC` needs that hold gone, and every path
  out of a batch clears the transaction.
- `AtMostOneRow`: `~SlowCommit => (Spec => []OneRowPerSource)`.
  `OneRowPerSource` alone is not inductive: a commit appends to what the batch
  read as empty long before. The strengthening `IInv` adds `SnapshotFresh` (what
  the worker holds has no visible row of the current source, and holds nothing
  outside a batch) and that no COMMIT is in flight.
- `PipelineIsRegistry`: `~SlowCommit => (Spec => ImplementsRegistry)`. With
  `IInv` and `NoOrphanRows`, `AddIOC` maps to `Register`, `DeleteIOC` to
  `Remove`, `Commit` and `CommitLandsUnseen` to `Record` (or to a stutter when
  the transaction is empty, which is a `Record` of no id), the rest to a stutter.
- `BatchStaysFresh`: `~SlowCommit => (Spec => []SnapshotFresh)`, from the same
  `IInv`.
- `DuplicatesArePaid`: `Spec => []RedundantRowsBounded`, with late COMMITs. The
  invariant `Accounts` counts for each indicator and source the visible rows,
  the one a COMMIT in flight may add and the one in the worker's hands: together
  at most one more than sessions have broken.

`HubProofs`, for all sets of browsers, capacities and numbers of notifications:

- `TypeCorrect`: `Spec => []TypeOK`, with every channel within its capacity.
- `NeverOnClosed`: `Spec => []NoSendOnClosed`. The invariant `Lock` says why: a
  broadcast reaches only for connections that are in the map, those are open,
  and nothing leaves the map while `h.mu` is held.
- `HubIsBroadcast`: `Spec => ImplementsBroadcast`. The refinement needs `Order`:
  messages are older in `out` than in the channel, there than the one being
  broadcast, and that one than those waiting in the session. `Deliver` then maps
  to `Show`, `Notify` to `Publish`, every other step to a stutter.
- `EveryGapHasACause`: `Spec => []NothingSkipped`, inductive with `Order`, `Lock`
  and `Waiting` (what is committed and not taken waits in the session or is
  lost): the message received next is the oldest that is not lost.
- `BrowsersSeeOrder`: `Spec => []ShownInOrder`: what a browser is shown has been
  sent, is in order and has nothing twice. It is proved of `LossyBroadcast`, in
  which it is a matter of two actions (`BroadcastKeepsOrder`), and carried over by
  `HubIsBroadcast`.

`ReconProofs`, for all hosts, titles, limits of a round and of the checks, and any
number of targets and interruptions:

- `TypeCorrect`: `Spec => []TypeOK`.
- `NothingLeftBehind`: `Spec => []NothingOfDeleted`. A commit for a target that is
  gone is refused (`ParentThere`), and ids the sequence has not given yet belong
  to nobody (`Unused`).
- `DoneMeansComplete`: `Spec => []DoneIsComplete`. The status becomes "done" when
  nothing is left in `found`; `ScanOK` says that what is due of the target at hand
  is stored or in `found` all along, whatever other targets' rows do.
- `FindingsNameAssets`: `Spec => []FindingsHaveAssets`. Also from `ScanOK`: the
  hosts at hand are assets of the target, and no rescan removes an asset.
- `NoTargetTooEarly`: `Spec => NoEarlyRescan`. `RoundOK` carries what the poll saw
  to the moment of the marking: a target of the round that is not yet taken up was
  never scanned or is past RESCAN_HOURS, and stays so, since only the worker
  marks, and it takes each id once. That an idle worker's poll sees nothing that
  has become stale since (`StaleSeen`) only makes its rounds smaller. For
  `RoundOK` the lemmas about the order of past scans (`OthersOrder`,
  `StaleOthers`) are needed: taking one target out of it leaves the others in
  their order and the stale ones a prefix.
- `InterruptionsAbandon`: `Spec => []AbandonedBounded`. `Abandoned` are the
  targets shown as "scanning" that the worker is not at; there are never more than
  interruptions. This is the other side of `recon_interrupted`: no deletion,
  refused insert or rescan leaves a target behind like that.

`MonitorProofs`, for all indicators and targets with any keys, any lists cached or not,
downloads and resolvers that fail, and any number of rows, changes and faults:

- `TypeCorrect`: `Spec => []TypeOK`.
- `NothingStoredOfUnwatched`: `Spec => []NothingOfUnwatched`.
- `AlertsArePaidFor`: `Spec => []AlertsBounded`. `AlertsBounded` is not inductive:
  what counts is also what is on its way to be alerted. `Accounts` keeps books for
  each row and key (`Paid`): the alerts stored plus those the present state may still
  cost (`Owed`) are at most the changes, plus `lag`, plus `FalseAlerts` for each
  outage. What is owed has two parts: for a fact, the way from the truth to what the
  worker has read of it, and from there to what is stored; for a flag, the lists out
  of date about the object (`Outdated`), and whether the next reading would set a
  flag that is not stored (`Visible`). A change moves the first part by one, a
  download turns an outdated list into one that is visible or not, so from the first
  part to the second, a reading moves the second to the alerts stored, and a spoilt
  one creates a debt that its outage pays for. A new row starts with its `lag` as
  debt. `RoundOK` says why a round's copy of the signature may be compared: of a row
  still watched it is the stored one, for only this worker writes it.
- `NoThirdCause`: `Spec => [](outages = 0 => ...)`: until a reading is spoilt, every
  alert of a key none of whose lists was out of date when the watch began answers
  a change. So old copies and failures are the only ways in which the documented
  rule is broken.

`SourcesProofs`, for all lists, TTLs, intervals and bounds, and any clock:

- `TypeCorrect`: `Spec => []TypeOK`.
- `AnswersAreCurrent`: `Spec => AnswersCurrent`. The invariant `CacheCurrent`: a
  cached list that differs from what its server would send is one the server has
  changed since the time in `fetched_at`, give or take the clock's setback.
  `Looking` says it of the call: each list is still to be consulted or has been
  consulted as it is (`Done`), if it was settled for its TTL before the call.
  That `fetched_at` is the time *before* the request is what the step of
  `Receive` needs.
- `RequestsAreSpaced`: `Spec => RequestsSpaced`. `Measured`: since the last request
  the wall clock shows no more than has passed, as long as neither a restart nor a
  step forward came in between; so the pause computed from it is long enough
  (`Sleeping`).
- `PauseIsBounded`: `Spec => []PauseBounded`. `Clocks`: no time noted lies further
  ahead of the wall clock than the clock was set back.

`PivotsProofs`, for all indicators, addresses and AS numbers, and any number of
commits, deletions and failing statements while the handler runs:

- `TypeCorrect`: `Spec => []TypeOK`.
- `WeakIsOverCdn`: `Spec => []WeakOnlyOverCdn`. Needs that `cdnIPs`, read in a
  statement of its own, holds only addresses some "cdn" row has had
  (`Stage`, `RowsOfLive`).
- `NoneIsMissed`: `Spec => []NoneMissed`. `MustFound` follows each relation of the
  beginning through the statements: it is shared by the database as long as both
  exist, by `focalIPs` once they are read, and is in `rest` or `related` once the
  main query has answered. It rests on two facts of the code: rows of an indicator
  are only removed with it, and an id never comes back (`Known`).
- `ReasonGiven`: `Spec => []RelationHasItsReason`, from `Reasons`: whoever was found
  shares an address with `focalIPs` until deleted.
- `Exact`: `Spec => []ExactWhenCalm`. `Calm` says for each statement what the locals
  are of the present database while it has not changed since the beginning.

`PageProofs`, for all indicators, any number of enrichments, of failing calls and
of calls of `showDetail` and `loadList` in flight together:

- `TypeCorrect`: `Spec => []TypeOK`, however calls overlap. `TypeOK` includes that
  `lastListSig` is the signature of the list drawn.
- `SkipsAreSound`: `Spec => []SkipIsSound`, with no condition on the calls.
  `SkipIsSound` speaks of moments without a call; `ShownOrComing` extends it to those
  with one: as long as `trust` is kept, the stored signature is that of the panel,
  relations included, or a call is bound to draw what it stands for. `Alone` is what
  `trust` is worth unless it is broken: a single call is under way, for the selected
  indicator (`Undisturbed`); the signature is that of the drawing to come, or has been
  dropped with the selection; a 404, or a drawing without relations, comes only of
  an indicator that is gone for good (`AllKnown`). A call that starts alone after a
  failure or an overlap mends `trust` only by drawing, not by skipping. `Grown` says
  that the relations come by a later look at the enrichments than the drawing's
  own. `PanelCatchesUpUnlessFailed` is the other half: it has the panel, and not only
  the signature, keep up where `trust` is kept.

Assumptions: those the modules name, each evaluated by TLC in a run
(`HubAssumption`: the capacity is at least 1; `EnrichersAssumption`,
`HandlesAssumption`, `PoisonAssumption`, `BoundsAssumption`, `NoneAssumption`;
`ReconAssumption`: the limits are positive and the titles of the wildcard and of the
zone transfer are not among the checks'; `MonitorAssumption`: a target's keys are
the two counts, an indicator has neither, it has an address list or ThreatFox alone,
and only lists and the resolver fail; `SourcesAssumption`: the time of a list never
fetched lies before all others; `PivotsAssumption`: an indicator of type ip has its
own value as address, no two the same; `PageAssumption`: the bounds are numbers and
None is no id), and in `AtMostOneRow`, `BatchStaysFresh` and `PipelineIsRegistry`
that a COMMIT does not outlive the worker's 3 s pause. Without that they are false,
as TLC shows with `SlowCommit = TRUE`.

Every invariant and every safety property that the passing runs check is the
statement of a theorem. Only model-checked are the liveness properties, since the
prover has no rules for fairness and ENABLED: `LocksReleased`,
`EnrichedUnlessBlocked`, `BroadcastEnds`, `HandlersReturn`, `EveryTargetScanned`,
`EveryScanCompletes`, `EveryItemChecked`, `RiseAlerted` (with the step condition in
it), `ChangesNoticed`, `PanelCatchesUpUnlessFailed` and `ListCatchesUp`. Only
model-checked is also that nobody waits for ever on everybody (deadlock).

## 5. Not modelled, or not yet

- `risk.go`, `mitre.go`, `stix.go`: pure functions of one answer of the database.
  A sum of weights with thresholds, a constant table, and formatting with ids that
  are hashes. Two oddities of `risk.go` are hazards without a property: rows of
  one source that are there twice count twice (`RedundantRowsBounded` bounds
  them), and rows that are all errors give `low`, not `unknown`.
- `overview.go`: counts read one by one for display; nothing depends on them, and
  the page draws them anew each time.
- `import.go`: each insert is `AddIOC`; which strings of a log are taken for
  addresses and names is left out, and so are the counts of its answer, in which an
  insert that fails is neither created nor skipped.
- `main.go`, `respond.go`: routing, JSON, ping. Deployment: configuration; that
  docker restarts the workers is why a dead process (`Restart`, `Fail`) comes back.
- Of the enrichers: the data picked from a good reply, the fingerprints of
  `enrich_tech`, and a missing VirusTotal key, with which no request is made.
- Handlers that only read (`listTargets`, `listWatch`, `listAlerts`, ...), since
  they change nothing and give one statement's answer each.
- The page's other views (targets, overview, watchlist), which are redrawn whole.
- Crt.sh names are assumed to be under the target's domain (`recon_worker.py:39`
  compares the end of the string without a dot).

## 6. Plan

Order: what can lose or corrupt data first, then what shows it, then pure code.

1. `Enrichment` with `Registry`, `Hub` with `LossyBroadcast`, `Recon`, `Monitor`,
   `Page`, `Pivots` (done).
2. `Sources` with `Enrichers`; `Monitor` for targets (done).
3. Proofs about `Enrichment`, `Hub`, `Recon`, `Monitor`, `Sources`, `Pivots`, `Page`
   (done).
4. `Platform`: `Enrichment`, `Hub` and `Page` composed: NOTIFY payloads are those
   of `Commit`; a browser that stays connected draws what was committed.
5. The safety half of the liveness properties (what each step of a round or of a
   broadcast leaves to do is less than before).
6. `Risk` against a reference over small inputs.
