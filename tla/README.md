# Verification of the Forex Intelligence Platform

TLA+ models of the path a displayed quote takes from a terminal tab to the
database, TLC configurations that check them on small instances, and TLAPS
proofs of the main results for every value of the constants.  Paths are
relative to the root of the repository; `MODULE!Name` names a definition.

## The system

```
 terminal tab: DOM observer -> content script            (one per document)
      | CAPTURED_FRAME, BRIDGE_HEARTBEAT (extension messages)
 service worker: PersistentOutbox over chrome.storage    (one, killed at will)
      | POST /ingest/provider, /ingest/bridge-heartbeat  (loopback HTTP)
 collector: sessions and leases -> has_raw, last sequence -> FairInstrumentQueue
      | one queue_worker                                 (one asyncio loop)
 Pipeline: adapter -> TimescaleDB, Redis streams, latest key
      | 200 acknowledges; the outbox forgets the event
```

| Part (source) | State | Operations | What is hard | What makes it correct |
|---|---|---|---|---|
| Persistent outbox (`outbox.ts`, `service-worker.ts`) | stored events and statistics, serial queue, running drain, cursor, retry alarm | enqueue, drain, deliver, settle, schedule; worker stop, browser start | load and save are two IPC calls; callers interleave; the worker dies between any two steps | books balance, FIFO per pair, round-robin, nothing stranded |
| Fair queue (`fair_queue.py`) | a bounded asyncio.Queue per pair, an Event, cursor | put (with `wait_for`), get, task_done, join | wake-ups versus overtaking and cancellation | bounds, no lost wake-up or slot, fairness |
| Ingestion (`main.py` `ingest`, `queue_worker`; `pipeline.py`; `postgres.py`; `redis_bus.py`) | handlers in flight, queue, adapter state, rows, latest key | request, worker step, disconnect | four awaits before the queue and six after it; retries of what still runs; partial failure | acknowledged means stored; rows ordered and not repeated |
| Sessions and leases (`main.py`) | `bridge_sessions`, `active_sources` | heartbeat, observation, poll; expiry and eviction on the way | several documents, thresholds of time, a table with a limit | sticky leases, no dead holder, no idle pair |
| Feed health (`main.py`) | time of the last tick per pair | `bridge_health`, `pair_health`, `current_adapter_state` | three judgements from different data | they agree |
| Adapter (`adapter.py`) | `_state`, `_seen` | `process`, `on_disconnect` | order of a dozen rules, LRU and TTL together | one tick per observation, in order |
| Heartbeat worker, lifespan (`main.py`) | tasks, `state["components"]` | start, report every 5 s, shut down | an exception ends the reporter; join before cancel | the report is `FeedHealth`'s; shutdown drains (`JoinCountsAll`) |
| DOM observer, content script (`dom-observer.ts`, `page-observer.ts`, `content.ts`) | targets, last quotes, statuses, watched roots, acquire timer; forwarded statuses | mutation callbacks, acquire and stale timers, window messages | rows written, moved, hidden and removed under observation, between a callback and a timer | a status means what it says; pairs are isolated; what is shown is found again |
| Event bus consumers (`redis_bus.py`) | consumer groups | consume, acknowledge, dead_letter | no caller in the program | - |
| Everything else | - | schema checks, popup, replay, load test, metrics, settings, generated contracts, infrastructure | - | stateless or outside the protocol |

The hazards found in this code, each at its line and with the properties that
would catch it, are listed in `PROJECT.json`; those without a property say why.

## Modules

| Module | Models | Theorems in |
|---|---|---|
| `Observer` (+ `MCObserver`) | `MultiQuoteObserver` on a page it does not own, and the content script | `ObserverProofs` |
| `Outbox` (+ `MCOutbox`) | class `PersistentOutbox` as the service worker drives it | `OutboxProofs` |
| `FairQueue` (+ `MCFairQueue`) | class `FairInstrumentQueue`, its handlers and its worker | `FairQueueProofs` |
| `Ingest` (+ `MCIngest`) | deliveries of one pair, `ingest`, `queue_worker`, `Pipeline.process`, rows | `IngestProofs` |
| `Adapter` (+ `MCAdapter`) | class `IcMarketsAdapter`: quotes, dedup cache, order rules | `AdapterProofs` |
| `SourceLease` (+ `MCSourceLease`) | sessions, leases, expiry, eviction | `SourceLeaseProofs` |
| `FeedHealth` (+ `MCFeedHealth`) | the health report, over `SourceLease` | `FeedHealthProofs` |
| `FifoGroups` | abstract: bounded FIFO queues, one per pair; what `Outbox` and `FairQueue` implement | - |
| `Delivery` | abstract: at-least-once delivery in order; what `Ingest` implements | - |
| `SortedSets` | filters that keep the order of a list: the sorted numbers of a set, the selected positions of a sequence | `SequenceLemmas` |

`Outbox`, `Adapter` and `Observer` filter with `SortedSets` where `SelectSeq` or
`SortSeq` would do: those compute recursively, so that nothing can be proved of
their results, while `Sorted` says which number is the i-th and `SequenceLemmas`
proves once what follows (order, elements, what one more element adds).

The abstract modules state what the documents promise, without the code's steps.
`Outbox!Fifo` maps the groups of `FifoGroups` to the stored events of each pair in
the order of their numbers, `FairQueue!Fifo` to the queues of the pairs and the
fairness of the abstract queues to the round-robin; a put that times out, a
refused event, a retry, a kill and a settlement that keeps its event are
stuttering steps.  `Ingest!Channel` maps the head of `Delivery` to the head of the
outbox and what is kept to the raw rows, so that giving up, crashing and failing
stutter and the acknowledgement of an event that is not kept has no image.
Together they say what a quote meets on its way: leaving the outbox in order,
kept at least once, queued fairly.

An action is what runs between two awaits (in the extension: between two
promises).  Definitions keep the names of the code or say in a comment which
function they stand for; `PROJECT.json` maps each of them to its lines.
Definitions whose comment begins with *Mutant* are plausible bugs: each is put
in the place of the definition below it, and the property named in
`PROJECT.json` must then fail.

### Observer

`page` gives each row element its symbol, its text (bid and ask are one text, and
`Valid` says which ones `quoteFromCells` accepts for a pair) and how it looks;
a row in a hidden table is told apart, because `findQuoteTargets` refuses it and
`readQuote` does not.  `place` is the order of the rows in the document, in which
`findQuoteTargets` takes the first of a pair (`First`).  An acquisition compares
the table of a row with the one it had before (`Kept`), and the acquisition
observer looks whether that one is still there (`TargetRemoved`): `moved` are the
rows in another table than at the last acquisition, `orphaned` those of them whose
old table is not in the document.  Which rows share a table does not matter to
either and is left out.  `Write`, `Detach`, `Insert`, `Move`, `OldTable` and `Show`
are what the page may do; each leaves a mutation record (`records`) except `Show`,
since neither mutation observer asks for attributes.  `Move` stays under the root
that is observed; a move to another root is a `Detach` and an `Insert` elsewhere in
one task, with a `Move` if the table is another one, too.  A record of a watched target row makes
`emitCurrent` run for sure, one of another row only if it is under the same root.
`Notified` is the microtask with the callbacks of both observers: it comes
before any timer or message, after one or several changes.  `Acquire` is the
acquire timer, and at first `start()`; `MarkStale` is the stale timer, at any
time and for any READY pairs; `Receive` is the content script's listener, to
which the window delivers in order.  The history variables `captured` and
`steady` serve the properties: what was last forwarded, and which pairs were
read as displayed and not touched since.

`SourceLease` lets a heartbeat carry only what `Reportable` allows; that a
heartbeat which serves a pair says that the observer is ready is the first
conjunct of `HeartbeatTruth`.

### Outbox

`stored` is the chrome.storage content: the event array as a set of numbered
events (push gives the next number, the first of a group is its least), and the
statistics per pair and in total.  `seen[c]` is what the running serial
operation of caller `c` has loaded, so that a stale save would show.  `pc`,
`current`, `result` and `attempted` are the local variables of `drainLoop`;
`pc = "idle"` is `draining === null`.  Time is kept as the set `backoff` of
events not due yet, and the alarm as the events it waits for: `schedule()` asks
for the instant at which the earliest head is due, so that it is past when any
of the heads it waited for is (`Ripen`).

`EnqueueLoad`/`EnqueueSave` are the two halves of `enqueue`, the second with
the capacity check and the `drain()` call of `queueCapturedFrame`; `DrainSelect`,
`DrainEmpty`, `DrainNothingDue`, `DrainSchedule`, `DrainAnswer`, `SettleLoad`
and `SettleSave` are the steps of `drainLoop`.  `WorkerKilled` keeps storage and
alarm and loses the rest; `BrowserStart` also drains (`onStartup`,
`onInstalled`) and may lose the alarm; `EnqueueThrows` and `DrainThrows` are
rejected chrome calls.

### FairQueue

`queue`, `putters` and `unfinished` are the three parts of every `asyncio.Queue`,
`available` the `asyncio.Event`.  A handler is "blocked" on the future of its
`put`, "woken" when that future is done and its task has not run, "queued" while
its item is in the queue or with the worker.  `Timeout` is `wait_for`'s
cancellation in either state; `asyncio.Queue` itself is external, modelled from
what CPython 3.12 does.

### Ingest

One session, one pair: event `e` is the observation with sequence `e`, quotes
are valid and new, and the session holds the lease: the answer of 200 without a
row that a standby document gets (`main.py:682`) is `SourceLease!Observe`'s, and
`AcknowledgedIsDurable` does not speak of it.  `next` is the head of the
browser's outbox (module `Outbox` shows that only heads are delivered).
A handler goes through `has_raw`, `last_observation_sequence` and the queue; the
worker through the awaits of `Pipeline.process`.  `GiveUp` is the fetch timeout:
the handler runs on.  `StageFails` and `ReadFails` are calls that raise,
`Disconnect` is `adapter.on_disconnect`, `Crash` a collector that dies and
starts again with empty memory and the same rows.

### Adapter

`quote` is `_state`, `seen` is `_seen` in the order of the OrderedDict, `policy`
the three `reject_...` settings.  A call of `process` is one of `Reject`,
`Suppress` and `Publish`, told apart by the checks in their order: `Admissible`
before the identity is looked up, the cache, then `Follows` and `InTime`.  Purges
and `move_to_end` are part of each.  Instants are inputs in any order: handlers
queue in another order than they read the clock, browsers adjust theirs, and
replay files contain what they like.  `Ingest` uses the sequence rules alone
(`AbovePersisted`, `Accepts`): its quotes are new, in time and snapshots.

### SourceLease and FeedHealth

A request handler runs up to `has_raw` without an await, so that one message is
one step: refresh (with expiry), write the session's record, evict, refresh,
and hand out leases.  `age` counts intervals since `last_message`; `admitted`
are observations past the lease check and not yet processed.  Session ids are
numbers because `min()` compares them.  `FeedHealth` adds the age of each pair's
last tick and computes the report as a function of the state; where `max()`
chooses the first inserted of two sessions, it leaves the choice open.

## Runs

| Run | Instance | Shows |
|---|---|---|
| `observer` | 2 pairs, 3 rows, 2 quotes and a text that is none, 4 first pages, 2 changes | `HeartbeatTruth`, `Isolated`, `EmitsOnlyItsOwnChanges`, `Reacquired` |
| `outbox_safety` | 2 groups of 2 slots, 4 events, 2 retries, 1 kill, 1 failing call | `NoStaleOperation`, `Reconciled`, `HeadOfLine`, `BoundedBypass`, `NoStrandedEvent`, `OnlyFullGroupRefuses`, `IsFifo` |
| `outbox_live` | 2 groups of 1 slot, 3 events, 2 retries, 1 browser start | `EventuallySettled` |
| `outbox_killed` | as `outbox_live`, one kill | **violation** of `PendingReturnsToZero` |
| `fair_queue` | 3 pairs of 2 slots, 4 handlers | `NoLostWakeup`, `NoLostSlot`, `JoinCountsAll`, `BoundedBypass`, `EventuallyServed`, `IsFairFifo` |
| `ingest_trouble` | 2 events, 2 handlers, queue of 1, 2 timeouts, 1 failing call, 1 crash, 1 disconnect | `AcknowledgedIsDurable`, `RawBeforeTick`, `StrictWhileConnected`, `AcknowledgedIsTicked`, `IsAtLeastOnce` |
| `ingest_restart` | 1 event, 1 crash | **violation** of `OneRowPerEvent` |
| `ingest_disconnect` | 2 events, 1 timeout, 1 disconnect | **violation** of `StrictlyIncreasing` |
| `adapter_order` | a document and a feed without sequences, cache limit 3, 3 ticks, 2 instants, default and strict policy | `CacheSound`, `NewestRemembered`, `SidesCarried`, `OrderedTicks` |
| `source_lease_failover` | 3 documents, 1 pair, table of 2 | `TableOK`, `HolderServes`, `LeaseIsSticky`, `NoIdlePair`, `ClearedWithSession` |
| `feed_health_truth` | 2 documents, 2 pairs | `ConnectedIsServed`, `ReportsMatchLease` |
| `feed_health_connected` | the same | **violation** of `ConnectedWhenHealthy` |

Why the bounds are enough.  A group of two slots has a head, an event behind it
and, with four events, a refused one while another group is served; stale saves
need two callers, starvation two groups, the alarm window one retry, and a head
that fails twice before and after a kill needs two.  In the fair queue, four handlers on two
slots leave two asleep, so that one can be woken and time out while the other
still sleeps, and a fifth role, the overtaker, is played by the handler just
served.  In the ingestion one timeout makes two handlers of one event meet at
every await; a second one lets that happen to the retry as well.  Three
documents for a table of two make eviction hit holders, standbys and unready
documents, with ages on both sides of both thresholds.  In the observer two pairs and three rows
give duplicates that agree or not beside a pair that is whole, and two changes a
removal and a return, a row that moves while its old table goes, or a change that
the callback of the other has not seen; the
first pages stand for what went before, and random simulation of six changes
found nothing more.  The page and the stale timer wait for all but one message
to be delivered, which the observer cannot notice.  The theorems below
remove the bounds for the most important of these properties.  In
`feed_health_truth` heartbeats carry neither READY (observations do) nor FOUND
(which leases and pairs treat like READY), and states are told apart without
`remembered`, which no action and none of the report reads.  In the adapter the
third tick evicts the first from a cache that really holds two, both instants
are within and beyond every limit of age, skew and delay (all 0), and with two
prices a partial can cross the other side.

Deadlock is checked for `FairQueue`, `Adapter`, `SourceLease` and `FeedHealth`; the outbox
and the ingestion stop when their bounded events are settled, the observer when
the bounded changes of the page are.

Fairness.  `Outbox!Fairness`: a live worker finishes an operation it has begun,
`FETCH_TIMEOUT_MS` ends every delivery, time passes, and the browser fires alarms
that are past; frames, kills, restarts and faults are never owed.
`FairQueue!FairSpec`: the event loop runs the worker and woken handlers.
`Ingest!FairSpec`: the event loop runs handlers and worker, the outbox sends its
head again (that is `EventuallySettled`) and answers arrive; all disruptions are
bounded, so that liveness is about what follows the last one.  The abstract
fairness of `Delivery` (the head is kept, and a kept head is acknowledged) and of
`FifoGroups` (a group that is not empty is served) is what these imply.
`Observer!FairSpec`: the event loop runs callbacks, the acquire timer and messages;
the page owes nothing.

## Disagreements between code and documents

* **A stopped service worker strands the outbox** (`outbox_killed`).  The browser
  may stop the worker in a drain whose alarm has fired or is not yet set.  A new
  worker drains on the alarm, on an *accepted* frame and at browser start only;
  heartbeats and refused frames do not drain.  `docs/OPERATIONS.md` expects
  pending to return to zero.
* **A crash between the raw and the normalized row loses the tick**
  (`ingest_restart`).  `has_raw` calls the retry a duplicate, with 200.  A single
  failing database or Redis call at the same place has the same effect, which is
  why `AcknowledgedIsTicked` is stated for the time before one.
* **A disconnect between two deliveries of one event writes it twice**
  (`ingest_disconnect`).  Both passed `has_raw`; the second rests on a persisted
  sequence read before the first was stored.
* **Two open tabs are DEGRADED** (`feed_health_connected`), where
  `docs/MULTI_PAIR_HEALTH.md` defines CONNECTED as four healthy pairs.

Seen while modelling the observer, and excluded from its properties by their
hypotheses rather than shown by a run:

* A conflicting duplicate that appears while all pairs are complete is not
  noticed (`dom-observer.ts:307`): the pair stays served until some pair is
  incomplete, where `docs/MULTI_PAIR_HEALTH.md` calls it AMBIGUOUS.
* A row reused for another symbol, or in a table that is hidden later, is still
  read for its old pair (`readQuote`, `dom-observer.ts:104`).  `Displayed` asks
  that the row read still has the pair's symbol and a visible table.
* A row that moves to another table is read there without an acquisition; the
  next one, which another pair may cause, finds a new target and emits the quote a
  second time (`dom-observer.ts:279`), where ADR-001 says that only changes of what
  is displayed are emitted.  `EmitsOnlyItsOwnChanges` excludes rows that have moved
  so (`moved`); without that hypothesis TLC finds the second quote.
* A row that moves to another root within one task is no longer watched until
  the next acquisition (`watchTargets`, `dom-observer.ts:243`), and rows shown or
  hidden by an attribute are noticed with the next mutation at the earliest.
* A pair found again unchanged is FOUND and never STALE (`dom-observer.ts:328`).
* `pagehide` stops the heartbeat timer (`content.ts:82`) and nothing starts it
  again when the document comes back from the back/forward cache.

## Proofs

| Theorem | For every value of the constants |
|---|---|
| `OutboxProofs!Reconciliation` | the books balance per pair and in total |
| `OutboxProofs!SerialOperations` | no operation saves what it did not load |
| `OutboxProofs!FifoDelivery`, `RoundRobin`, `AlwaysWoken` | order, fairness, no stranded event |
| `OutboxProofs!ReservedCapacity`, `ImplementsFifo` | only a full group refuses; the outbox implements `FifoGroups` |
| `FairQueueProofs!ImplementsFifo` | the fair queue implements `FifoGroups` |
| `FairQueueProofs!NoSleepingWorker`, `RoundRobin`, `Bounded` | wake-ups, fairness, bounds |
| `FairQueueProofs!SlotsAreOffered`, `JoinCounts` | no free slot is lost; `join` counts what is unfinished |
| `IngestProofs!Durability`, `RawFirst`, `OrderedRows` | acknowledged is stored; raw first; rows in order |
| `IngestProofs!AcknowledgedHasRow` | before a failure, acknowledged has its normalized row |
| `IngestProofs!ImplementsDelivery` | the ingestion implements `Delivery` |
| `AdapterProofs!SoundCache`, `NewestIsRemembered` | the cache suppresses only what was published, and keeps the newest |
| `AdapterProofs!SafeReconstruction`, `TicksInOrder` | partials from their own session; ticks in order |
| `SourceLeaseProofs!HoldersServe`, `Bounded` | leases only with ready sessions that serve; bounded table |
| `SourceLeaseProofs!Sticky`, `NeverIdle`, `Cleared` | sticky failover, no idle pair, memory goes with the session |
| `FeedHealthProofs!FeedTakesLeaseSteps` | the feed keeps all theorems of the leases |
| `FeedHealthProofs!ReportsTellOfLeases`, `ConnectedMeansServed` | the three judgements of the report agree |
| `ObserverProofs!HeartbeatsAreTrue` | what a heartbeat says is true of the page |
| `ObserverProofs!PairsAreIsolated`, `OthersEmitNothing` | pairs neither lose nor gain by another's trouble |
| `TypeCorrect` (`FeedTypeCorrect`, `ObserverTypeCorrect`) in each | type correctness |

They assume only the named ASSUMEs of the modules, which TLC evaluates for every
instance: at least one group or pair and capacity for each, natural bounds, ages
and instants, finitely many documents, first pages that are pages, orders that
give no place to two rows, and that "none" is not a value. `SequenceLemmas` has what several proofs need about
sequences without repetitions and about sorted sets.

* `OutboxInv` strengthens the outbox's properties. `Reconciled` alone is not
  inductive: a save is as good as the load it rests on (`NoStaleOperation`), and
  the event saved must not be stored already (`Numbered`, which also makes
  `HeadOfLine` inductive: what is pushed is never the least). `NearCursor`
  bounds how often a group was passed over by its distance from the cursor:
  every selection that passes over it brings the cursor nearer. Finite-set facts
  about adding and removing one event are lemmas of their own.
* `ArrivalInv` adds that one frame arrives at a time and that no group exceeds
  its share. The code compares the length of the whole array as well; that this
  never refuses an event whose group has room is a pigeonhole argument
  (`RoomInTotal`): a stored event has the place in its group that its rank gives
  it, and there are at most `MaxSize` places. For `ImplementsFifo` a save is an
  `Enqueue` of the abstract group (the new number is the largest, so that the
  sorted numbers grow at their end), a `Dequeue` (`HeadOfLine`: it is the least
  that goes), or nothing.
* `QueueInv` joins `DepthBounded`, `NoLostWakeup` and `NearCursor`: a pair
  passed over k times is at most N - 1 - k pairs ahead of the cursor.
  `ImplementsFifo` follows a step at a time: whichever way a handler gets past
  `put`, at once, woken or overtaking, its pair is not full at that moment.
* `HandlerInv` says where each handler is: the sleepers of a pair are its
  putters, those in the queue or served are "queued", once each. `JoinCountsAll`
  follows from it with a count of its own. `NoLostSlot` is not inductive,
  because a woken handler may give up and leave no other; `SlotsOffered` is:
  while somebody sleeps, the woken handlers of a pair are at least as many as
  its free slots. Every step changes both numbers by at most one, and whoever
  takes or gives up a slot passes on what is left.
* `IngestInv` adds where a handler's envelope can be (`Placed`), that answered
  handlers and advanced stages have their rows (`Durable`), and what the
  sequences say about the rows while the session stays connected (`UpToDate`):
  no row is above the adapter's sequence or, while it has none, above the
  persisted one of any handler past its read, so that an event that makes a tick
  is above every row. `ImplementsDelivery` adds that no handler works for an
  event beyond the outbox's head (`Due`), so that the raw row it stores is that
  of the head or, for a late one of an earlier attempt, there already.
* `Kept` is what `AcknowledgedIsTicked` needs while nothing fails: whatever
  stands for an event having been handled, a raw row, an answer, the adapter's
  last sequence or a persisted one that a handler carries, comes from a
  normalized row that is there or in the worker's hands. So an event that the
  adapter refuses as not newer has its row, also after a disconnect.
* `AdapterInv` adds to the properties that the quote of a session and pair is
  its last tick, with no earlier one beyond it since it connected
  (`QuoteIsLast`): order then never depends on the cache, which may forget. The
  lemmas about the cache hold for any sequence of entries: what a purge leaves
  is a part of the old cache, in its order, the newest entry stays (the limit
  evicts from the other end; its age is within the TTL), and `move_to_end` keeps
  one entry per identity.
* `IInv` of `SourceLeaseProofs` joins the types, `HolderServes` and the bound of
  the table. Every request ends in `Refreshed`, so that the argument is about
  that operator: it leaves a table in which each pair that can be served is
  (`Fed`), changes nobody's eligibility, keeps eligible holders and sheds memory
  with sessions (`Sheds`, which composes; `Keeps` does not, and a request's own
  step in between is shown to take no lease from a document that ends eligible).
  min() of a set of ids exists by well-foundedness of < on the naturals.
* `FeedIInv` adds to it `ServingIsReady`: no document serves a pair without
  being ready. Pairs are judged by all fresh documents and leases by the ready
  ones; this is what makes them agree, and heartbeats alone do not give it: it
  holds because an observation sets both, and `Reportable` lets no heartbeat,
  also not the one that stops a document, say the one without the other.
* `ObserverInv` says what a heartbeat will rest on while something is still
  under way. `StatusesArrive` and `QuotesArrive`: the posted messages will leave
  the content script with the observer's statuses and with the quote it
  remembers of each pair, whichever of them is the last of its pair.
  `UnservedHasReason` and `ServedIsShown`: unless a record or a timer waits, a
  pair is without a row for the reason its status gives, and the row of a served
  pair shows what was read; with nothing under way these are `HeartbeatTruth`.
  `SteadyStays`: a pair left alone would be given the very row it has by the
  next acquisition (`First`: other rows keep their order when one moves), and its
  text is the one remembered, so that nothing is lost; and nothing is forgotten or
  emitted either, unless the row is in another table.

TLC checked `ArrivalInv`, `HandlerInv`, `SlotsOffered`, `Kept`, `AdapterInv`,
`ServingIsReady` and `ObserverInv` as invariants of the instances of the runs.

Proving changed the model in two places. Two arms of the CASE in
`Observer!Recorded` were true together; TLC takes the first, TLA+ leaves the
choice open, so that the proof failed until they were made disjoint. The types
of `InitialPages` became an assumption.

Only model-checked: liveness (`EventuallySettled`, `EventuallyServed`,
`Reacquired`, and the fairness in `IsFairFifo` and `IsAtLeastOnce`, whose safety
is proved), which needs fairness and ENABLED and is beyond the prover's reach.
Every other property of a passing run is proved.

## Not modelled

* Sizes, syntax, price ranges, spreads, pips and hashes: which data the adapter
  refuses, or only warns of.  Such a refusal changes nothing but the cache, which
  it may purge first; `Adapter!Reject` does either.
* `onDelivery` (a status text), `snapshot` (reads only), frames refused before
  they become events.
* Several pairs in `Ingest`: pairs share the worker, whose fairness is
  `FairQueue`'s, and no row or sequence.
* The discovery mode of the page observer and the collector's discovery endpoint:
  messages of the DISCOVERY group of `Outbox`, stored once each, with no sequence
  or queue.  The endpoint touches the session table first (`main.py:797`), as a
  heartbeat does that repeats what the session last said.
* A heartbeat that is not ready and serves a pair all the same: a collector test
  sends one, the extension never does (`Reportable`).
* The heartbeat worker: a loop that stores the report of `FeedHealth`.  The first
  call that fails ends it (`main.py:542`), which is plain from the code.
* Consumer groups of the event bus: no caller.  Migrations and retention: they run
  outside the program.
* The limits of 32 tables and 512 rows of `findQuoteTargets`, and `stop()` of the
  observer, which only tests call.
* `pagehide`: nothing of the document runs after it; the collector sees
  `SourceLease!Stopped`, or silence and the expiry of the session.
* Access checks, redaction, schema validation, popup, replay, load test, metrics,
  migrations, infrastructure: stateless or outside the protocol.

## Plan

Every safety property and every action property of the passing runs is proved.
What is left:

1. Refinements between the components: that what `Adapter` publishes is what
   `Ingest!Accepts` and the stages after it take for granted of one session.
2. The safety part of the liveness arguments: that an action which fairness owes
   is never taken back before it is taken (a due head stays due, a woken handler
   stays woken), as action properties with proofs.
