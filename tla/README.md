# TLA+ models of the Polymarket BTC market-data service

This directory specifies the core of `src/src/polymarket_btc/data_collection`:
a single-process asyncio service that follows the five- and fifteen-minute
Bitcoin up/down markets of Polymarket, collects order books and prices from
three websockets, keeps a live state, publishes four snapshots per second, and
records every event so that the snapshots can be computed again.

Paths below are relative to `src/src/polymarket_btc/data_collection`;
`market_data.md` is `src/docs/data_collection/market_data.md`.

## The system

```
 Gamma API ──> market_discovery ──market_state_queue──> _market_manager ─┐
                                                          │ on_market_   │ publish
                                                          │ snapshot()   │
 CLOB websocket <───────────────────────> PolymarketClobSource ──────────┤
 Chainlink RTDS ────────────────────────> ChainlinkRtdsSource ───────────┤
 Binance ───────────────────────────────> BinanceSpotSource ─────────────┤
                                          _snapshot_scheduler (ticks) ───┤
                                                                         v
                                                                      EventBus
                                          state_queue <────────────────┴──────────> storage_queue
                                               │                                        │
                                          _reducer: StateStore                     _raw_writer:
                                               │ snapshot, at a tick               RawEventStorage
                       SnapshotPublisher <─────┴──> snapshot_storage_queue
                         (subscribers)                   │
                                                   _parquet_writer: ParquetSnapshotWriter
```

| Component (source) | State it keeps | Operations | Hard behaviour | What makes it correct |
|---|---|---|---|---|
| Event bus (`market_data/event_bus.py`) | three bounded queues, a lock, high-water marks | `publish`, `publish_market_state_nowait`, `close` | a dozen tasks in `publish`, cancellation and deadline while suspended | both consumers get the same history in the order of the calls; callers are told the truth; nobody waits for ever |
| State store (`market_data/state.py`) | discovery contexts, local books, current CLOB session, price streams | `apply` of each kind of event, `snapshot` | late events of old sessions, books before and after their window, resolution, divergence | sessions do not mix, early books stay, old books go, readiness means what is documented |
| CLOB source (`market_data/sources/polymarket_clob.py`) | desired and subscribed assets, metadata, grace periods, deduplication cache, connection | `run`, `_subscriptions`, `on_market_snapshot`, `apply_clob_message` | three tasks race over the same sets; loss of connections and frames; failed publications | subscriptions follow the windows; books are never wrong and do arrive |
| Gateway (`market_data/gateway.py`) | tasks, queues between them, `_stop`, `_fatal` | the workers, `_task_done`, `shutdown` | fatal errors, full queues, shutdown in the middle of everything | logs are prefixes of what was accepted; a clean shutdown loses nothing and ends |
| Storage (`market_data/storage.py`) | open segments; files and manifests on disk | `write`, `flush`, rotation, `_finalize`, `recover_partial_files` | a crash between any two file operations, during recovery too | nothing flushed is lost, manifests are right, recovery converges |
| Reducer (`market_data/reducer.py`) | none | `apply` | — | part of the above |
| Replay (`market_data/replay.py`) | chains of segments, a heap of streams | merge of segments | streams that were cut at different places, two processes in one directory | gives back exactly what was recorded, or refuses |
| Discovery (`market_discovery/transition.py`, `resolver.py`, `transition_log.py`) | current and next market of each timeframe, an expiry task, one lock for the log | start-up, search, expiry, log, cancellation | the transition instant races with the answers; two tasks report; cancellation meets cancellation | windows come in order, a past market is not shown, the log is complete |
| Snapshot publisher (`market_data/snapshot.py`) | subscriber queues | `subscribe`, `publish`, `stop`, and `gateway.snapshots()` | slow subscribers, an end marker that finds no room | no holes; nobody waits for ever; the others are not disturbed |
| Chainlink and Binance sources (`sources/rtds_chainlink.py`, `sources/binance_spot.py`) | connection, flag, what has been seen | `run` | repeated and late messages, refused events, flags that are set past the log | prices in order, flags that settle |
| Health (`market_data/health.py`, `_health_writer`) | flags, counters, a file | snapshots of the live store | reads the store, and changes it by reading | windows exact all the same |
| Config, models, command lines, scripts | values | — | — | — |

`PROJECT.json` lists the components with their status, the map from definitions
to source lines, and the hazards: each place where this code can go wrong in a
way that a test would hardly reach, with the properties that cover it.

## Modules

| Module | Models | Used by |
|---|---|---|
| `BusLog` | abstract: one log with numbered calls, answers and readers | `EventBus` (refinement) |
| `EventBus` | `EventBus` | `EventBusProofs`, `MCEventBus` |
| `StateStore` | `StateStore.apply`, readiness of `snapshot` | `StateStoreProofs`, `MCStateStore`, and by `INSTANCE` in `ClobPipeline` |
| `MarketWindows` | abstract: the windows of a timeframe, one after another | `Discovery` (refinement), `ClobPipeline` (assumption) |
| `Discovery` | `TransitionController` with its workers, expiry tasks, log and runner | `DiscoveryProofs`, `MCDiscovery` |
| `ClobSource` | the CLOB source, its connection and the exchange | `ClobPipeline` |
| `ClobPipeline` | windows, market manager, CLOB source, queue of events, reducer and store, composed | `ClobPipelineProofs`, `MCClobPipeline` |
| `Gateway` | the tasks of the gateway, fatal errors, shutdown | `GatewayProofs`, `MCGateway` |
| `PriceSources` | the loops of the Chainlink and Binance sources, and the flag and status events of the CLOB source | `Snapshots` |
| `Snapshots` | price sources, scheduler, health writer, reducer, rolling windows, publisher, subscribers, and a replay of the same log | `SnapshotsProofs`, `MCSnapshots` |
| `Replay` | `RawStreamChain` and `merge_raw_streams`, as operators | `ReplayProofs`, `SegmentStorage` |
| `SegmentStorage` | `RawEventStorage`, `ParquetSnapshotWriter`, `recover_partial_files` and, on what they leave, replay | `SegmentStorageProofs`, checked directly |

Two abstract specifications stand between components. `BusLog` is what every
other module assumes of the bus: events are accepted in the order of the calls,
or refused because a queue stays full. `MarketWindows` is what discovery
promises and `ClobPipeline` builds on. In both cases the detailed module
implements the abstract one under a refinement mapping, checked as a property
(`IsOneLog`, `WindowsInOrder`) and proved.

The grain of an action follows the code's own atomicity. The service is one
event loop, so an action is what a task does from one `await` to the next
(`EventBus`, `Discovery`, `ClobSource`, `Gateway`, `Snapshots`) or one call that
never awaits (`StateStore`). Storage runs against a crash of the process, so there an action
is one change of the file system.

### EventBus

`publish()` is `Publish` (up to its first suspension), `Acquire` (the lock is
passed on to the head of the line), `Poll` (a turn of the loop over full
queues), `Tick` (time passes), and `CancelWaiting`/`CancelPolling` (the task is
cancelled at either `await`). `Enter` is what happens on getting the lock: the
sequence number is allocated, and the event is delivered or the loop begins.
`asyncio.Lock` is fair and does not let a newcomer overtake the line:
`LockFree`. `calls`, `ticket`, `accepted`, and the numbers `reduced` and `stored`
of events each consumer has taken, are history.

In the mapping to `BusLog` a caller's number is its ticket, the time when it
called `publish()`; its answer is `pending` while it is suspended; the log is the
tickets of the accepted events, and a reader's position is what it has taken.
The lock, the line, the polls, both queues and the clock are not seen.

### StateStore

One operator per branch of `apply()`, all through `SetBook`, which also
contains what the branches have in common (the session filter and the creation
of a book). The levels of a book are abstracted to the version of the
exchange's book they equal; a price change leads from one version to the next,
so a missed one makes the book `Wrong`. A `Wrong` book may or may not be
coherent. `Ready` is `ready_for_strategy`.

### MarketWindows and Discovery

`worker[tf].pc` is where the worker of a timeframe stands: resolving at start-up,
waiting for a search, at a slot, in a request, ready with a market that has not
begun, in the `finally` clause, logging. `expire_previous_at_transition()` is a
task of its own (`Expires`), which may find the search anywhere. `Conclude` is how
a search ends: the `finally` clause cancels the expiry task and waits for it
(`finishing`), and an exception of that task replaces the result. `Cancelled`
follows a cancellation to where the worker is; in `finishing` it is swallowed,
which is the finding of `Discovery_stops`. `Refused` is `on_state()` raising,
because the queue of market states is full. `Cancel` lets a thread that was
writing a record finish it or not.

Time is a counter in units of a second of the search grid, and passes only when
nothing is due (`Quiet`): the event loop is taken to be fast compared with the
grid. Requests and appends take any time up to their bound, so an answer may
come after any number of slots. What is shown changes only in `Show`; `shown` is
mapped to `MarketWindows!window`, whose `Following` says which window may follow
which: a market is found before or after it begins, becomes active, and no
market comes back.

### ClobSource and ClobPipeline

`pc` is where `run()` stands, `subs` where `_subscriptions()` stands, and
`OnMarketSnapshot` is an operator since the market manager calls it and
`publish()` without an await in between (`Snapshot`). The call may be refused
(`ManageFails`): then the assets are desired already, the reducer is never told,
the manager is dead, and the sources go on until the shutdown reaches them.
`told` is the history of the windows that were accepted.
`WindowBeforeBooks` therefore excepts, once the manager is dead, a market that
the last accepted window does not name, and `SettledBooksAgree` a book that the
source has retired and the store has not. The exchange is external: it answers a
subscription with full books, sends changes to subscribers, and a lost
connection loses any suffix of the frames under way. `line` is the queue of
published events; that it is first-in first-out and fails only when full is what
`EventBus` proves (`ArrivalOrder`, `AllOrNothing`). What discovery reports is any
step of `MarketWindows`. `FreshIds` and `ArrayReplies` are two facts about the
exchange that the code does not settle, so runs take either value.

### Gateway

Each worker has its own place in its loop. `ProducerEnds` is a cancelled
producer, with the status event a source publishes in its `finally`.
`DiscoverySurvives` is the finding of `Discovery_stops` seen from the shutdown: all
workers of discovery take their cancellation for that of their expiry tasks,
and `shutdown()` waits for them until its deadline, whose cancellation
(`TimesOut`) they do not survive. `WriterFails` may come anywhere in a batch, and
after all of it. `Stages`
is the order in which `shutdown()` waits; `Waited` is what each `await` waits
for, with `queue.join()` translated to "nothing queued, nothing taken and
unfinished".

### PriceSources and Snapshots

`conn[s]` is where the loop of a source is. The Chainlink and Binance sources
set their flag in the registry and tell nobody else; the CLOB source sets it
(`ClobFlags`) and then publishes a status, which the reducer applies later. The
operators of `PriceSources` take the setting of a flag as a parameter, and
`Snapshots` gives it the live store. A Binance message is its
server's number; Binance gets a new parser with each connection. A Chainlink
message is the time of its price and the time at which the server sent it: its
identity, which Chainlink remembers, is both, and its order is the first. A refused event counts as seen, and as a lost connection.

`Snapshots` keeps two stores, the live one and one that gets the log only, as
`cli.py` replays it. A store is its flags, the times of the last prices, and a
rolling window per length: rows and a total, kept by adding and subtracting
(`Added`, `Expire`) as `_RollingAccumulator` does. The health writer reads the
live store at its own time, which makes windows expire (`HealthReads`). A tick
carries the time at which it was scheduled. `Delivered` is the publisher; a
subscriber (`Subscribes`, `Takes`, `Asks`, `TimesOut`) is an iteration over
`gateway.snapshots()`.

Which sources, subscribers and writers take part in a behaviour is one of the
sets in `Active`. A run of the properties of one source needs only that source
and whoever else touches the same state: the sets of `Snapshots_path` are
Binance with the health writer (rolling windows), Chainlink alone (order of
prices), the CLOB source with the health writer (flags), and a subscriber.
Ticks and the reducer always take part. What is proved holds for any sets.

### Replay and SegmentStorage

A file is the sequence of the events it holds and whether it ends within a
line. `job` is a call of `_finalize()`, `_raw_manifest()` or of their Parquet
counterparts that is under way; `job.step` is its next file operation.
`recover_partial_files()` is ten loops, six over the raw directory and four over
the snapshots, each over the files found when it begins (`todo`). `Crash` leaves
of a file that was being written any prefix that extends what was flushed, torn
or not. A torn line or a torn manifest cannot be parsed; a compressed file that
ends early can be read up to there, which is how `zstandard`'s reader behaves on
a truncated frame; a Parquet file that ends early cannot be read. After a crash
or an exit the service starts again in the same directory with sequences from 1.

`Replay` is a function of the manifests and files on the disk: `Chained` is the
iterator of one stream and `Merged` the heap. `read_raw_events()` makes a chain per
directory (`replay.py:122`), which is a stream within one hour
(`storage.py:146`). That is what these two modules call a stream: nothing in them
relates two of them, so they may as well be two hours of the same one. (The
storage opens one after the other then, while the model may have both open.) `Linked` adds one segment to a
chain and `Popped` is one round of the heap; `Chaining` and `Merging` are the
results after each segment and each round, as recursive functions. Both stop when
they refuse, and keep what they have yielded. `ReplayIsExact` evaluates them in every state in
which the service is down, on whatever the storage has left.

## Runs

| Run | Properties | Bounds, distinct states |
|---|---|---|
| `EventBus_calls` | `TypeOK` `FanOut` `ArrivalOrder` `AllOrNothing` `EveryCallReturns` `IsOneLog` | 3 publishers, 4 calls, capacities 1 and 2; 133 656 |
| `StateStore_events` | `TypeOK` `SessionIsolation` `OnlyReferencedBooks` `ResolvedForGood` `EarlyBooksKept` | a market of each timeframe, 2 sessions (symmetric), 2 versions, 1 stream; 179 613 |
| `Discovery_windows` | `TypeOK` `ExpiredIsHidden` `SearchIsBounded` `LogIsComplete` `WindowsInOrder` | 2 timeframes of 4 and 8 units, one boundary of both and one of the shorter; 1 836 779 |
| `ClobPipeline_rollover` | `TypeOK` `WindowBeforeBooks` `DesiredIsKnown` `SubscriptionsConverge` `BooksArrive` | 2 successive markets, 2 sessions, a queue of 1; 207 739 |
| `ClobPipeline_prices` | `NeverAWrongBook` `SettledBooksAgree` | 1 asset, 3 sessions, 3 versions, a queue of 3; 1 171 795 |
| `Gateway_shutdown` | `TypeOK` `LogIsPrefix` `RowsArePrefix` `CleanShutdown` `ShutdownEnds` | 2 events besides those of a window state and of ending sources, queues of 1, batches of 2; 657 143 |
| `Snapshots_path` | `TypeOK` `WindowsAreExact` `FlagsSettle` `PricesInOrder` `SubscribersInOrder` `IterationsEnd` | 4 events, 2 messages of each server, 2 seconds, a window of 1, a queue of 2, subscriber queues of 1; 1 191 822 |
| `SegmentStorage_crashes` | `TypeOK` `NothingFlushedIsLost` `RecoveryIsComplete` `ReplayIsExact` `CompletedForGood` `StartConverges` | 2 segments, 3 events per process, two raw streams with 2 crashes, or one stream (raw or snapshots) with 3; 406 313 |

What they show, in a sentence each, is in `PROJECT.json`.

Every property has a mutant, an operator beside the one it changes, which
breaks it: `PROJECT.json` pairs them. Deadlock is not checked where the
behaviours are finite because a bound stops them (calls, events, segments,
versions, time) or the service has stopped.

Why the bounds are enough for what they are meant to show.

* *EventBus*: three publishers give a holder, a head of the line and one behind
  it; four calls let one of them come back; one queue can be full while the
  other is not.
* *Store*: two sessions are an old and a new one, two versions make a change,
  and the windows of one timeframe can disturb the books of the other; that
  markets of one timeframe follow each other is in the pipeline, and the
  theorems hold for any markets.
* *Discovery*: the behaviours begin just before a boundary that both timeframes
  share and go on past the next boundary of the shorter one, so a worker comes
  back for a second search while the other is in its first. A search has four
  slots; a request takes up to two units and an append up to three, so slots
  elapse during a request and the lock is waited for.
* *Pipeline*: the second session is the reconnection, the third one shows what
  the second has left in the deduplication cache.
* *Gateway*: two ticks are one more than the snapshot queue holds while its
  writer has none, so the reducer waits with one in its hand; the window state
  and the status of an ending source come on top, and a batch of two can fail
  in its middle. The theorems hold for any number of each.
* *Snapshots*: four events are a price, a tick, another price and another tick,
  or two status events around a loss; with two messages of a server one can come
  twice or late; with a window of one second and times 0 to 2 a trade can be
  inside, at the edge and outside. A subscriber queue of one is full after one
  snapshot. Everything but `IterationsEnd` is proved without these bounds.
* *Storage*: two segments are two of one stream or one of each of two streams;
  the longest chain of crashes that reaches a new state of one segment has three
  of them (in the compression, between the rename and the finalization of the
  recovery, and once more). With two streams two crashes do: each stream can
  lose its own end, and one recovery can be interrupted. Three events per process
  put an event of the other stream between two of the first.

### Where code and documentation disagree

Four runs check what a document says, and TLC finds what the code does instead.

| Run | The documentation | The code |
|---|---|---|
| `StateStore_divergence` | after three divergences a full book is required (`market_data.md:153`) | the next price change is enough |
| `ClobPipeline_backoff` | ready: required sources are connected (`:85`) | the flag is cleared after the back-off |
| `Snapshots_replay` | live ingestion and replay make the same snapshots (`:105`) | two flags are not in the log, so a replayed snapshot is never ready |
| `Discovery_stops` | an error of the transition log cancels the other worker (`market_discovery.md:76`) | a worker in the `finally` clause of its search swallows the cancellation and goes on |

The models show more that is worth knowing, for which there is no run:

* A call that is cancelled or times out keeps its sequence number
  (`event_bus.py:39`), so the log of a healthy run can have a gap and replay,
  which verifies contiguous sequences (`market_data.md:115`), refuses it.
* Ready means that one market exists (`state.py:545`), not both (`:85`).
* A crash during the compression leaves a valid `.jsonl`, which goes to
  quarantine (`storage.py:420`) as if it were invalid (`:93`). It loses no events:
  `NothingFlushedIsLost` holds, with the quarantine counted as a place where
  events are. `StartFails` (`storage.py:391`): a crash during the recovery can
  make the next start fail, once; `StartConverges` holds all the same. A readable
  `.jsonl.zst.partial` replaces a finished `.jsonl.zst`, even a longer one
  (`storage.py:428`).
* Backpressure is said to be fatal (`:23`); a source takes a refused event for a
  lost connection and reconnects. What was refused counts as seen and is never
  published again.
* Replay is said to verify duplicate IDs (`:115`); it looks at sequences only.
  Sequences begin at 1 in each process (`gateway.py:100`), so the logs of two
  processes in one directory overlap; replay refuses them as a rule, and accepts
  a mixture when the pieces happen to fit.
* A full book identical to the last one, sent again after a reconnection, is
  dropped as a duplicate (`sources/polymarket_clob.py:532`), and the asset has no
  book until it changes. `BooksArrive` is checked with `FreshIds = TRUE`.
* After a fatal error the raw writer leaves an empty queue (`gateway.py:178`)
  while the sources still publish into it until the shutdown begins.
* A slow subscriber is disconnected (`:28`) without being told: its iteration
  ends like one that came to a normal end, and only after the service has
  stopped. One that already waits when a fatal error comes ends normally too;
  one that asks afterwards gets the error.
* A Chainlink timestamp may lie five seconds ahead (`rtds_chainlink.py:66`);
  messages stamped properly are then out of order until the clock is there.

## Fairness

* `EventBus`: weak fairness of the lock's queue, of polls and of time. The
  event loop wakes the head of the line when the lock is released and every
  sleeper when its time has come. Nothing is assumed of callers or consumers.
* `ClobPipeline`: weak fairness of the reducer, `run()` and `_subscriptions()`
  between their awaits. Strong fairness of `Connect`: a connection that is
  attempted again and again succeeds some time (the bound on sessions makes the
  last one last). Strong fairness of waking with all expired assets: the task
  wakes every 250 ms, and grace periods are finite.
* `Gateway`: weak fairness of each worker, of the cancelled producers and of
  `shutdown()` once it is called. Nobody has to call it. Nothing is assumed of
  its deadline (`TimesOut` has no fairness), so a shutdown that only the
  deadline can end violates `ShutdownEnds`, with two exceptions stated in it: a
  fatal error, and a discovery that has survived its cancellation. A cancelled
  discovery is never made to end: the fairness of `ProducerEnds` is met by
  `DiscoverySurvives` as well.
* `Snapshots`: weak fairness of a subscriber that waits for its queue: it is
  woken by an item, or by its time limit of half a second. It need not come back
  for the next snapshot, and nothing is assumed of sources and reducer.
* `SegmentStorage`: the supervisor starts the process whenever it is down
  (`docker-compose.yml` restarts it), and the process does not stop by itself
  before it has recovered. Crashes are bounded, so there is a last one.
* `Discovery` states no fairness. Its clock passes only when nothing is due, so
  what must happen in time is a safety property (`SearchIsBounded`,
  `ExpiredIsHidden`).

## Proofs

`EventBusProofs`, `StateStoreProofs`, `DiscoveryProofs`, `ClobPipelineProofs`,
`GatewayProofs`, `SnapshotsProofs`, `ReplayProofs` and `SegmentStorageProofs`
are checked by TLAPS
for every value of the constants that the assumptions allow: positive capacities,
any publishers, sources and subscribers, any markets, timeframes with any
lengths and offsets, outcomes, sessions and versions, any streams and segments, any
bound on events, messages, crashes and time.

*EventBus.* `Spec => []TypeOK` (`TypeCorrect`), and from the inductive invariant
`IInv` (`Invariance`): `QueuesBounded`, `FanOut`, `ArrivalOrder`,
`AllOrNothing` and `LineMatchesCallers`. `ArrivalOrder` is not inductive: the
next event to be accepted is later than the last one only because tickets
increase along the line for the lock and the holder came before all of them
(`TicketsInLine`), and because everything accepted came before the holder, the
line and the next sequence number (`AcceptedBeforeLine`). `LineMatchesCallers`
is needed since a cancelled caller leaves the line from its middle.
`RemoveAtProperties` is the lemma about what that leaves; `QueueSteps` splits
the steps by what they do to the queues, so that `FanOut` is proved once per
effect rather than once per action. `QueuesBounded` and `LineMatchesCallers` are
stated by theorems only; no run lists them.

*The bus is one log* (`BusIsOneLog`). Each step is shown to be a step of `BusLog`
or a stutter. Three facts of `IInv` carry it: a delivery is later than what is in
the log (`AcceptedBeforeLine`, so `Log!Accept` is enabled), room in both queues is
room for both readers (`FanOut`, which ties queue lengths to positions), and a
caller is pending exactly when it is suspended (`PendingIsBusy`). Acquiring the
lock, polling and the clock are stutters; giving up is `Refuse`.

*StateStore.* `IInv` is `TypeOK /\ SessionIsolation /\ OnlyReferencedBooks`.
All book events go through `SetBook`, so `BookEvents` shows that each makes a
`Permitted` book and the rest of the proof treats them as one step. From the
same invariant follow the action properties `ResolvedForGood` and
`EarlyBooksKept`.

*Discovery.* The invariant is one predicate, `WorkerOK`, on a worker's record with
what it has shown, its newest market, its log and the time. `Expecting`: a
search expects a boundary, newer than all that was shown, which needs the lemmas
about `%` (`FloorFacts`, `NextBoundary`). `InTime`: a slot that is waited for has
not elapsed, since the clock waits for whoever is due. `Showing`: what is shown at
each place; a market that is ready is the expected one, and a market past its
end is hidden unless its expiry is due now. `Logged`: the records are in order,
below `expected`, a success for each market that was activated, and what is
missing is what the worker or its next step still adds. There is one lemma per
action, about the worker that moves; `OneStep` says that the others are left
alone, `Throws`, `Fails` and `Succeeds` are the ways to leave a search, and
`CancelledWorker` follows a cancellation. `SearchIsBounded`, `ExpiredIsHidden`,
`LogIsComplete` and `TypeOK` follow from it.

*Discovery reports windows* (`DiscoveryIsWindows`). `ShownFollows`: one `Show` is a
step of `MarketWindows` or a stutter, given that the market shown is expected
(`Expecting`, `Showing`), so that no market comes back. What the pipeline assumes of
discovery is therefore proved of it.

*ClobPipeline.* That no book misses a change (`NeverAWrongBook`) is a fact about
the way of its versions from the exchange to the store, so the invariant follows
them along it: `Path` is the versions of an asset in the store's book, the queue of
events, the frame the source has in hand and the frames under way. `PathOf`: the path of
an asset the source knows has no hole, and its last version is the exchange's as
long as the exchange sends it; an asset that is still to be subscribed has an empty
path. `LineInOrder`, `FrameInOrder`, `InboxInOrder`: versions come in order, and
a full book only where nothing of its asset is before it. So when a price change
reaches an initialized book, the book is of the version before (`NextVersion`).
This needs the rest of the invariant:

* `SessionsInOrder`, `Announced`: sessions do not decrease along the queue, and the
  status of a session comes before its events. The store therefore changes
  session, and drops its books, exactly between the events of the two.
* `Ownership`: the source knows the assets it desires, and these are the ones of
  the windows with those it has yet to retire; an asset that is dropped leaves
  with its path.
* `NothingSeen`: no change under way has been seen, so the deduplication drops none;
  what it may drop is a full book, which is the first of its path.
* `Windows`: the last window under way is the one accepted last (`told`), and as
  long as the manager lives the one reported last; a market that it shows is in
  all windows since it was first mentioned. `Introduced`: an asset that the
  accepted windows ask for (`Promised`) has been mentioned before its first event;
  what is promised anew was not known, so no event of it is under way
  (`ManagedOwns`). What a refused window asks for is desired and not promised:
  its events may come, and the store throws them away. `WindowBeforeBooks` is a
  part of this, and so is that the store keeps a book whose market is promised.

The lemmas go by what a step does to the path rather than by action: it is
emptied (`Cleared`), shortened at its old end (`Trims`, `DroppedKeeps`), answered
(`Answered`), left alone (`Quiet`), or it gets one more version (`TradingVersions`).
`SettledBooksAgree` follows from `PathOf` when the path is the book alone.
`MaxSessions` and the other bounds are arbitrary in the theorems, and replies
may be one frame or several.

*Gateway.* An accepted event goes down two lines and a tick a third, and the
invariant says where on each line it is. `StateLine`: what is reduced and what is
queued are together what was accepted. `LogLine`: the same for the file, the
batch in the writer's hand and the queue, unless the writer has failed and left.
`RowLine`: the ticks in files, in the Parquet writer's hand, in the queue and in the
reducer's hand are the first ticks, further along the older they are; it has
three degrees, since a failed writer keeps the files right but not the line, and
a reducer that failed on a full queue keeps the line in order but not complete.
`LogIsPrefix` and `RowsArePrefix` are what these say of the files. `CleanShutdown`
also needs `Drained`: each stage the shutdown has waited for is empty, and
nothing enters it any more since what feeds it has ended before.

*Snapshots.* The invariant has five parts that do not touch each other.
`PricesInOrder` needs `PricesSeen`: what is published is seen, and nothing seen has
a price newer than the newest. Two messages may tell the same price time at
different times of the server; both are published. `FlagsSettle` is not inductive, since the registry's flag
is wrong while a status is under way; `ClobFlag` says what the CLOB source wants
is what the last status under way says or, without one, what the registry says.
`SubscribersInOrder` needs `Membership`: only the last entry of a queue can be the
end marker, and only when the subscriber has left the set. `Bounds` is the rest
of `TypeOK`. `WindowsAreExact` compares a total that is kept by adding and
subtracting with a count over the whole log, which looks like an induction over
the log; `Follows` says it with counts only, and each step changes these by one
or not at all. For any time, a window has at most as many rows since that time
as the log has trades; it has exactly as many when no event reduced so far, and
no reading of the health writer, is later than that time plus the length of
the window. A trade adds one to both counts (`TradesMore`, `AddWindow`), and what
expires is too old to be counted since any time that still matters
(`SuffixCounts`, `ExpireWindow`); that the rows which remain are all young enough needs
the rows to be in order, so the times of the log to be (`Clocks`). For the
replayed store only the events count, so its totals are exact; for the live one
the equation is lost when the health writer has read it after the snapshot was
scheduled, and only then.

*SegmentStorage.* The invariant says of each segment which files may be together
and what they hold. `LayoutOf`: a manifest describes the data file beside it, and
then no partial file is left. `SafeOf`: where flushed events are. They are in
the file that is being written, in a `.jsonl`, in its quarantined copy or in a
complete data file; rows of a table in its partial or finished file.
`OpenOf` relates the segment that is being written to its file, `JobOK` each step of
finalizing to the files it finds, `SweptOf` the loops of the recovery that are
over to what they have left, and `TodoOf` what the present loop still has to do.
Each step is one of five kinds, proved once each: about one segment
(`OneSegment`), of a running process (`RunStep`), a process that goes down
(`Down`), the beginning of a loop (`LoopBegins`), and a crash (`RemainingFacts`:
whatever a crash leaves extends what was flushed). From the invariant follow
`NothingFlushedIsLost`, `RecoveryIsComplete`, since the loops that have ended have left
nothing for a later one, and `CompletedForGood`, since a file with a manifest is
no longer the target of any step. The invariant also shows that two branches
of the recovery have nothing to do under these crashes: a partial manifest never
can be renamed, and no manifest disagrees with its file.

*Replay.* Two theorems about `read_raw_events`, whatever it is given.
`ReplayIsSound`: segments whose events increase are refused, or given back as
consecutive numbers, each event of each segment once. `ReplayIsComplete`: a
log that is whole is not refused. Both are inductions over the segments of a
chain and the rounds of the heap. The library's induction theorems cannot be
used, so `ChainingIs` and `MergingIs` first show that the recursive functions
exist and satisfy their equations: the stages that can be computed are a set of
numbers that contains 0 and is closed under successor. `Induction` states that
such a set contains all numbers, from the least one it would lack (`LeastNumber`).
What is carried along a chain (`ChainOf`) is that its events increase, come from
the segments linked so far, and that these do not overlap; along the merge
(`MergeOf`), that the events given back are consecutive and are exactly those
before the places reached in each chain. For completeness the next number is always
at the head of some chain (`TopIsNext`), since each chain increases and all
smaller numbers are gone.

*Replay of what the storage leaves* (`ReplayHolds`). `IInv` is silent about the order
of events, so `Ordered` is added: events increase in every file, wherever a crash
has cut it, and no manifest is empty; that is all soundness needs. Completeness is
about a log no crash has touched, `CleanLog`: each number given out is in the
content of exactly one segment (`Numbered`; the content is in the buffer while
the segment is open, and afterwards what was kept), later segments of a
stream have later numbers (`InOrder`, by `LastIsOpen`: only the last one of a
stream can still grow), and a segment that is neither open nor being finalized
has a manifest and holds all that was written to it (`RestIsClosed`, which needs
`JobIsKept` while it is being finalized). When the process is down, nothing is
open and nothing is being finalized, and the two theorems apply.

Only model-checked: liveness (`EveryCallReturns`, `SubscriptionsConverge`,
`BooksArrive`, `ShutdownEnds`, `IterationsEnd`, `StartConverges`), which the
prover cannot do under fairness. Every safety invariant, action property and
refinement that a run checks is proved.

## Not modelled

* Of Chainlink and Binance: heartbeats, the bound of the deduplication cache
  (the 4096 identities seen last; an older one, with the newest price time,
  would have to come again), tickers and depths. Prices are their numbers and
  times.
* A server that answers a request of discovery drop by drop. `HTTP_TIMEOUT_SECONDS`
  (`client.py:44`) limits each operation on the socket and nothing limits
  their sum; `Discovery` takes it as the limit of a request (`Due`), and
  `SearchIsBounded` and `ExpiredIsHidden` hold relative to that.
* Of the CLOB source: the heartbeat and `stop()`.
* What follows a publication that ends a task for good: a refused window
  (`ManageFails`) or a refused status event in the `finally` of the CLOB source
  (`CloseFails`). The pipeline goes on without the task, and the safety
  properties hold; its liveness properties except both cases (`Stopping`), in
  which the service stops.
* Time in `ClobPipeline`, `StateStore` and `Gateway`: deadlines, back-offs, grace
  periods and staleness happen at any moment. Staleness in time is in
  `Snapshots`, deadlines of searches in `Discovery`. The clocks are taken to be
  one, which never steps; the code uses wall-clock time for boundaries and ages.
* The back-off of the sources never shrinks after a successful connection; it
  has no length here.
* Threads inside `RawEventStorage` and the Parquet writer: a batch is written in one
  step, and a raw writer that outlives the shutdown's deadline goes on after
  the storage is closed, not in the middle of it.
* Errors of the file system other than a target that exists. With them, rows of a
  table whose writing failed would be written again, and `flush()` of a segment
  whose rotation failed raises.
* Loss of power: a crash ends the process, and what has been handed to the
  operating system is kept. `fsync` is therefore not visible.
* Files damaged from outside: two branches of the recovery
  (a partial manifest to be renamed, a manifest that does not match) need one
  and are never taken under these crashes, except that a torn partial manifest
  is moved to quarantine.
* Requests to the Gamma API and the validation of their answers; the text of
  records.
* Parsing, validation, decimal arithmetic, formatting, configuration, command
  lines and scripts.

## Plan

Done: the modules and proofs above.

Next, in this order:

1. A second fatal cause in `Gateway`: a failing health writer; threads that are
   still writing when the storage is closed.
