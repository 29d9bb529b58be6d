# Aneiang.Yarp: TLA+ models, checks and proofs

Aneiang.Yarp is an API gateway built on YARP: routes and clusters are edited at run time through a
dashboard, HTTP and gRPC, saved in SQLite, published to the proxy, and traffic passes a pipeline of
plugins (rate limit, circuit breaker, retry, cache, discovery, log ...) that are configured by bindings
and swapped at run time. The dashboard is a set of JavaScript pages over that. This directory models the
concurrent and failure-prone parts of both. Every definition is translated from the source;
`PROJECT.json` maps definitions to source lines.

## 1. Inventory

| Part | State | Operations | Meets | What is hard | What makes it correct |
|---|---|---|---|---|---|
| Dynamic configuration (`DynamicYarpConfigService`, `RouteConfigManager`, `ClusterConfigManager`, `DynamicConfigState`) | working set of routes and clusters, version | CRUD, rename, enable, import, rollback, batches | publisher, persister | one semaphore around edit, publish and save; each can fail | tables, working set and proxy agree; uids identify; references kept |
| Persistence (`DynamicConfigPersister`, SQLite repositories) | three tables | incremental save, full save, load | working set | several calls, no transaction; crash between them | what was saved cleanly is recovered |
| Publication (`DynamicConfigPublisher`, `AneiangProxyConfigProvider`, `GatewaySnapshotCompiler`, `PluginBindingsController`, `ServiceDiscoveryRefreshService`, `PresetsController`) | snapshot, provider configuration, bindings table | publish, refresh, change bindings, discovery cycle, preset | all of the above | four writers, two locks, one of them with none | plugins never execute an older configuration than YARP routes by; reported changes are visible |
| Runtime domains (`PluginRuntimeDomain`) | current domain; count, flag and task of each | prepare, commit, abort, acquire, release, retire | every request, binding changes | lock-free lease counting against disposal | no request in a disposed domain, retired domains are disposed |
| Plan cache (`GatewayPluginExecutionPlanProvider`) | plan and the snapshot it is for | `Current` | every plugin | double-checked locking | plan and snapshot belong together |
| Circuit breaker and candidates (`InMemoryCircuitStateStore`, `DestinationCandidateCoordinator`, `CircuitBreakerMiddleware`) | a circuit per destination and one per cluster | acquire, record, reset, cleanup | retry, YARP | permits acquired in one place, outcomes recorded in another | half-open periods end, probes are bounded, counters count |
| Retry (`RequestRetryMiddleware`) | attempt, attempted destinations, response | attempt loop | breaker | failures, exceptions and aborts in a loop | the request ends, and a success is one |
| Proxy log (`ProxyLogStore`, `AsyncLogPersistenceService`) | bounded channel, batch, consumer loops | add, flush, retry, drain | SQLite, plugin resources | retries, stops that are given up, a forgotten loop | each entry is written once, held by one loop, or given up for a reason |
| Plugin manager and resources (`GatewayPluginManager`, `PluginResourceLifecycleCoordinator`, `PluginsController`) | enabled flags, running resources | toggle, reset, install, reconcile | plan cache, domains, proxy log | rollback of a toggle, loop against stop | resources run exactly when enabled |
| Notification settings (`dashboard-notifications.js`, `WebhookSettingsController`) | endpoints and subscriptions, on the page and on the server | stage, test, save, remove, subscribe, tune | notification delivery | optimistic updates, overlapping writes, rollbacks, debounce | page and server agree at rest; only tested endpoints are saved |
| AI assistant (`dashboard-ai.js`, `AIController`, `AIService`) | session, streams, confirmation cards | send, retry, confirm, execute, new chat, open and delete sessions | configuration | streams outlive the panel that shows them | writes run once and only when approved; messages go to the session that is shown |
| Logs page (`dashboard-logs.js`, `dashboard-state.js`) | realtime list and its polling; history search, details | poll, clear, scroll, search, page, expand | proxy log | answers out of order, leaving and reloading | one interval while looked at; number and items belong together |
| Rate limit, in memory and Redis | limiter per key; counters in Redis | acquire, cleanup | requests | limiters disposed while held | limit per window |
| Client registration (`GatewayAutoRegistrationClient`, `GatewayRegistrationHostedService`) | failure count, timer | register, heartbeat, unregister | gateway | lost answers, gateway restarts, overlapping timers | registered while up, not after stop |
| Notification delivery, history, audit, error store | bounded queues and lists | enqueue, send, snapshot, roll back | configuration | bounds, cooldown | nothing blocks the gateway |
| WAF, response cache, compression, metrics, authentication, the other dashboard pages and editors, deployment roles, schema migration | per request, or read once | | | | see section 7 |

The configuration semaphore (`ConfigManagerBase.ExecuteWithLockAsync`) and `PublishGate` of
`PluginBindingsController` are the two locks that most of this meets at; requests take neither.

## 2. Modules and how they correspond to the code

* **`GatewayConfig`** – `routes`, `clusters`, `version` are `DynamicConfigState`; `provider` is what YARP
  serves; `dbRoutes`, `dbClusters`, `dbDests` are the tables; `op` is the operation that holds the
  semaphore. One action per public operation (`AddRoute`, `RenameCluster`, `ImportBatch`,
  `BatchDeleteRoutes`, ...) makes the edit and bumps the version; `Publish` and one step per repository call
  of the save follow. `CallThrows` and `UniqueIndexThrows` are failing calls, `Restart` and
  `RestartLoadFails` the crash and the next start, which marks static records and loads the rest. `op.pending` is the list of stale records
  that a full save fixes before it deletes the first. `dirty`, `since` (what saves were given of each id since
  the last complete one) and `served` are history variables. `SqliteRouteRepository` and `SqliteClusterRepository` decide what a
  row keeps, so `RouteEntity`, `LoadRoute`, `DestEntities`, `LoadDests` are not identities.
* **`PluginRuntimeDomain`** – every interlocked or volatile access of `TryAcquire`, `Release`,
  `RetireAndDisposeAsync` and `CommitAsync` is one step; `straddled` records the domains retired while a
  `Release` sat between its decrement and its read of `_retired`.
* **`ExecutionPlanCache`** – the getter `Current`: the two volatile reads, the lock, the compile, the two
  volatile writes, against a publisher that moves on.
* **`SnapshotPublication`** – the four publishers of the snapshot and of the provider configuration, with
  the reads each makes before it writes. It takes from `GatewayConfig` that an edit holds the semaphore and
  from `PluginRuntimeDomain` that a candidate is committed or disposed; a routing table is abstracted to
  the revision it came from. `mu.lost` is history: rows of a change that a preset has changed since.
* **`CircuitBreaker`** – composes the circuit store, the candidate coordinator, the breaker (outer) and the
  retry middleware (inner, see `ProxyPluginOrder`) around an external YARP that forwards to one available
  destination. Time is abstract: `RecoveryElapses`, and any number of old samples leaving the window.
* **`LogPersistence`** – composes the channel of `ProxyLogStore`, any number of consumer loops of
  `AsyncLogPersistenceService` (`loop[c].pc` is the await the loop is at) and
  `PluginResourceLifecycleCoordinator`, which starts and stops the loop for three callers: its own loop, a
  toggle in `PluginsController` with its rollback, and the host that shuts down. A start is a task for the pool,
  and `Run` is the moment its lambda reads `_cts`: `loop[c].token` is the start whose token that is. A caller in `"stopping"` or
  `"undoing"` holds the reconcile lock. `StopAborted` is the request that is cancelled while it waits, which
  forgets a loop that still drains. Entries are numbered in the order the channel accepts them; `lost` and
  `gaveUp` are history variables. **`LogDelivery`** is the abstract promise: entries are handed out in the
  order of acceptance and reach the store, or are lost, in whole batches and once and for all; while stops
  are waited for, a batch is all that is handed out. `LogPersistence` implements it
  (`DeliversLog == Delivery!Spec`, with `PlaceOf` as the refinement mapping; an entry with a second row would
  be in a place the abstraction does not have).
* **`NotificationSettings`** – the page (`page`, `testPassed`, `selected`, the rows of the visible `card`,
  debounce `timers`), the requests in flight, and the server's single settings row. `tested` is history: the
  row that the last passed test of a platform was run with. `SavePlatformRead` and `SavePlatform` are the two halves of the controller's read-modify-write; `SaveSettings` replaces the row.
  Each request may be served, refused or timed out in any order; `SaveFailed` is the page's rollback with
  `UndoAdd` and `UndoRemove`.
* **`AiAssistant`** – the panel and its event streams: one action per event kind (`SessionEvent`,
  `ContentEvent`, `ErrorEvent`, `confirmWriteTool`, `DoneEvent`), per button and per answer.
  `turned` and `forked` are history: the panel was last cleared under a running stream or load; a stream was
  begun beside another one before either had a session. A Retry beside a running stream that has its session
  sets neither. `posted` has the approved writes whose request is on its way: the server may run one after the
  panel has given up on its answer. **`WriteApproval`** is the abstract promise about tools that change the gateway: asked, approved,
  run at most once. `AiAssistant` implements it (`WritesAreApproved == Approval!Spec`, where `approvalOf` is
  the refinement mapping).
* **`LogTabs`**, **`LogStream`**, **`LogHistory`**, **`LogsPage`** – the logs page. `LogTabs` has what its two
  tabs share. `LogStream` is the realtime tab: the interval and its flags (`polling`), loads of the buffer that
  overlap, rendering by visible range, clearing, hiding and reloading with what `saveState` stored.
  `LogHistory` is the history tab: the check for persistence, searches and pages, and the details of a
  row with their cache, each request answered in any order, failed or timed out. `LogsPage` composes them:
  `switchTab` and `ReloadPage` are one step of both tabs, all else is a step of one; answers to the tab that
  is not open, or to a hidden page, arrive all the same. Operations of both
  tabs and of the browser share one bound (`MaxOps`).

`MC*` modules name the small sets and symmetries of the runs; `*Proofs` modules hold the theorems.
Operators named `X_Something` are mutants: plausible bugs in the code behind `X`, which a named property
must detect.

## 3. Runs

Passing runs (bounds in the `.cfg`):

| Run | Instance | Shows |
|---|---|---|
| `config_edits` | 2 routes, 2 clusters, 5 uids, two edits per process life, one crash, changing `appsettings.json`; import, rollback, batches and client-ip destinations included | `UidsIdentify`, `SaveKeepsLiveRows`, `EditsKeepReferences`; `RestartRecovers`: a death between any two calls of a save leaves whole records that some save was given |
| `config_faults` | the single-record operations with one throwing call and one crash at any step; half-written tables meet the unique indexes | `DurableWhenClean`, `ServedMatchesWorkingSet`; `SaveKeepsLiveRows` and `RestartRecovers` also after a save that threw half way; `LockReleased`: the semaphore is given back, on the path of an exception too |
| `domain_swap` | 2 requests, 2 transitions, 3 domains | `ActiveCountsRequests`, `SafeDrain`, `CurrentIsOpen`; `RetiredIsDisposed`, `RequestAdmitted` |
| `plan_cache` | 3 readers, 3 publications | `CacheCoherent`, `LockedAnswerExact`; `Converges` once publications stop |
| `publish_all` | 2 bindings, an edit, and any two of: a binding change of one or both rows, a refresh, two presets, a discovery cycle, a throwing call | `SnapshotNotBehindRoutes` (until a discovery cycle runs), `CompletedMutationVisible`; `MutationEnds`: both locks are given back |
| `breaker_requests` | a retrying and a plain request, two half-open periods, codes that one of breaker and retry counts and the other does not, exceptions, aborts, a reset, a cleanup, a sliding window | `ProbesBounded`, `FailureCounterExact`; `RequestEnds` |
| `log_persistence` | 3 entries, a channel for one, batches of two tried twice, two failing writes, one change of the plugin or its binding (which a failing publication takes back), two starts; stops that wait, time out or race the host's, loops the pool runs late | `EntriesAccounted`, `OneReader`, `StopsReachAll`, `NothingLostQuietly`; `DeliversLog` (refinement of `LogDelivery`); `QueueMoves`, `StopsEnd` |
| `notif_page` | 2 platforms, 2 urls, 4 operations, 2 requests in flight | `RowsDenoteEndpoints`, `EndpointsPersisted` |
| `ai_panel` | 2 streams with a write call each, 2 panel operations | `ShownSessionIsCurrent`, `FlagMeansStream`; `WritesAreApproved` (refinement of `WriteApproval`); `StreamingFlagFalls` |
| `logs_page` | both tabs over 5 operations: one entry written, one load of the buffer, two queries (two pages; no hits), two requests of a kind under way | `PollsAreWatched`, `PageNumbersItems`, `ShownDetailIsCached`; `SpinnersEnd` |

Two runs exhibit disagreements between the code and what the repository says of it, findings in
`PROJECT.json` with the quoted lines. `breaker_leak`: the permit of a half-open destination that YARP does not
choose is never given back, and the destination gets no request again (`HalfOpenHasProbe` is violated).
`notif_untested`: the add row is edited while its test is under way, and the answer unlocks Save for a text no
test was run with (`OnlyTestedIsAdded` is violated).

Some properties say less than their names, because the code does less. `DurableWhenClean` speaks until a save
throws and again after the next complete one (`dirty`); what is left in between is the matter of
`SaveKeepsLiveRows` and `RestartRecovers`. `RestartRecovers` itself says "enabled, and without health
addresses", which is less than README.md:81 promises of a restart. `EndpointsPersisted` excludes writes that
overlapped (`disturbed`), one of which the controller loses. `OneReader` holds until somebody gives up on a
stop. `ShownSessionIsCurrent` holds unless the panel was cleared under a stream or a load, or two streams
began before either had a session (they do harm only with a third message, so the run, which has two streams,
does not need that exception; the theorem does). `FlagMeansStream` has no converse: see Retry below.

Further behaviour that the models follow and that differs from what a comment, a test name or a document
says, or that a user would not expect. No property of a run is about these; they explain definitions a
reader may stumble over:

| Where | What the code does | What is said |
|---|---|---|
| `ConfigManagerBase.cs:83` | after a failed save the next add or update saves only its own records | "Next CRUD operation will retry the full save." |
| `DynamicConfigPersister.cs:59` | a load that throws starts the gateway empty, and the next full save deletes the rows (`RestartLoadFails`) | `DynamicYarpConfigService.cs:118` "Routes added via Dashboard/Api (Source="dashboard"/"dynamic") must survive restart." |
| `ConfigEntityMapper.cs:25` | `Enabled` is not stored: a disabled route is enabled by a restart | README.md:81 "auto-persists and auto-recovers on restart" |
| `SqliteClusterRepository.cs:214` | the health address of a destination is written and not read back | `ConfigEntityMapper.cs:153` "lossless storage representation" |
| `DynamicYarpConfigService.cs:427` | a cluster named by two routes of one batch counts as surviving | `:433` "clean up clusters left orphaned by the deleted routes" |
| `RouteConfigManager.cs:254` | removing a client's last destination removes a cluster other routes may name | `:242` "only remove the matching destination" |
| `PluginRuntimeDomain.cs:87` | a `Release` that straddles the retirement drains a domain that a late request has entered | Regression `Program.cs:121` "Plugin runtime domain drains in-flight requests before disposal" |
| `GatewayPluginExecutionPlanProvider.cs:46` | the plan is written before the snapshot: a reader on the unlocked path can return the plan of an older snapshot | Regression test "reused and invalidated by snapshot publication" |
| `ServiceDiscoveryRefreshService.cs:269` | a discovery cycle puts routes of before an edit back | `AneiangProxyConfigProvider.cs:9` "Single source of truth for proxy configuration." |
| `AneiangProxyConfigProvider.cs:227` | discovery numbers the configuration by its own counter, the next refresh lowers it | `AneiangProxyConfig.cs:32` "Monotonically increasing snapshot version." |
| `PluginBindingsController.cs:563` | when the second write of a batch throws, the first stays | `:531` "Shared atomic flow" |
| `PluginBindingsController.cs:554` | an edit can publish rows of a binding change that is then rolled back, and they stay published | `:531` "on failure run rollbackAsync" |
| `CircuitBreakerMiddleware.cs:177` | the probe of the cluster's circuit is recorded in the destination's circuit, and the cluster's stays half-open | `:19` "Closed → Open → HalfOpen → Closed" |
| `CircuitBreakerMiddleware.cs:122` | the request that turns the cluster's circuit half-open takes no permit | `CircuitBreakerConfig.cs:17` "Max requests allowed in half-open state." |
| `InMemoryCircuitStateStore.cs:171` | a destination's circuit goes by throughput and ratio, never by `FailureThreshold` | `CircuitBreakerConfig.cs:11` "Consecutive failures before opening circuit." |
| `RequestRetryMiddleware.cs:121`, `:189` | the response is wiped before the retry is known to be possible: without a candidate the answer is an empty 200 | `:21` "Retries 502/503/504 responses" |
| `AsyncLogPersistenceService.cs:158` | a stop during a write or a backoff cancels at once; the batch in hand is given up and counted nowhere | the message "Forced shutdown after graceful drain timed out" |
| `AsyncLogPersistenceService.cs:201` | a batch given up after its last attempt is not in `DroppedCount` | |
| `PluginResourceLifecycleCoordinator.cs:83` | a stop whose caller leaves forgets the draining loop; a later start puts a second consumer beside it | the channel is `SingleReader` (`ProxyLogStore.cs:62`) |
| `AsyncLogPersistenceService.cs:75` | `_cts.Token` is read when the pool runs the lambda: after a stop that was given up (`:91-93`) the task fails on a null `_cts`, or, after another start, two loops run under one token until the next stop | the channel is `SingleReader` (`ProxyLogStore.cs:62`) |
| `PluginResourceLifecycleCoordinator.cs:98` | the loop may start the resource again after the host's stop released the lock | |
| `ProxyLogStore.cs:61` | the channel's `FullMode` is `Wait` and `TryWrite` drops the new entry | `:27` "DropNewest so logging never blocks proxy" |
| `ProxyLogStore.cs:139` | the head of the ring overflows after 2^31 entries and `GetRecent` throws (not modelled) | |
| `WebhookSettingsController.cs:155` | two overlapping saves of platforms read the same row, and one is lost | |
| `dashboard-notifications.js:345`, `:554` | "follow global" is stored as the explicit list of every platform with endpoints, which later changes of the global list do not reach | `:554` "Follow-global reset" |
| `dashboard-ai.js:295`, `:321` | after a new chat or another session, the session event of the old stream sets the session back, and loaded messages are appended under the other session | |
| `dashboard-ai.js` | opening another session removes an open confirmation card; its stream waits for good with the streaming flag set | |
| `dashboard-ai.js:428`, `:338` | Retry of an error starts a stream beside one that runs; the end of either lowers the one streaming flag, and the panel takes further messages (`:181`, `:207`) while the other is still read | |
| `AIService.cs:273`, `:309` | `ResponseHeadersRead` limits the client's timeout to the headers: a model that stops in the middle of its answer keeps the stream, and the stop icon, up for ever | |
| `AIController.cs:150` | an error the service has reported as an event may be followed by a second one, of the store that fails | |
| `dashboard-logs.js:1969`, `:2033` | hiding the page stops polling for good: `stopPolling` resets the flag that was just set | `:2036` "Page is visible again - resume polling if it was active" |
| `dashboard-logs.js:84` | leaving to the history tab ends polling, and a reload restores "listening" without an interval | `:83` "Resume polling if it was active before" |
| `dashboard-logs.js` | with more than 100 entries the second render of a list is blank until it is scrolled; a cleared list comes back with a load in flight | |
| `dashboard-logs.js` | "next page" clicked twice overruns the last page; the search button keeps the page number of the earlier search; one failed check disables the history until a reload | |
| `dashboard-logs.js` | a detail whose second, overlapping load fails shows the error and counts as loaded | |

## 4. Bounds

Two routes and two clusters are the least with a rename onto another id, a shared cluster and an orphan;
five uids let every record of a run have its own and one be redrawn. Two edits per process life with a
crash reach edit – failed save – edit – restart – edit. Two requests are the least with one leaving a
domain while another enters, and two swaps the least with a retired domain beside a retiring one. Three
readers are one inside the lock, one waiting with an older snapshot and one on the unlocked path.
In `SnapshotPublication` two bindings are the least with a batch that fails in its middle; `MaxKinds` lets
an edit meet every pair of the other events.
In `CircuitBreaker` two half-open periods (`MaxTrips`) are needed to confuse the permits of one period with
the next, and a request of each; the window (`MaxSamples`) is long enough for a sample to expire. What
`ProbesBounded` and `FailureCounterExact` say is proved for any number of requests and any window.
In `LogPersistence` a channel for one entry is full at once, a batch of two can be cut short by the third
entry or by a stop, and two attempts are the least with a retry. One change, which may be taken back, and two
starts (`MaxLoops`) reach stop – forgotten loop – start, the case of two loops, under two tokens or under
one. In `NotificationSettings` two urls, one endpoint per platform and two requests are the least for an add
that races a removal, for a save that is refused because the list is full, and for an edit during a test. In
`AiAssistant` two streams are the least with one that outlives its panel or is retried beside another; two
panel operations close a session and open another. In `LogsPage` one query has a second page and one has no
hits; two searches, two questions about persistence and two details can be under way, and five operations
search twice or page, expand, switch tabs or reload, and come back.

Bounds are guards of the actions they bound (edits, faults, restarts, trips, resets, operations) and are
named constants. `CHECK_DEADLOCK FALSE` appears where a bounded run ends because its events are used up.

## 5. Fairness

Only steps that the code takes without waiting for an external event are fair: the steps of a running
operation (`OpStep`), of a retirement, of a request in flight, of a publication and a binding change, and
of a reader inside the getter. Edits, faults, crashes, arrivals, timeouts and discovery cycles are never
forced. `ExecutionPlanCache` assumes that traffic goes on (a reader that has finished calls again). YARP
answering (`Forward`) is assumed fair: it has its own activity timeout, and an attempt of the retry plugin
has `TimeoutSeconds`.

`LogPersistence`: the tasks of the loops run (queued ones too), the coordinator wakes every second, the
semaphore lets a waiting caller in, a toggle that has the lock goes on, and a stop that can finish finishes.
Nobody has to switch the plugin, stop the host or give up waiting, and no write has to succeed; a drain ends
because a run has finitely many entries. `AiAssistant`: a request of a stream is answered or fails (the headers
of the model's answer are bound by the client's timeout), what is drained ends, and an approved write is
answered or fails. A stream that is being read is not forced to go on, nor is the user to decide on a card:
`StreamingFlagFalls` has both as its exceptions. `LogsPage`: a search, a question about persistence and a detail
are answered or run into the API client's timeout of 30 seconds. Users are never forced to anything, nor are
answers of the page's other requests. `NotificationSettings` is checked for safety only and states no fairness.

## 6. Proofs

TLAPS proves, for every value of the constants that satisfies the named assumption of the module:

* **`GatewayConfigProofs`** (`ConstantsAssumption`). `TypeCorrect`. `Durable`: `DurableWhenClean` is not
  inductive, because between the edit and the end of the save the tables lag behind; `DurInv` adds what
  each save step has reached (`FullSaveProgress`), what an incremental save may differ in
  (`IncrementalScope`: only the records named by the operation), that those are the records edited
  (`OpTargets`), that destinations belong to stored clusters (`DestsOwned`), what the list
  of stale records holds (`Listed`) and that an idle clean state is
  in sync (`Settled`). There is one lemma per save step and one per group of edits. `Served` needs only that
  every edit leads to the publish step. `LiveRowsKept` is an action property: each deleting step deletes
  only rows without a live record, which `OpTargets` gives for incremental deletions.
  `UidsStayUnique`: `UidsIdentify` is inductive together with the
  types, because a new uid avoids every uid in memory and in the tables, an edit moves uids and never copies
  them, and the unique indexes refuse the rest; the lemmas state that once for any change of a table
  (`Distinct` under a renaming, an insertion, a restriction). `Recovered`: `GivenInv` says that every row of the tables, whichever call of a
  save wrote it, is one that a save was given (`RowsGiven`), and that what a save is writing has been given; a
  start loads rows, and `MarkStaticConfig` leaves those that appsettings.json does not name. `DynamicRowsKept` (action property `StartKeepsDynamicRows`): while the save
  of a start that could read the tables runs, every stored dynamic route is in the working set.
  `ReferencesKept` goes through the edits one by one; that a batch deletes every live route it names needs
  the first position that names it, hence the well-foundedness of the naturals.
* **`PluginRuntimeProofs`** (`DomainsAssumption`, `CacheAssumption`). `DomainInv` says that the counter equals
  the number of requests between increment and decrement, that a completed drain of a domain that was not
  straddled means nobody is inside, and which domains can be current or candidates. `CounterIsExact`,
  `DrainIsSafe` and `CurrentStaysOpen` follow. `DrainIsSafe` shows that the straddling `Release` of section 3
  is the only race. `CacheInv` adds the lock protocol to the coherence of the plan cache;
  `CacheStaysCoherent` and `LockedAnswersAreExact`.
* **`SnapshotPublicationProofs`** (`PublicationAssumption`). `TypeCorrect`, and `NeverBehind` for
  `SnapshotNotBehindRoutes`. The property alone is not inductive: a binding change publishes what it read
  earlier. `OrderInv` says that the version it read is at most one above the snapshot's, that its routes,
  read after the version, are at least those of the snapshot as long as that version is still newer, and
  that a publisher under the semaphore applies exactly the routes it has put into the snapshot.
  `ReportedChangesVisible` for the action property `CompletedMutationVisible`, from `VisibleInv`: the rows a
  change has written stay in the table unless a preset changes them (`Stored`), so its refresh compiles them;
  a discovery cycle chooses a version at most one above the snapshot's (`DiscoveryOnTime`), so one that
  compiled before the change was published loses the compare and swap, and one that is still in time compiled
  after the rows were written (`DiscoveryAgrees`).
* **`CircuitBreakerProofs`** (`BreakerAssumption`). `TypeCorrect`, `ProbesStayBounded`, `FailuresCounted`.
  `WindowSlides` is the lemma about the window: after an append and a cut of the k oldest samples, the
  number of failures is the old one, plus the new sample, minus those of the cut (a bijection between the
  positions that stay). `ProbeInv` numbers the half-open periods from 1, bounds a request's probe by the
  periods begun and, until the first reset, the probes of the current period by its permits. Steps that
  begin no period and give no permit are treated by one lemma (`QuietProbes`), the two that do by another
  (`PassesProbes`).
* **`LogPersistenceProofs`** (`PersistenceAssumption`). `TypeCorrect`, `EveryEntryAccounted`,
  `OneReaderOnly`, `NoneOutOfReach`, `WrittenInOrder`, `LostForAReason`. `Readers` states the protocol of the
  reconcile lock: a loop that runs was told to end or looks at the token in `_cts`, whoever holds the lock for a
  stop has cancelled that token, and until somebody gives up on a stop every loop that lives is the one in
  `_consumeTask`. `Ordered` says that what a loop still holds was taken after all that is written.
  `DeliveryImplemented`: every step of a loop takes an entry, writes its batch, loses it or moves nothing
  (`LoopStepMoves`), each of which is a step of `LogDelivery` or a stutter; that a batch is all that is held
  (`BatchHeld`) is where `Readers` is needed.
* **`AiAssistantProofs`** (`AssistantAssumption`). `TypeCorrect`, `ShownIsCurrent`, `FlagNeedsStream`, and
  `WritesApproved`: initial states map to initial states of `WriteApproval` and every step to a step or a
  stutter, from `StreamsInv` (the decisions of a stream bound the calls that were posted and have run).
  `CurrentInv`, for `ShownIsCurrent`, adds that until the panel is turned over or forked every stream under way
  and every load belongs to the session that is shown, and that without one there is at most one stream.
* **`NotificationSettingsProofs`** (`NotificationAssumption`, which includes that the debounce of the automatic
  save is no platform, and `InitialAssumption`: the settings in the database are ones the controller could have stored).
  `TypeCorrect` and `RowsDenote`. `PersistedAtRest`: `EndpointsPersisted` is about pages at rest, the work is in what holds while a write is under way. `OneWrite`
  and `Agrees` say that, unless two writes have overlapped, the single write on its way carries what the page
  shows, and that the server keeps what undoing it would restore; `UndoAddRestores` and `UndoRemoveRestores`
  are the facts about sequences behind it. What the controller keeps of a list it is sent (`Kept`: one endpoint per url,
  at most `MaxEndpoints`) is a fold over data, about which nothing can be proved by induction here; the proofs use
  only that the server stores `Kept` of what it received.
* **`LogsPageProofs`** (`TabsAssumption`, `StreamAssumption`, `HistoryAssumption`), of the page with both tabs.
  `PageTypeCorrect`, and `PollsWatched`: `PollsAreWatched` is inductive once it is known that
  `wasPollingBeforeHidden` is never up between two steps. `PagesNumbered` and `DetailsCached` from `HistoryInv`:
  what is on display as items is an answer (`ItemsShown`); with no search under way, and the last one not
  failed, the page number is that of this answer, whatever the container shows (`Numbered`), and a load whose
  row is still attached belongs to the row that is on display (`DetailsOfRows`). A step of the page is a step
  of one tab and leaves the other alone (`PageStreamStep`, `PageHistoryStep`), or one of both.

Only model-checked: the liveness properties (`LockReleased`, `RetiredIsDisposed`, `RequestAdmitted`,
`Converges`, `MutationEnds`, `RequestEnds`, `StreamingFlagFalls`, `SpinnersEnd`, `QueueMoves`, `StopsEnd`), which
rest on fairness and are out of the reach of the prover. Every safety property of a passing run is also
proved. The types, `WrittenInOrder` and `DynamicRowsKept` state what no run lists:
they are implied by what the runs check, or were model-checked with other bounds before they were proved.

## 7. Not modelled

Match, order, transforms and policies of routes, and timestamps, are carried along by every operation and
no control depends on them. Ids stand for their case-insensitive classes; the tables compare ids
case-sensitively, which is not covered. Lock-free readers of the working set (`GetRoutes`) are covered only
where their result is written back. The buffering of bodies, the length of delays, the message texts and
the display values of circuits are left out, and so are configuration changes during a request. Critical
sections of a circuit are atomic against `ResetAll`, whose own writes are separate steps. A cleanup of the
circuits happens between requests. The ring buffer of recent log entries, the hourly cleanup of stored
entries and a change of `PersistenceEnabled` are left out of `LogPersistence`.

The WAF, compression, metrics, the response cache, authentication, deployment roles and the schema migration
are decided within one call or read once at start. Rate limiting, the client registration, notification
delivery, install and upgrade of plugins, the rewrite of bindings after a rename, history, audit and the
error store are not modelled; the hazards in them that are known are listed in `PROJECT.json` with a note.
(In `NotificationDispatcher` the queue drops its oldest element, so `TryWrite` never fails and the warning
about a full queue is never logged; a cooldown starts before the delivery is known to have worked.)

Of the dashboard, the three pages with protocols of their own are modelled: notifications, the assistant and
logs. The other pages are tables and forms over one request each; what their requests change is modelled
behind the endpoints. The routes page has races of its own kind in rendering (more than 300 rows are
rendered in batches that two renderings interleave, `dashboard-routes.js:654`; Refresh uses the cache,
`:2047`) that would need a model of the DOM.

The share of JavaScript lines that definitions stand for is small: 37,016 of about 60,000 lines are
Monaco's vendored TypeScript worker, and most of the other 23,000 are markup, formatting and translation. Most
of what is modelled is C#.

## 8. Plan

1. Done, with proofs: `GatewayConfig`, `PluginRuntimeDomain`, `ExecutionPlanCache`, `SnapshotPublication`,
   `CircuitBreaker`, `LogPersistence` and `LogDelivery`, `AiAssistant` and `WriteApproval`,
   `NotificationSettings`, `LogStream`, `LogHistory` and `LogsPage`.
2. `ClientRegistration`: registration, heartbeat and unregistration over an unreliable channel against a
   gateway that restarts; abstract specification "registered while up", shown to be implemented.
3. `RateLimiterStore`: entries against cleanup and disposal; the window algorithm of the Redis script
   against a reference definition.
4. `PluginLifecycle`: install and upgrade beside the toggle of `LogPersistence`, with the plan that requests
   run with meanwhile.
5. Identity renames and `UpdateBinding` in `SnapshotPublication`: rows with identity, versions of bindings.
6. History, notification delivery, error store.
7. Proofs: an abstract specification of the working set and its tables that `GatewayConfig` implements, and
   one of the leases of a runtime domain.
