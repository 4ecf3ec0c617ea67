# in-and-out: formal models, checks and proofs

TLA+ modules for the data-synchronisation engine in `src/engine/src/inandout` and the
demo simulator in `src/simulator/src/inandout_simulator` (paths below are relative to
the first, `simulator/` to the second), TLC configurations that check them on small
instances, and TLAPS proofs of what matters most for every value of the constants. The
code is the reference; `src/GOAL.md` supplies the requirements the properties quote.

    tlc -config Ingestion.cfg MCIngestion      # one run
    tlapm IngestionProofs.tla                  # one module of proofs

`PROJECT.json` lists the components, the runs with their properties, the source
lines every definition stands for, the hazards, the findings and the theorems.


## 1. The system

in-and-out copies records of external systems into PostgreSQL (*ingestion*) and
carries what a master-data process (MDM) decides back to them (*writeback*). Both
are long-lived asyncio daemons, and several replicas of each may run on one
database. Everything durable is in PostgreSQL tables; the processes share state
with each other only there, and inside a process through a circuit breaker, a token
bucket, token caches, an event buffer and a connection pool. A third program, the
schema-manager, changes the database under them and is kept apart by a gate. A fourth,
the simulator, stands in for the external systems in demos and tests.

| Component | State | Operations | Talks to |
|---|---|---|---|
| Polling loops, `ingestion/daemon.py`, `writeback/daemon.py` | interval, result of the last poll, drain event, health row | poll or cycle, report to the breaker, mark health, sleep, drain | sync or writeback engine, breaker, gate |
| Circuit breaker, `transport/circuit_breaker.py` | state, failure count, `_opened_at`, pause, count of openings | `allow_request`, `record_success`, `record_failure`, `reset`, `state` | both loops, `_dispatch_row`, control commands |
| Requests, `transport/http.py`, `rate_limiter.py`, `retry_budget.py` | bucket tokens and rate, stamps of recent retries | acquire, send, retry, back off, give up | external APIs |
| Tokens, `transport/auth.py` | cached token per credential, secret on disk | fetch, refresh, retry once on 401, rotate | token endpoints, control commands |
| Component gate and pool, `postgres/component_gate.py`, `postgres/pool.py` | `component_state.desired`, a shared advisory lock per cycle, free connections | enter (look, connect, lock, look again), leave | every cycle; schema-manager |
| Sync engine, `ingestion/engine.py` | source table, watermark, checkpoint, sync-run rows, dead letters, lock row; page, `seen_ids`, `new_watermark` of a run | `run_sync`, page walk, bulk export, upsert, drift protection, tombstone pass | source API, PostgreSQL |
| Webhook receiver, `ingestion/webhooks.py`, `event_buffer.py` | seen event ids, last sequence per route, in-memory reorder buffer | deduplicate, compare, buffer, fetch, upsert, answer | senders, sync engine |
| Webhook lifecycle, `ingestion/webhook_lifecycle.py` | subscription rows | register, check, register again | remote registration endpoints |
| Hot reload, `ingestion/watcher.py`, `ingestion/daemon.py` | connectors known, loops, routes, signal flag | notice a change, load, replace, start loops | files, loops |
| Writeback engine, `writeback/engine.py`, `ordering.py`, `postgres/desired_state.py` | desired-state rows, last-written state, audit rows, advisory lock | fetch, deduplicate, order, pre-flight read, write, record, feedback, statuses | target API, MDM, ingestion |
| Dead letters, `deadletter/*.py` | dead-letter tables, `_action` of delta rows | park, replay, requeue, apply a script, purge | writeback cycle, source table |
| Control commands, `engine/control.py` | control table, pauses in memory | fetch, acknowledge, execute, report | all of the above |
| Housekeeping and privacy, `postgres/housekeeping.py`, `engine/privacy.py` | - | retention deletes, purges of a person | all tables |
| Simulator, `simulator/` | a record store of three kinds, its mutation log, event bus, webhook tasks | list, create, update, delete, publish, post | engine, panel users |
| Transformation, configuration, CLI and API, secrets, plug-ins, observability, federation | static data, pure functions, front ends | | |

What is hard, and what the properties are aimed at:

* **Interleaving.** Coroutines share a breaker, a bucket and a token across awaits; two
  instances share a datatype; webhooks write rows while a walk decides which are missing;
  the target's own users edit a record between the pre-flight read and the write; two
  housekeeping loops delete the same rows in opposite orders.
* **Stale reads.** The watermark is read before the lock, missing ids are selected
  before they are verified, desired-state rows are fetched before they are sent and
  marked by `external_id` after it; a control row is fetched without being claimed.
* **Crashes and partial failure.** Each page is a transaction and each row several;
  a lookup may raise or answer 5xx, a write may be sent and not answered; a statement
  fails and its error is swallowed while its transaction is dead.
* **Delivery.** Webhooks are repeated, delayed and reordered; a request that timed
  out may arrive later; a subscription vanishes at the remote system.
* **Liveness.** A breaker must reopen, a schema upgrade must get its lock, a pool
  must not starve its loops, a request must end, an outage must end in convergence.

What makes each component correct:

* *Breaker, requests, tokens*: the breaker opens when it should and only with cause, is
  always left and recovers with the remote system; the rate is kept; a request ends and
  is not refused for ever; a rotated secret is not used again.
* *Gate and pool*: no work during or after the DDL; nobody waits for ever.
* *Sync engine*: the watermark never passes data that was not stored, wherever a listing
  starts and ends; only what was absent is tombstoned; tables converge.
* *Webhooks*: nothing older replaces something newer; an acknowledged event counts; a
  lost subscription is registered again.
* *Reload and health*: one loop per datatype, what changed is known in the end; the
  health table follows the source.
* *Writeback*: parents first; no write over a state nobody has seen, nothing newer
  replaced by something older, last-written state is real, updates arrive in the end;
  what fails for good is parked where it can be replayed.
* *Control*: a command takes effect at most once and is reported in the end.
* *Housekeeping*: what has outlived its retention goes.
* *Simulator*: a store does each request in one step; walks miss nothing that stays;
  what is published is what happened.


## 2. Modules

| Module | Models | Uses |
|---|---|---|
| `Breaker` | the `CircuitBreaker` object as a record and its methods as operators | |
| `CircuitBreaker` | one breaker shared by concurrent callers, the clock, resets | `Breaker` |
| `PollingLoops` | each daemon's loop around a breaker: two reports for every poll | `Breaker` |
| `HttpClient` | `_request` and `_raw_request` behind a token bucket and a retry budget | |
| `TokenCache` | the cached token of the OAuth2, custom and pre-request providers; rotation | |
| `Ingestion` | `run_sync`, `_do_sync`, `_upsert_record`, `_tombstone_missing`, by several instances; the source and its webhooks | |
| `SyncRange` | where a listing starts and ends: watermark, checkpoint, window, bulk export | |
| `Webhooks` | `_handle_single_event` and `EventBuffer` for the events of one record | |
| `WebhookSubscriptions` | the lifecycle loop and a registration endpoint | |
| `HotReload` | connector files, loader, loops and routes of a daemon, watcher and signal | |
| `ConnectorHealth` | the health row that syncs and loops write and the cooldown reads | `Breaker` |
| `ComponentGate` | the gate, the pool, drain and death of replicas; the schema-manager | |
| `Writeback` | `_run_writeback_cycle_inner`, `_dispatch_row`, `_write_feedback`, statuses; target, MDM, purge | |
| `WriteOrder` | the dependency sort and the dispatch of the sorted rows | |
| `DeadLetters`, `Requeue` | parked delta rows and their replay; rejected ingestion records and their requeue | |
| `Commands` | the control table, its pollers, pauses and forced full syncs | |
| `CommandQueue` | what an operator may expect of the control table (abstract) | |
| `Simulator` | stores, endpoints, event bus and webhook tasks of the simulator | |
| `RecordStore` | what a record store promises (abstract) | |
| `Housekeeping` | retention loops, gdpr-purge and the erasure script in their transactions | |
| `MCTransport`, `MCIngestion`, `MCDaemon`, `MCWriteback`, `MCStores`, `MCControl` | the instances that TLC checks | the above |
| `TransportProofs` | theorems of the breaker, the loops, the bucket and the tokens | `MCTransport` |
| `DaemonProofs` | theorems of the gate, of the webhook receiver and of the reload of connector files | `MCDaemon` |
| `IngestionProofs`, `SyncRangeProofs` | theorems of the sync engine | `Ingestion`, `MCStores` |
| `WritebackProofs` | theorems of the writeback cycle and of the order of a batch | `MCWriteback` |
| `ControlProofs` | theorems of the control table and of parked rows | `MCControl` |
| `SimulatorProofs` | theorems of the simulator's stores and events | `MCStores` |
| `Ordered`, `NaturalFacts` | the elements of a set of numbers in their order, and of a sequence at such a set; lemmas about both, about functions defined step by step and about sequences in which nothing occurs twice | |

The `MC` modules instantiate several modules that share no state; a behaviour runs one
of them, chosen by `part` in the initial state, so that the state spaces add up and do
not multiply. Each extends one component and instantiates the others: `MCIngestion` the
sync engine two more times, `MCStores` the listing ranges three times. What a theorem
speaks of takes its constants from the `.cfg`, and the proof modules extend the `MC`
module (or the component), so that a run and a theorem name the same definition, the one
at the bounds of section 3 and the other at all values. A property of an instantiated
module is that module's own under a name of the `MC` module, with `part = "..."` before it
where it promises something to happen.

Conventions.

* A step is one transaction, one HTTP call, or the code between two awaits. Where
  two awaits are one step, the comment says what makes the merge sound (usually a
  lock only its holder can pass).
* A version or state is a number that stands for payload, hash, ETag and cursor at
  once, because the properties only ask whether two are equal and which is newer.
  0 is absence. A delivered value is therefore comparable with what the source has.
  A record that comes back as it was has the version that it had.
* Histories (`absent`, `known`, `made`, `been`, `created`, `answered`, `badPolls`, ...)
  are read by properties and no guard reads them.
* "Slip" marks a variant of a definition with a plausible mistake in it. It is used
  nowhere in the module; putting it in the place of the definition it precedes makes
  TLC report the property it is paired with in `PROJECT.json`, which shows that the
  property can fail.

### How state and actions correspond to the code

**Breaker, CircuitBreaker.** `cb` is the object's fields; `age` is
`time.monotonic() - _opened_at` in ticks, saturating at the longest pause, and `opens`
saturates at 2 because the code asks only whether it exceeds 1. `Observed` is the
lazy transition to half-open that `allow_request` and every read of `.state` make.
A caller is admitted, awaits its response, and reports with `Succeed` or `Fail`;
between the two, others may trip, half-open or reset the breaker.

**PollingLoops.** In the ingestion daemon `run_sync` reports to the breaker and then
the loop reports again; "aborted", "skipped" and raised polls are each counted
differently, as in the code. The writeback loop never asks the breaker, its rows do.

**HttpClient.** A caller is between attempts, waiting for the bucket, on the wire, or
backing off. The bucket counts in units of which a request takes `Cost`, so that the
halved rate after a 429 is whole; `stamps` are the retries the budget still remembers.
The second limiter, a library, only delays and is left out.

**TokenCache.** Fetching a token blocks the event loop (a synchronous client), so it is
one step with what precedes it; requests in flight interleave with it. `Exclusive` says
whether the endpoint revokes the token before when it issues one.

**Ingestion.** `pc` follows `run_sync`: `started` (watermark read) - `locked` (row
lock) - `opening` (stamp committed, lock gone) - `fetched`/`paging` - `walked` -
`verifying` - `finishing`. `run` holds `_do_sync`'s locals. `CommitPage` is the page
transaction: dead letters, rows and watermark together. Paging is offset, keyset, or a
frozen snapshot; the listing is sorted by id or by cursor. `Stop` is any exception or
the death of the process at any of these points. The source edits a record, deletes it,
and may bring it back: with a new version (`SourceWrites`) or, with `Returns`, unchanged
(`SourceRestores`), when `Upserted` meets the hash that the tombstone has left. `latest`
is the version a deleted record had; `returned` is the history of the versions that came
back, by which `OnlyReturnsAreEmpty` and `Converges` know them.

**SyncRange.** One instance, whose page is listing, storing and saving a checkpoint
every so many pages. `orphan` is the run row a crash left at `running`, the only kind
the next start resumes. A version is the time of an edit, and `Textual` compares cursors
as the code does, as text. A bulk export is submitted, runs at the source, and is
downloaded; its job id is filed where the next run does not look.

**Webhooks.** A handler goes `received` - `routed` - `fresh` - `accepted`; deduplication
commits first, the sequence commits second, the row last. `lastSeq` is per route and
`buffer` is per process. After a gap is filled, the caller loses the released events
other than the one at hand (finding 3), and so does `BufferEvent`. `port` is the server
the senders post to: the separate webhook server answers 404 to all of them (below).

**WebhookSubscriptions.** Each request and each statement of the lifecycle loop is a
step. The remote system may forget a subscription or, with `IdsRestart`, reuse its ids;
a failed check or an unknown id makes the daemon register again.

**HotReload.** `library` is whether `watchfiles` is installed; without it there is
only the signal. A reload is one step, since it has no await. `configs` is the list the daemon knows,
`loops` what each loop was started with, `routes` what the web server was mounted with.

**ConnectorHealth.** `run_sync` and then the loop write the same row from the same
breaker, in this order; the cooldown at the start of `run_sync` waits for a status that
only `run_sync` writes and the loop replaces.

**ComponentGate.** A loop's position says which connections it holds. `Moves` changes
the pool by the difference and is disabled when the pool is empty, which is a wait;
the `...TimesOut` actions are the pool's timeout. A timeout in the gate is outside the
loop's `try` and ends the process.

**Writeback.** A worker takes the lock, fetches and deduplicates (`StartCycle`), then
dispatches its rows concurrently: `todo` - (`checked`) - `ready` - `written` - `ok`,
or `failed` or `skipped`; then feedback, statuses, unlock. `late` holds requests whose
sender has given up. Faults are named in a constant, so that a configuration says which
it allows. Last-written state is `Unwritten` where there is no row, which is not a row
that holds {}; the comparison takes them for the same, as the code does (`LastWritten`).

**WriteOrder.** The sort is a relation between a batch and its possible orders, because
it walks Python sets. `Dfs` and `Kahn` are the walk of `detect_dependency_cycle` and the
queue of `topological_sort` as recursive functions; what `CyclesAreRefused` compares them
with (`Circular`) mentions neither, but a set of ids each of which refers to another of
the set. The dispatch sends the rows of one id one after the other and up
to `Width` ids at once. Missing references are the string "None" in the code, a node of
the graph like any other.

**DeadLetters, Requeue.** A cycle counts a row's failures in the audit table (in all, not
in a row), parks it with a letter and a mark on the delta row in one transaction, and a
replay restores the action the letter remembers. `Layout` is the table the mark goes to:
the MDM's own, or one whose CHECK rejects it. A requeue writes a letter's payload back
past whatever syncs have stored since.

**Commands, CommandQueue.** A poller fetches a batch without claiming it and takes each
row through acknowledge (which marks it, whoever else has), execute and report. Pauses are in the
memory of the process that executed the row. The refinement hides pollers and batches:
a command is pending, taken, in effect, reported.

**Housekeeping.** A job is a script of statements in one transaction. The first error
kills the transaction although the script goes on, so its COMMIT is a rollback. Locks,
deadlocks between jobs, the pinned foreign key of watermarks and `NOW()` of the
transaction's start are modelled; retentions are whole days, half a day being the unit.

**Simulator, RecordStore.** A request is called, looked up where the store is asked
first, written, its mutation fetched back from the log and published. The memory store
does that without an await, sqlite does each store call under a lock, postgres runs
SELECT and write in READ COMMITTED. A create that names an id replaces its record, one
that names none asks for the next free id. `walk` is a client that reads the pages one
after the other; `calm` is lost when a write shortens the listing or moves a listed record
in it (`Moves`). The refinement maps a request's whole life to one atomic step.


## 3. Runs

Deadlock is checked in every run but two: `Control.cfg` and `ControlVainPause.cfg`, where
a drained daemon has nothing left to do and commands are bounded.

| Run | Module, configuration | Parts and bounds | Shows |
|---|---|---|---|
| `transport` | `MCTransport`, `Transport.cfg` | *breaker*: 2 callers, threshold 3, pause 1 doubling to a ceiling of 3; *loops*: the same breaker in either daemon, 2 rows in a cycle; *client*: 2 callers, a request costs 2 of 4 units, one retry and two attempts each; *tokens*: 2 callers, 4 tokens, 2 faults | `ClosedIsFresh`, `PauseIsServed`; `SustainedFailureOpens`, `OutageIsShed`, `RecoveryIsUsed`; `RateIsKept`, `RequestsEnd`; `RefusalsEnd`, `RotationIsComplete` |
| `ingestion` | `MCIngestion`, `Ingestion.cfg` | *full*: 1 instance, 3 records, pages of 2, 3 edits, 1 crash, one rejected version; *incremental*: the same with 2 edits on a sorted snapshot; *concurrent*: 2 instances, 2 records, pages of 1, 2 edits, webhooks; deleted records may come back unchanged but in *incremental* | `TombstonedWasAbsent`, `OnlyReturnsAreEmpty`; `WatermarkCovers`; `TwoTombstoneTheAbsent` (`TombstonedWasAbsent` of two instances); `TableConverges` |
| `writeback_conditional` | `MCWriteback`, `WritebackConditional.cfg` | *cycle*: 2 instances, 1 record, updates, 4 edits, 2 faults of 4 kinds, ETags; *order*: up to 3 rows over 2 ids and "None", 1 join field, one id at a time | `NoBlindOverwrite`, `NewerNotOverwritten`, `LwstateIsReal`; `OrderIsTopological` (`ParentsWrittenFirst` and `CyclesAreRefused`) |
| `writeback_faults` | `Writeback`, `WritebackFaults.cfg` | 1 instance, 2 records, all actions, 3 edits, 1 fault of any kind | `Delivered` |
| `daemon` | `MCDaemon`, `Daemon.cfg` | *gate*: 1 replica, 3 loops, pool of 3 or 7, 1 death, drains; *webhooks*: 1 handler, 1 route, 3 events of which the second may be a deletion, buffer of 2, 1 failure; *subscriptions*: 2 routes, 3 mishaps; *files*: 2 files, 2 edits, 1 restart; *health*: threshold 3, cooldown 2, 2 faults | `QuietWhileStopped`, `BarrierIsReached`, `LoopsWork`; `AckedIsCovered`, `NeverBackwards`, `Converges`; `LostAreReplaced`; `OneLoopPerDatatype`, `NoticedIsKnown`; `HealthFollows` |
| `stores` | `MCStores`, `Stores.cfg` | *resuming*, *windowed*, *exporting*: 3 records, pages of 1, versions 8 to 11 (exports to 10), 2 mishaps but for windows; *upkeep*: both loops, 2 pairs in opposite orders, 2 old rows, 1 crash; *simulator*: 1 engine and 1 user, each kind of store, 2 requests, pages of 1, 1 restart | `PassedIsStored`, `ListingsCatchUp`; `ExpiredGo`; `StoreIsAtomic` (refinement of `RecordStore`), `WalkSeesAll`, `PublishedIsLog` |
| `control` | `MCControl`, `Control.cfg` | *commands*: both daemons, 3 commands, batches of 2, 1 fault; *parked*: 1 row, 2 retries, 2 edits, 1 replay; *requeue*: 3 versions, 3 letters, 2 rounds | `QueueIsFollowed` (refinement of `CommandQueue`), `CommandsEnd`; `ParkedHasLetter`, `FailuresAreParked`; `RequeueHeals` |
| `ingest_mutual_exclusion` | `Ingestion`, `IngestMutualExclusion.cfg` | 2 instances | finding 1 |
| `wb_drops_failed` | `Writeback`, `WbDropsFailed.cfg` | 1 instance, 1 fault | finding 2 |
| `webhook_buffer_loses` | `Webhooks`, `WebhookBufferLoses.cfg` | 2 events, no failure | finding 3 |
| `pause_in_vain` | `MCControl`, `ControlVainPause.cfg` | both daemons, 1 command | finding 4 |
| `ingest_empty_return` | `Ingestion`, `IngestEmptyReturn.cfg` | 1 instance, 2 records in one page, a deletion and a return | finding 5 |

Why the bounds are enough. The breaker's pause needs three values (base, doubled, cut at
the ceiling), and a threshold of 3 tells a failure that trips from the first and from one
that only counts. A bucket of two requests is full, half full and empty, and two callers
are the least that wait for each other.
Three records with pages of 2 give a full and a short page, an offset that shifts when an
earlier record goes, and a mass-deletion guard that can say yes (1 of 3) and no (2 of
3); two records with pages of 1 are the smallest listing a deletion makes skip a present
record. Three edits are one to make a record vanish, one to bring it back (changed or not) and
one to overlap with it. A source whose listing is followed by cursor has to give a record
that comes back a new value of it, or no listing would show it: *incremental* has edits
and deletions, and a return is an edit there. Versions 8 to 11 cross the place where text and numbers disagree ("9"
and "10"). The buffer is full at 2, so that three events fill it, flush it and arrive
behind the flush. Two instances and one record are where writes overtake each other:
dispatch of different records shares nothing but the lock and the audit log, which the
second run covers with two. Three rows over two ids make a chain, a circle of one, a
circle of two and a repeated id. A pool of 3 is too small for 3 loops (all hold a gate
connection and want another) and 7 is the first that suffices, two for each and one to
spare. Two housekeeping loops with two pairs in opposite orders are the least that
deadlocks. Two requests to one record are the least that interleave in a store;
that a third may be published a second time, when it restores a record which the second
has revived, is left to the theorem, which has no bound.

### Fairness

* Loops never end, an HTTP call has a timeout and a transaction returns: weak fairness
  of each worker's next step, each caller's, each poller's, each housekeeping job's.
  Crashes, failures, edits, operators and the source are not fair; the properties hold
  without them ever happening and whenever they stop.
* The clock ticks (weak). An audit row grows older than its hour, a request does not
  stay on the wire for ever and a bulk export at the source ends (weak).
* `ComponentGate`: strong fairness of a loop's step, since a loop waits in the pool's
  FIFO queue while others take and return connections; a weakly fair loop could be
  overtaken for ever. Timeouts and the end of a drain are weakly fair.
* `Webhooks`: strong fairness of a sender's retry, because the bound on handlers
  is the model's, and a real sender would not find the server busy for ever.
* `ConnectorHealth`: strong fairness of the clock, which the model stops while a poll
  reports.
* `MCDaemon`, `MCIngestion` and `MCStores` state one condition for the like steps of all
  their parts at once. Only the part that runs is ever enabled, so it says the same as one
  condition for each part. `MCStores` asks still less of housekeeping: that some job goes
  on, not each of them.
* `Undisturbed` in `PollingLoops`, `faults = 0` in `Webhooks` and the like restrict the
  liveness claims to behaviours in which operators and failures leave off; what
  happens otherwise is in the tables below.
* `ListingsCatchUp` says nothing of windowed syncs: `CatchesUp` does not hold of them (below).


## 4. Where the code does something else

### Findings (runs that must be violated)

1. **Two instances sync one datatype** (`ingest_mutual_exclusion`). GOAL.md:87 asks for
   at most one. The commit that stamps `locked_until` (`ingestion/engine.py:277`)
   ends the transaction that held the row lock, and nothing reads `locked_until`.
2. **Failed rows are recorded as sent** (`wb_drops_failed`). `_write_feedback` inserts
   `ok` for every row of the batch (`writeback/engine.py:1757-1771`);
   `_deduplicate_with_audit` then leaves them out for an hour.
3. **Released events are lost** (`webhook_buffer_loses`). The released payloads go to
   `engine.ingest_record`, which does not exist (`ingestion/webhooks.py:372`); the
   error is swallowed and only the event at hand is stored.
4. **A pause may be taken by the wrong daemon** (`pause_in_vain`). `api/routes.py:276`
   pauses "polling for the given connector/datatype", but inserts a row that names no
   tool; the writeback poller may fetch it (`engine/control.py:54`), has nothing to
   pause, and reports it completed.
5. **A record that comes back unchanged is empty** (`ingest_empty_return`). GOAL.md:92
   asks of a tombstoned record that exists again for "clearing the deletion flags and
   writing the new payload". The tombstone has set `data` and `raw` to {} and left the
   hash (`ingestion/engine.py:1685-1690`); the branch of `_upsert_record` for the same
   hash only clears the flags (`ingestion/engine.py:1866-1872`), in this sync and in every
   later one. One instance with verified deletions suffices; the integration test of the
   case (`test_soft_delete_resurrection.py:142`) looks at the flags only. What does hold is
   `OnlyReturnsAreEmpty`, and of convergence that such a row is alive with its hash.

### Further counterexamples

Each of these is a behaviour that a reader of the docs would not expect. They are kept
because the passing runs above exclude the condition that leads to them, and a change of
the code should be tried against them. Those with a configuration: `tlc -config
<configuration> <module>`.

| Configuration | Module, property | The behaviour |
|---|---|---|
| `WindowStalls.cfg` | SyncRange, `CatchesUp` | a window without records does not advance the watermark, and the next sync lists the same empty window (`ingestion/engine.py:802-820`) |
| `WbLookupRaises.cfg`, `WbDelete.cfg` | Writeback, `NoBlindOverwrite` | a lookup that raises, and a delete without a read, let a write through unseen |
| `WbLockLost.cfg` | Writeback, `NewerNotOverwritten` | the advisory lock's session ends unnoticed |
| `WbDropsNewer.cfg` | Writeback, `DroppedWereLatest` | deduplication by action drops a newer desired state |
| `WbSkipThenOverwrite.cfg` | Writeback, `ExternalEditsSurvive` | a skipped conflict is stored as last-written and overwritten by the next cycle |
| `WbDuplicateInsert.cfg` | Writeback, `InsertedOnce` | an insert whose answer was lost is sent again |
| `WbStatusRace.cfg`, for the second with `Purges = TRUE` and as a PROPERTY | Writeback, `ProcessedWereWritten`, `PurgedWereWritten` | a desired state that arrives during a cycle is marked processed unsent, and purged |
| `WebhookLateDelete.cfg` | Webhooks, `NotificationsInOrder` | a deletion that arrives late among notifications replaces the newer record |
| `WebhookLostOnRetry.cfg` | Webhooks, `AckedSurvives` | an event id is committed before the event is processed, and its retry discarded |

The others need only a few constants or a property changed in a configuration above.

| Module, property | With | The behaviour |
|---|---|---|
| CircuitBreaker, `SingleProbe`, `OpenOnlyToHalfOpen` | threshold 1 | several coroutines probe a half-open breaker; a late success closes an open one |
| PollingLoops, `ThresholdCountsPolls` | `Tools = {"ingestion"}`, no contention, nothing raised | two reports per poll open the breaker after half as many polls |
| PollingLoops, `ClosesOnAnswer` | ingestion and contention, or writeback | a skipped poll, or a cycle whose rows were all rejected, closes it |
| HttpClient, `BackoffIsKept` | Transport.cfg | the next refill still counts the time before the backoff, and a shorter backoff ends a longer one (`rate_limiter.py:88`) |
| HttpClient, `RequestsEnd` | `Capacity < Cost` | below half a request per second the bucket never holds one (`http.py:84`) |
| TokenCache, `RefusalsEnd` | `Rotations = {TRUE}`, or `Exclusive` | a 401 forgets the rotated refresh token and the credential's is spent (`auth.py:229`); two callers revoke each other's token |
| TokenCache, `RotationIsComplete` | `Flow = "pre"` | rotate-credential does not clear pre-request tokens (`auth.py:472`) |
| Ingestion, `TombstonedWasAbsent` | no verification, one rejected record | its row is tombstoned |
| Ingestion, `WatermarkCovers` | keyset or offset paging of a list that changes; an unsorted snapshot and a crash; 2 instances; webhooks; `Returns` where a cursor is followed | records are left below the watermark; one that comes back with an old cursor is not listed again |
| Ingestion, `OnlyReturnsAreEmpty` | no verification; 2 instances; webhooks | a record that was only skipped, or was listed before its tombstone and stored after it, is live with an emptied payload (`ingestion/engine.py:1866`) |
| Ingestion, `SyncsComplete` | 3 records, 2 edits | after the source really shrinks, every full sync aborts on drift |
| SyncRange, `PassedIsStored` | `Window = 2`, a mishap | a resumed window starts where the last one ended |
| Webhooks, `NeverBackwards`, `AckedIsCovered` | 2 handlers, or 2 routes of a record | an older event is compared before a newer one is stored (`webhooks.py:465`) |
| Webhooks, `Converges` | `Ports = {"webhook"}` | the webhook server reads a field that no configuration has (`webhook_server.py:133-193`) |
| WebhookSubscriptions, `OnePerRoute`, `LoopLasts`, `SubscribedIsStored`; `LostAreReplaced` | Daemon.cfg; `IdsRestart` | a restart or a failed check registers a route twice; the first registration that fails ends the loop; an answer or a statement that is lost leaves a subscription without a row; a reused id hides a loss |
| HotReload, `ReloadTakesEffect`, `SignalIsTaken`, `PolledHasRoute`; `OneLoopPerDatatype` | Daemon.cfg; `Distinct = FALSE` | a reload does not reach a running loop, though GOAL.md:43 promises the next sync cycle: the callback replaces a list entry (`ingestion/daemon.py:1053`) that no loop reads again; without `watchfiles` the task that should take the signal has ended (`watcher.py:43`); a new connector has no route; two files of one name are polled twice |
| ConnectorHealth, `CooldownIsServed`, `RecoveryIsAnnounced`, `ClosedBySuccess` | Daemon.cfg | the cooldown looks for `unhealthy` while the loop stores `unavailable` (`ingestion/engine.py:144`); no recovery is announced (`ingestion/daemon.py:436`); a cooldown's skip closes the breaker |
| Writeback, `NoBlindOverwrite` | WbDelete.cfg with updates and `Optimistic`; without `ETags`; with `lookup_5xx`; with inserts, two instances and `write_lost` | the second lookup's ETag lets a write over an unseen state through (`writeback/engine.py:1108`), as does a write without an ETag, or a look-up that failed; an insert carries no condition |
| Writeback, `LwstateIsReal` | with `lookup_5xx`, as in WritebackFaults.cfg | a look-up that is answered with an error leaves `current_state` at {}, and the conflict that {} makes stores it as last-written state of a record that exists (`writeback/engine.py:923-976`), against GOAL.md:130-133 |
| WriteOrder, `ParentsWrittenFirst` | `Width = 2`, or two groups that share an id | a child may overtake its parent (`max_concurrent_writes` is 10 by default); the rows of an id are one queue in the dispatch, whichever group they are of |
| WriteOrder, `RefusedAreCircular`, `NoneIsLeftOut` | WritebackConditional.cfg | a row without a reference depends on one without an id; of two new rows of a group, which have no id yet, one is left out |
| DeadLetters, `FailuresAreParked` | `Layout = "desired"` | the CHECK of `inout_dst_*` rejects the mark and the transaction with it |
| DeadLetters, `ActionIsWanted` | Control.cfg | a replay restores the action its letter remembers over a newer one; a row is parked that was rewritten since its fetch |
| Commands, `QueueIsFollowed` | 2 daemons of a tool; a command that names no tool or the other; a resync or a trigger | it takes effect twice, or is completed and never does |
| Requeue, `ScriptMarksLetters`, `RequeueKeepsNewer`, Commands, `NextSyncIsFull` | Control.cfg | a script leaves its letters; a requeue writes over newer rows; a forced full sync is undone by one that is under way |
| Housekeeping, `ReportIsTrue` | Stores.cfg | counts are reported of deletes that were rolled back (`housekeeping.py:32`) |
| Housekeeping, `ExpiredGo` | a table in `Absent` | one missing table rolls everything back, every time |
| Housekeeping, `ErasedIsGone` | `Jobs <- Purges`, `Pairs <- OnePair`, `Filled <- Personal`, `Absent = {"main"}`, `MaxMishaps <- 2` in `Upkeep`, no deadlock check | gdpr-purge deletes first from a table that never exists, and so deletes nothing |
| Simulator, `StoreIsAtomic` | `AtomicStores = {"postgres"}`, or `{"memory"}` | SELECT and write are not one step, nor are the choice of the next id and the insert: of two creates that choose the same id the later overwrites the other's record; an update revives a deleted record |
| Simulator, `WalkSeesAll` | 2 engines, 3 requests, postgres; `Moves` without creates | the later of two such creates moves the record it overwrites behind the others, and a walk misses the one that takes its place though nothing was deleted or updated meanwhile |
| Simulator, `EveryMutationIsPublished` | sqlite | two requests fetch the same newest mutation of the log, and the other is never published |
| Simulator, `FeedKeepsNewest`, `StaleSaveIsRejected`, `MirrorCatchesUp` | memory, the last with every operation hooked | a full queue drops the newest event, not the oldest (`simulator/events.py:76`); a save from an old page is taken; webhook tasks overtake each other |

Noted while modelling, without a property: a failed run's checkpoint is not resumed, only
that of a run left at `running`; a resumed full sync becomes an incremental one; a bulk
export's job id is stored under a new run and never found again
(`ingestion/bulk_export.py:54`); accounts of one connector share its table, watermark and
lock; a retention of twelve hours is cut to 0 days; the first DELETE of housekeeping is
outside its `try` and stops it while a watermark names an expired run; a `resync` is always
skipped and reported completed; already parked rows are fetched again in each
cycle; the rows of a dependency circle are only counted as failed, though `ordering.py:74`
speaks of dead letters; a restore in the simulator's panel of a record that a request has
revived meanwhile changes nothing, but publishes the newest mutation, whoever made it, a
second time (`simulator/ui/router.py:571`, `simulator/store/memory.py:242`).


## 5. Proofs

TLAPS proves these for every value of the constants that satisfies the assumption of the
module they are about (`BreakerAssumption`, `IngestionAssumption`, ..., which the runs let
TLC evaluate for their instances), without the bounds of section 3: any number of
callers, instances, records, rows, edits, failures and crashes. They are all of the
properties of the passing runs that do not speak of liveness (`TwoTombstoneTheAbsent` is
an instance of `DeletionsVerified`). Below the table is, for each, the invariant that
carries it, and why the property does not carry itself.

| Theorem (module) | Property | Beyond the assumption of its module |
|---|---|---|
| `ClosedFresh` (`TransportProofs`) | `ClosedIsFresh` | - |
| `PauseServed` | `PauseIsServed` | - |
| `BadPollsTrip` | `SustainedFailureOpens` | - |
| `RateKept` | `RateIsKept` | - |
| `RotationComplete` | `RotationIsComplete` | `Flow # "pre"`: rotate-credential leaves pre-request tokens alone (section 4) |
| `NoWorkWhileStopped` (`DaemonProofs`) | `QuietWhileStopped` | - |
| `RowNeverBackwards`, `AckedCovered` | `NeverBackwards`, `AckedIsCovered` | one handler at a time (`OneAtATime`) and one route (`OneRoute`) for a record: nothing in the code serialises the reading of `last_seq` and its storing |
| `DeletionsVerified` (`IngestionProofs`) | `TombstonedWasAbsent` | `verify_deletion` is on |
| `PayloadsWhole` | `OnlyReturnsAreEmpty` | the same, and one instance without webhooks (`SoleWriter`) |
| `WatermarkCovered` | `WatermarkCovers` | `SoleWriter`; a cursor is followed, over a frozen listing sorted by it, and no record comes back with an old one (`FollowsCursor`) |
| `StartIsCovered` (`SyncRangeProofs`) | `PassedIsStored` | no windows, or no run cut short in one (`WholeWindows`) |
| `LwstateReal` (`WritebackProofs`) | `LwstateIsReal` | no look-up is answered with an error (`LookupsAnswer`) |
| `ConditionalWrites` | `NoBlindOverwrite` | updates of a target with ETags, one lookup, which does not fail (`Conditional`) |
| `WritesInOrder` | `NewerNotOverwritten` | `Conditional`, and the session of the advisory lock lasts (`LocksHold`) |
| `OrderTopological` | `OrderIsTopological` | one id is written at a time (`Width = 1`); no two groups of the batch share an id (`Separate`) |
| `TableIsQueue` (`ControlProofs`) | `QueueIsFollowed`, the refinement of `CommandQueue` | one daemon per tool (`OneOfEach`); a command names the tool that can do it, and is none of the two kinds that are never carried out (`EachToItsTool`) |
| `ParkedRowsReturn` | `ParkedHasLetter` | - |
| `EventsAreMutations` (`SimulatorProofs`) | `PublishedIsLog` | - |
| `WalksMissNothing` | `WalkSeesAll` | - |
| `SqliteIsAtomic` | `StoreIsAtomic`, the refinement of `RecordStore` | the store is sqlite (`AtomicStores \subseteq {"sqlite"}`) |
| `NoDatatypeTwice` (`DaemonProofs`) | `OneLoopPerDatatype` | no two files have the name of one connector (`Distinct`) |

The hypotheses are not there to get a proof through: without each of them the property is
false, by a counterexample of section 4 (but for `Incremental` in `FollowsCursor`, without
which no watermark is stored and there is nothing to say). What they say is a
configuration that the code offers, the parts of the runs among them, or, for `LocksHold`,
`WholeWindows`, `OneAtATime` and `OneOfEach`, something it relies on and does not ensure.
Besides these there are type correctness of `CircuitBreaker`, `Ingestion` and `Writeback`,
`TrippedCause`, `TimeoutBounded` and `BackoffMonotone` of the breaker, and what is left of
`OrderTopological` without its hypotheses: `CirclesRefused` holds of any width and batch,
`StartedInOrder` of any width, the default of 10 included.

* **Breaker.** The four state predicates are inductive only together (`BreakerInv`):
  that a failure which does not trip leaves a closed breaker below its threshold needs
  its freshness, that the back-off stays within its ceiling needs its type. Each method
  has a lemma (what it preserves), and each action cites the lemmas of the methods it
  calls. `PauseServed` and `BackoffMonotone` are action properties that follow: inside
  the pause reading the state changes nothing, a success closes and a failure only counts.
* **Polling loop.** That the breaker is not closed after so many bad polls says nothing of
  the awaits between the two records of a poll. `LoopInv` says that a closed breaker has
  on record at least the bad polls in a row, but for one that raised and is still to be
  reported, and that a poll to be reported as a success has ended the row.
* **Bucket.** `ideal` is an exact bucket. The invariant compares with it not the tokens but
  what a refill at this moment would leave at the full rate; the code may then refill as
  late and as slowly as answers and callers make it.
* **Tokens.** Outside the pre-request flow the cache holds no outdated token: a rotation
  empties it, and since a fetch blocks the event loop, what is stored in it afterwards was
  fetched after it. Requests in flight may still carry outdated tokens; a refusal of one
  empties the cache once more and fetches anew.
* **Gate.** `GateInv` adds that `desired` is `stopped` while the schema-manager is anywhere
  but `off` (`StopStands`), and that no loop holds the shared lock while it is
  `upgrading` (`BarrierHolds`): the first carries the claim past the unlock, where
  only the second look at `component_state` still keeps a loop out.
* **Webhooks.** The row alone is not inductive, because an event is compared with
  `last_seq`, which is committed before the row. `SequenceLeads`: the row is never ahead of
  the last sequence, and what is accepted is it. `NothingSwallowed`: until something
  fails, an event whose id is stored is in the row or at work.
* **Ingestion.** `TypeCorrect` needs that a page's duplicates are part of the page, or the
  count would go below zero. `DeletionInv`: an instance at `verifying` has confirmed only
  ids that were absent at some time in its own walk. `WholeInv`: only a tombstone empties a
  payload, and no page still to be committed lists the version it emptied, nor does the
  source have it, unless it came back. `CoversInv`: a
  run has stored the first records of the listing it froze, its new watermark is the
  cursor of one of these, and what changed since lies above; the lemma behind it is that
  a record with a smaller cursor comes no later (`RankMonotone`).
* **Listing ranges.** `Covered(x)` says that what lies up to `x` is stored. `RangeInv` says
  it of everything a listing may start after: the watermark, the new one, the checkpoint,
  the one a crash left, the cursor of the page; of the watermark of a window only once
  its last page is in.
* **Writeback.** `RealInv`: a written row's data is in its record's past, and nothing but a
  look-up that was not answered makes {} of a record that exists. `GuardedInv`: every
  ETag in a task or on the wire is that of a recorded state, and a request without one is
  for a record that is gone for good. `OrderInv` puts desired states, batches, tasks and
  late requests in the order in which the MDM asked; it needs `OneCycle`, that only the
  holder of the lock is in a cycle.
* **Write order.** Of the graph of a group (`GroupCircular`): the depth-first search finds
  something exactly if the rows refer to each other in a circle. What it has done with is
  closed under references and has no circle (`Settled`); from every id on its path
  references lead to those it has still to look at (`Leads`), so that an id it meets on
  its own path is on a circle. Of the sort (`Sorted`): after each round an id is in the
  output or in the queue exactly if all its references are in the output, so that ids
  left over would be a circle. The groups are
  then joined one by one (`Planning`), and `Underway` says of the dispatch that ids are
  begun in the order of the plan and, with `Width = 1`, each after the one before is
  through. Two groups that share an id share its place, hence `Separate`.
* **Control.** `TableInv`: what nobody has taken up has not taken effect. `PollersInv`: a
  poller holds commands of its own tool, each once, of which the first may be taken up
  and the others are pending. Each step of a poller is then a step of the queue or none.
  `LettersInv` adds to its property only types: a replay names letters that there are.
* **Files.** A connector whose name is known gets no second loops, so `FilesInv` says that
  no list of connectors has a name twice: not what was loaded, because no two files have
  one name (`DirectoryInv`), and not what is known, to which only names are added that
  were not; and that every loop is of a known name, with one revision of a datatype.
* **Simulator.** No request of the memory store is between two steps of a handler, and bus
  and log agree (`PublishedInv`). The proof failed for the stronger claim that the bus *is*
  the log, which two requests cannot refute and three do (the repeat noted at the end of
  section 4).
* **Stores.** `StoreInv`: a database has at most one row of an id, sqlite none that is
  deleted, and mutations and pending requests together are no more than the requests made,
  so that an id which no row has is always left. `WalkInv`: as long as the walk is calm, a
  record that was live when it began has been returned or is listed at or behind its
  offset; it is kept because what a create appends or a restore brings back only moves
  records away from the offset. `WalkSeesAll` once said too much: the proof failed at a create of postgres that
  overwrites a listed record, which takes three requests, one more than the run has; `Moves`
  now names it, and section 4 has the behaviour. Each step of sqlite is then a step of `RecordStore` or none; the witness for
  a create without an id is the one the store chooses.
* **Pages and filters.** Sequences that the code filters or sorts are `Ordered`'s `Picked`
  and `Ascending`, defined by counting positions; `NaturalFacts` proves what they return
  from the library's facts about finite sets, so that no induction over a sequence is
  needed.

* **Recursion.** A recursive function is a CHOOSE of one that satisfies its equation, and
  nothing follows from the equation until such a function is known to exist. The theorems
  of the library that say so take an operator and cannot be used. `NaturalFacts` therefore
  states induction of a set of numbers (`StepByStep`: a least number outside it would be
  in it) and from it builds a function one step further at a time (`StepsExist`). The
  rounds of the sort and the groups of the plan are such steps; the calls of the search
  become steps by a weight that goes down from call to call, of the ids not yet visited
  and those still to be looked at (`CallsWeigh`, `WalkExists`).

Model-checked only. Liveness of every kind: the prover handles neither fairness nor
ENABLED.


## 6. Not modelled

Payload contents (mapping, hashing, exclusions, quality rules as such), signatures,
metrics, logs and alerts: no property here tells them apart. Within the modelled
components:

* *Sync engine*: CDC, reconciliation, lists of ids, accounts, append-only history, a
  checkpoint that fails to be saved.
* *Requests and tokens*: link headers, streaming and GraphQL pages; API keys, JWT, SAML
  and Kerberos, which keep no state.
* *Writeback*: `archive` and `upsert`, post-write verification, the delete guard,
  `merge_fields`, bulk writes, delta views. The streaming loop
  (`writeback/daemon.py:279-322`) runs its cycles outside the gate, so
  `QuietWhileStopped` says nothing of it.
* *Webhooks*: several records at once and the log table. The runs take one handler and
  one route; the module takes several, for which `NeverBackwards` does not hold.
* *Subscriptions*: deregistration at drain; renewal, whose endpoint answers 200 to any id.
* *Gate*: the pool's `min_size` and reconnection. The default pool is 20.
* *Polling loops*: reingest signals, the SLA loop, the slot monitor.
* *Dead letters*: a registered policy that refuses a row.
* *Simulator*: the token endpoint, OpenAPI examples and HTML.

Components without a module (transformation, dry runs, schema management, federation,
event bus, secrets and plug-ins, observability, stubs) are pure functions, one-off scripts
or front ends that keep no state another component reads; `PROJECT.json` gives the
reason for each.


## 7. Plan

1. *Done*: breaker, loops, requests and tokens; sync engine, listing ranges; webhooks,
   subscriptions, reload, health, gate; writeback cycle, order, dead letters; control;
   housekeeping; simulator; two refinements; the theorems above.
2. *Proofs*: type correctness of the modules that have no such theorem, where it is more
   than bookkeeping (`ComponentGate`, whose free connections must not go below zero;
   `HttpClient`); `WatermarkCovers` for a listing that is walked by keyset and only grows.
3. *Models*: `archive` and `upsert`, post-write verification, a batch limit in
   `Writeback`; several accounts of one connector in `Ingestion`.

New questions extend existing runs where the state space allows; the five violation
runs stay as regression tests until the code changes.
