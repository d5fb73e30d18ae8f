# Formal models of the dexcost Python SDK

dexcost attributes the cost of AI work to tasks: an application records tasks,
events, outcomes and revenues, or lets the SDK capture them from the provider
libraries it wraps; the SDK keeps them in a local SQLite file, and a background
thread delivers them to a control plane. The repository holds four ports;
`VNEXT-ROADMAP.md` names the Python SDK (`python/src/dexcost`) the reference
implementation, and it is what is modelled here. Paths below are relative to
`src/python/src/dexcost/`.

The models are in TLA+. TLC checks each of them on small instances; theorems about
all nineteen components are proved for every value of the constants. `PROJECT.json` lists
components, runs, hazards, disagreements and theorems, and maps every definition to
the lines it models.

## 1. Inventory

| Component | State | Operations | Interacts with |
|---|---|---|---|
| Durable buffer, `storage/sqlite.py` | tables of tasks, events, outcomes, revenues, job revisions; `sync_status` and `sync_version` of each row | insert, update, query pending, mark, requeue, purge | every other part, one connection per thread |
| Schema, `storage/migrations.py` | tables, columns, version rows | create, migrate | the processes that open the file |
| Delivery cycle, `sync.py` `_sync_batch`, `_post_with_split` | locals of one cycle: page, noted versions, batch, recursion | recover quarantine, purge, scan and convert, gather, split, POST, acknowledge | buffer, control plane |
| Worker thread, `sync.py` `_run`, `start`, `stop`, `flush` | three events, two flags under a lock | one loop, calls of other threads | `__init__.py` (`init`, `flush`, `close`, `set_api_key`) |
| Automatic sessions, `session.py` | open sessions by execution | get or create, finalize idle | calling threads, the worker |
| Ledgers, `tracker.py`, `sqlite.py` | append-only revisions of outcomes and revenues | record, amend | other processes |
| Provider jobs, `provider_jobs.py` | append-only revisions of a long job | submit, reconcile, finalize | pollers, the task of the job |
| Task roll-up, `tracker.py` | the row of a task, its events | record, end, aggregate | pollers, purges |
| Identity, `idempotency.py`, `heuristics.py` | occurrences, a window of calls | deterministic ids, retry lineage | events table |
| Catalog, `catalog_releases.py`, `catalog_runtime.py` | releases, overlays, the snapshot in use | refresh, import, rotate key, close | server, other processes |
| Accountants, `network_accountant.py`, `gpu_accountant.py`, `nvml_reader.py` | byte counts, samples | record, sample, finalize | threads of a task |
| Call wrappers, `instruments/` | current task, owner of a capture, streams | call, stream, close, drop | provider SDKs |
| Patching, `instruments/`, `tracker.py` | originals, recorder | instrument, uninstrument | provider SDKs, trackers |
| Service facades, `instruments/` | bindings, records | call, look up, correct | metered services |
| Frameworks, `integrations/` | one execution, its streams | report, finalize | framework threads |
| HTTP adapter, `adapters/http.py`; observers, `service_usage_observers.py` | the mark of nested calls, ids seen | count, charge, observe | HTTP clients |
| Tools, `tool_tracking.py`, `tracker.py` | the current task of each context | begin, suspend, end | contexts |
| Usage and pricing, `pricing.py` and the usage functions | none, but running totals of streams | normalize, price | wrappers |

What is hard in this system:

* **Delivery.** The application rewrites rows while they are on their way; the process
  may die between the control plane's acceptance and the local mark; batches are cut
  recursively across five streams; some rows never convert.
* **Threads.** Callers and the worker share three events and two flags, and only part of
  their use is under the lock. The worker ends a session its execution is about to use.
* **Several processes on one file.** A check and its INSERT are two statements; a
  migration reads, then writes; a roll-up reads in four transactions and writes one row.
* **Endings.** A call, a stream, an execution or a generator can end in several ways, in
  any order, in another context, and must be told once.
* **Layers.** One exchange passes an instrument, a client and a pool, all of them wrapped, and the
  pool calls itself to try again.
* **Staleness.** A refresh verifies what it downloaded under a key and a release that are
  no longer current.
* **Arithmetic of counts.** A token may be in a total, beside it, or both.

## 2. Modules

### Delivery: Outbox, SyncDelivery, MCBatches

`Outbox` is the abstract buffer: a row is `absent`, `pending`, `synced`, `quarantined`
or `purged`, and becomes `synced` only if its present version is in `accepted`.
`SyncDelivery` has the rows of all streams (`Records`, numbered in the order their queries
return them; jobs after events, as a batch lists them) and the cycle of each worker:
`pc[w]` says where `_sync_batch` is, `cycle[w]` holds its locals. It implements
`Outbox` (`ImplementsOutbox`).

| Action | Code |
|---|---|
| `Insert`, `Update` | `storage/sqlite.py`: insert and update of a row: pending again, version + 1 |
| `RecoverQuarantined` | `sync.py:653` requeue once per worker |
| `PurgeIfDue` | `sync.py:699` delete synced events |
| `QueryPage`, `ConvertPage` | the scan loop `sync.py:502-542` |
| `Gather` | `sync.py:544-611` tasks, outcomes, revenues, jobs, each with its limit |
| `SplitBatch`, `QuarantineOversized` | `_post_with_split` above the payload limit |
| `Post`, `LeafAccepted`, `LeafNotAccepted` | `_post_raw` and the control plane |
| `Acknowledge` | `sync.py:872-918` one transaction per stream |
| `FinishCycle`, `StorageFails`, `Crash`, `Restart` | the ends of a cycle; a 401 is a `Crash`, `set_api_key` a `Restart` |

Content is `plain`, `bad` (does not convert), `big` (over the limit even alone) or
`final` (a finished task, which carries a business identity). The payload limit counts
records. The recursion of `_post_with_split` is a `stack` of batches; a batch is a set
cut in row order, which differs from the code's list only when a later page of a
scan holds an older event. `MCBatches` is `SyncDelivery` with one worker and
rows nobody rewrites, for what the cutting of a batch does.

### Worker: WorkerLifecycle

`thread[w]` is the place of worker `w` in `_run`, `caller[c]` that of an application
thread in `flush`, `close`, `init` or `set_api_key`. A statement on a shared Event or flag
is an action, a critical section of `_flush_lock` is one action. What a cycle does is
reduced to items that are `open` (in a session), `pending`, `delivered` or `aside`.
`asked`, `answer` and `resumed` are ghosts. The local database works in this module:
a session whose final state cannot be stored is the subject of `AutoSessions`. `init` is
ignored while a tracker is there; in the code the tracker goes a few statements
after the worker, in the model with it.

### Recording

| Module | State and actions | Code |
|---|---|---|
| `RevisionLedger` | the abstract append-only ledger: `height`, `body`; `Append` | what the revision tables promise |
| `BusinessLedgers` | `rows`, a `call` for each process; `RecordOutcome`, `RecordRevenue`, `AmendOutcome`, then `CheckInsert` and `InsertRevision`, conflicts, lock-outs, crashes. Implements `RevisionLedger` twice | `record_outcome`, `amend_outcome`, `record_revenue`; `insert_outcome`, `insert_revenue` |
| `ProviderJobs` | `job`, `sent`, `poll`; `Submit`, `Observe`, `ReadLatest`, `CheckRevision`, `InsertJobRevision`, `SendPage`. Implements `RevisionLedger` | `provider_jobs.py`, `insert_provider_job` |
| `TaskRollup` (on `ProviderJobs`) | the `stored` events, the task's `row`, a `rollup` for the owner and for each poller, in the steps of `_aggregate_costs` | `tracker.py`, `_finalize_attached_task` |
| `AutoSessions` | `inContext`, `managed`, `sessionRow`; look-up, insertion and registration are steps, the worker's finalization comes between | `session.py`, `context.py` |
| `SchemaMigrations` | the `schema` as a set of steps, version rows, an `opener` for each process; stale transactions, locks, deaths | `_init_schema`, `run_sqlite_migrations` |
| `EventIdentity` | a `plan` of operations run again under one key; `BeginOperation`, `AnswerArrives` (which measures a latency), `DetectRetry`, `StoreEvent` (the earlier events may be unreadable; a replay is absorbed or refused), `TellEngine` | `idempotency.py`, `heuristics.py`, `_stamp_retry_lineage` |
| `CatalogReleases` | slots, etag, releases, overlays; the refresh thread's `step` and what it has `held` since; imports, rotations, close, another process | `catalog_releases.py`, `catalog_runtime.py` |
| `NetworkTotals` | `table`, `rest`, `totals`; `RecordBytes`, `FinalizeTotals` | `network_accountant.py` |
| `GpuAccounting` | the samples taken and those the driver still has, what the sampler reads and stores, readings that fail or are lost, the last collection or a stop that times out | `gpu_accountant.py`, `nvml_reader.py` |

### Capture

| Module | State and actions | Code |
|---|---|---|
| `ProviderCalls` | a call and its stream: `Enter`, `Answer`, `ReturnStream`, `Raise`, `Exhaust`, `Break`, `Close`, `CloseRaises`, `Drop`. A wrapper is a record of what it catches and reports | the wrappers and streams of `instruments/`, `_capture.py`, `auto_task.py` |
| `Instrumentation` | methods, originals, recorder; an instrument is a record of how it saves, rolls back, restores and notices a reload | `instrument_*`, `uninstrument_*` |
| `ServiceCaptures` | a run bound to its task, a record with revisions, single events; a look-up and its INSERT are two steps | the facades of services that are no model providers |
| `FrameworkRuntime` | one execution, its streams, events claimed by listeners, a reported failure and its handler, the flush and the end | `integrations/_framework_runtime.py` |
| `HttpCapture` | a stack of calls for each thread, the mark that keeps inner layers quiet, what is left to record | `adapters/http.py` |
| `UsageObservers` | rules and an exchange; `KeepFacts`, then `ObserveKept` | `service_usage_observers.py` |
| `ToolCalls` | the current task of each context, the bodies that run in it | `tool_tracking.py`, `track_tool`, `track_task` |
| `UsagePricing` | pure operators: a report becomes buckets, buckets a charge; the meters of streams | `*_usage` functions, `pricing.py` |

Where wrappers follow one pattern (`ProviderCalls`, `Instrumentation`,
`ServiceCaptures`) the module has one control flow and a record of traits per wrapper or
group of wrappers; the traits were read from each file, and `map` names them one by one.
`UsagePricing` and `UsageObservers` compare the code's functions with reference
definitions (each token in one bucket; what was kept is judged like the whole
exchange) for every report and rule within the bounds.

### MCSyncDelivery, MCRecording, MCCapture

`MCSyncDelivery` adds the symmetry of workers. The components of the two other
modules share no variables, and each has a finite life. They are checked as a sum: a
behaviour picks one part in its first state and only that part moves, while the variables
of the others keep one value of their own initial condition. So the states add up and
do not multiply. Components that do share state are composed for real: `TaskRollup`
runs the pollers of `ProviderJobs`, in parts with the owner, a job, or both.

Where a part by itself would be too large, the module narrows it by a named
definition that says what is left: `Jobs`, `OwnerPart`, `JobPart`, `RacePart`, `Catalog`,
`Identity`, `Serving`, `Exchanging`. In the two rows of a race, for instance, revisions do not
also differ in time; an HTTP exchange that fails, or that its pool tries again, meets no second
thread. Every action of the components fires in these runs. Two alternatives that the code has never
apply: a caller that finds an ended session in its context never finds it managed
too (`LookInContext`), and no insertion of a service record skips a revision or, as a run is
started once, meets another binding (`Insert`).

## 3. Runs

All bounds are constants of the `.cfg` files, or of the actions' guards that name them.

| Run | Instance | Shows |
|---|---|---|
| `delivery` | 2 workers, 1 event, 1 task, each written again, payload of 1 record, failing storage, crashes | `SyncedIsAccepted`, `QuarantineIsDeserved`, `ImplementsOutbox` |
| `quarantine` | 2 events that may not convert, a corrected row, an upgraded SDK, fair | `PendingIsTransient`, `QuarantineIsRetried` |
| `threads` | 2 callers, 1 worker, 2 items, one of which does not convert, timeouts | `NoLostWakeUp` |
| `lone` | 1 caller, 2 workers, 2 keys, 2 items, no timeouts, fair | `FlushDelivers`, `OneThreadAlive`, `CallsReturn` |
| `recording` | `MCRecording`, ten components in fourteen parts | see below |
| `capture` | `MCCapture`, eight parts | see below |
| `reread`, `conversion`, `overlap`, `refused`, `resume`, `oldfile` | small | the six disagreements of section 6 |

`recording`:

* Ledgers: `LedgersAreTrue` (no gap, a stored answer is so, an amendment stands right behind what
  its author read, one currency) and `RevisionsAreLedgers`. Two processes, three
  revisions, one record of each kind.
* Jobs: `JobHistoryIsTrue` (each revision is news, terminal stays terminal, sent in causal
  order) and `JobIsALedger`. Two pollers with two attempts, three revisions, pages of one.
* Roll-up: `EventsAreCountedOnce` (in every part nothing is counted twice; while no job and no purge
  meddles, all is counted). One plain event and one of compute, of GPU time and of the network,
  which are priced in different places. `RowSaysWhatItsJobSaid`: two pollers with two attempts
  each observe three revisions, roll up at the same time and die anywhere.
* Catalog: `OverlayIsCurrent`, `StoreIsSound`, `ReleasesOnlyAdvance`. Two releases, two keys,
  one rotation, one import, one fault.
* Totals: `ReportIsTrue`, with four hosts above caps of three and two, one named like the
  overflow row.
* Sessions: `SessionsAreKept`, `SettlesOnAnOpenSession`. Two executions, three sessions, a
  refused write.
* Schema: `FilesAreWhatTheySay`. Files of versions 3 to 6 and new ones, two openers, two
  deaths, a lock.
* Identity: `OperationsKeepTheirIdentity`, `RetriesAreLinked`. Three operations, two at
  once, two runs, two latencies, queries that fail.
* GPU: `GpuTimeIsTrue`. Two processes, three ticks, a driver that may keep only the last sample,
  readings that fail or are lost, a stop that times out.
* Batches: `IdentityTravelsWithTask`, `NoNeedlessReplay`, `FinishedCycleSettlesItsBatch`,
  `PostedInOrder` (tasks before events, each stream in the order of its query). Two events, two
  finished tasks and a revenue; and two jobs with two outcomes. A payload holds one record.

`capture`: `CallIsToldOnce`, `CallStaysWithItsTask` (two calls, nested or overlapping, every
wrapper, one failed write); `ServicesChargeOnce` (two readers, meters corrected twice);
`ExecutionEndsAsItWent` (two streams, two listeners, two events, one reported failure);
`TokensAreChargedOnce` (every count 0 or 1, or left out); `SdkIsKept` (two trackers, two
methods, one reload, two failures); `ExchangesAreChargedOnce` (two threads,
two exchanges, three calls inside one another, of an instrument, clients and pools);
`ObservationsAreSound` (numbers 0 to 2, paths of depth two);
`ToolsKeepTheirTask` (two calls, two contexts).

Why the bounds suffice. A payload of one record forces every cut `_post_with_split`
can make, and two rows in a stream are what a cut needs; one rewrite during a cycle is
what an acknowledgement can confuse; two workers, callers, pollers or processes
are what a race needs, and a third revision shows what is built on a race; three nested calls
hold an instrument, a client and its pool, a client within a client, or a pool within a pool;
counts of 0 and 1 make each comparison of the usage functions go both ways. With `ScanLimit`
equal to `BatchSize` plus one, a scan has a second page. In the run `delivery` nothing fails to
convert, so that `QuarantineIsDeserved` is about rows too large alone there; that a row which was
corrected while it was converted is not set aside is proved (`QuarantinedAreUndeliverable`).

Every property has a mutant in `PROJECT.json`: a plausible slip in one definition (a
dropped guard, a swapped order, a missing reset) with which TLC finds the
property violated.

Symmetry is used where processes, callers or calls are alike, and only in runs
without liveness. `CHECK_DEADLOCK FALSE` is set where the system may stop: the lifecycle
runs, since nothing has to happen after the last `close`, and `recording`, `capture` and
`oldfile`, whose lives are finite.

Fairness. In `SyncDelivery` a worker keeps running while its process lives (weak
fairness of its steps); database, network and control plane work again and
again (strong fairness of the steps a failure preempts). A record the control plane
rejects for ever is outside the liveness claims, as is a process that dies for ever
(`Stable`). In `WorkerLifecycle` threads that can run do run; nothing is assumed of the
interval timer, which in backoff may last five minutes, so that only a wake-up
counts. `CallsReturn` speaks of behaviours in which no key is refused: a 401 that meets
a flush leaves it to its timeout (run `refused`). The other components have no
fairness: their code promises nothing about time.

## 4. Proofs

Checked for every value of the constants, from the named assumptions of each
module on its constants (finite sets, disjoint streams, natural bounds).

* `TypeCorrect`: `Spec => []TypeOK` of `SyncDelivery`.
* `AcknowledgedVersionsWereAccepted`: if no event fails to convert,
  `Spec => []SyncedIsAccepted`. The property is not inductive: an acknowledgement looks
  at versions noted earlier. `DeliveryInv` says what a worker knows meanwhile:
  the noted version of a record is the one whose content was read, and at most the present
  one (`SnapshotsAreNoted`); what is on the stack was cut from the batch
  (`LeavesCutFromBatch`); the leaf about to be acknowledged was accepted as read
  (`AckOnlyTaken`); a scan ends with its first page (`OnePageScan`). The last needs the
  condition: with a second page the property is false (run `reread`). `StepMonotone` says that
  versions and acceptances only grow, all a worker needs to know of the others.
* `DeliveryImplementsOutbox`: under the same condition. The invariant gives `Acknowledge`
  the guard of the abstract `Settle`.
* `QuarantinedAreUndeliverable`: unless one event may come to fail conversion and another time be
  too large. What a worker sets aside by the version it noted is undeliverable in that
  version, and content only ever changes with the version; an event that a second page
  re-read (`reread`) is the exception, so with both kinds of content TLC refutes it.
* `LeavesArePostedInOrder`, `IdentitiesTravelWithTasks` and `OtherStreamsSyncedAreAccepted`, with
  no condition; the order of a stream is that of its query. The leaves on a stack are ranges of
  one batch in row order; the one thing a page scan spoils is the noted version of an event.
* `FinishedCyclesSettle` and `NothingIsReplayedInVain`, for one worker: what left the stack
  is settled or on its way, what is left is still as it was read. A second worker on the file
  delivers rows the first has read.
* `LifecycleTypeCorrect` and `NoWakeUpIsLost` of `WorkerLifecycle`. The invariant: a flush past its
  request stays requested until it is answered, unless another flush cleared
  the answer and is about to ask again (`Requested`); a worker about to sleep has been woken
  since its answer (`AwakeOrWoken`).
* `LoneCallerHasOneWorker`: with one caller whose `close` waits for the thread. The thread alive is
  the one the global names, and a new one is made only when it is dead. Without the
  conditions it is false: a `join` that times out leaves a thread behind, and two calls of
  `set_api_key` may each make one.
* `LoneFlushDelivers`: with one caller whose `flush` waits for its answer, what it had recorded is
  delivered when an idle cycle answers. `FlushInv`: a request is of the flush that waits for
  it (`LoneRequest`); once a cycle has taken the request for the sessions nothing asked for
  is open, and once it finds nothing pending all of it is settled (`SettledWhenIdle`); a
  cycle that is idle with a batch was refused (`BatchesAreFull`). A flush that timed out, or
  another caller's, leaves an answer that the next flush takes for its own.
* `LedgersStayTrue` and `RevisionsImplementLedgers` of `BusinessLedgers`. `LedgerInv` adds to the
  property that the rows of a record are 1, 2, ... (`NoGaps`) and what a call between its check
  and its INSERT may rely on (`CallsOK`): what it checked is still there, as
  nothing is deleted, and the key it is about to take decides the race.
* `JobHistoryStaysTrue` and `JobImplementsLedger` of `ProviderJobs`. `JobInv`: the revisions have
  no gap, and a poller's base is a revision that exists (`PollsOK`), so that the revision
  it inserts was compared with the one right before it.
* `EventsStayCountedOnce` of `TaskRollup`, for any events and pollers. `RollupInv` stands on `JobInv` and
  adds: what a roll-up has counted has its price in the store, so that nobody prices it
  again (`Priced`); the owner's accountant emits in the owner's one roll-up (`MetersOK`); and
  while there is no job, what the owner has added up so far (`OwnersOK`).
* `RowsSayWhatTheirJobsSaid` of `TaskRollup`, for any pollers, attempts and revisions. `SayInv`: a call
  that rolls a task up has stored the terminal revision it ended with, and as nothing but
  terminal revisions follows one, what it counts is terminal and no older (`CallSaysTrue`); the
  owner rolls up no task that a job owns (`OwnerSaysTrue`).
* `SessionsStayKept` and `CallsSettleOnOpenSessions` of `AutoSessions`. `SessionsInv`: where a call
  between two steps stands (`BetweenSessions`), a session in a context or a manager has the
  owner it was made for (`OwnersKnown`), a row that is open is of a session that can
  still be ended (`OpenRowsAreOpen`).
* `FilesStayWhatTheySay` of `SchemaMigrations`. `SchemaInv`: an unseeded file is new, and what an
  opener believes of the file is still so (`OpenersKnow`): steps are never taken back.
* `CallsAreToldOnce` and `CallsStayWithTheirTask` of `ProviderCalls`, for any set of calls however
  they nest. `CallsInv`: the owner is the outermost call on the wire
  (`OwnerIsOutermost`), what a call keeps while it is open (`KeptOf`), and what is stored of
  it (`StoredOf`).
* `StoreStaysSound`, `OverlayStaysCurrent`, `ReleasesAdvance` and `CatalogTypeCorrect` of
  `CatalogReleases`. `CatalogInv`: the releases the slots and the mark name are kept
  (`StoreInv`); what the refresh thread has held since an earlier step fits that step
  (`HeldInv`); who knows the present generation has the present key (`UsersInv`).
* `ExecutionsEndAsTheyWent` of `FrameworkRuntime`. `RuntimeInv`: what has failed is
  latched or is of a stream still to be reported, and a verdict is what was latched when it was
  taken (`VerdictStands`); the roots are the open streams (`RootsAreOpenStreams`), each claim is
  held by one delivery (`ClaimsAreHeld`), and a flush that ended in time leaves nothing
  unhandled (`FlushedIsHandled`).
* `ServicesAreChargedOnce` of `ServiceCaptures`. `ServicesInv`: a reader between look-up and
  INSERT knows a height the record has reached (`ReadingOf`).
* `SdkStaysKept` of `Instrumentation`, over the traits the twelve instruments share.
  `InstrumentInv`: a step under way has work left (`WorkIsUnderWay`), a wrapped method has its
  original (`WrappersHaveOriginals`), one tracker has the instrument (`OneHasTheInstrument`).
* `OperationsStayThemselves` of `EventIdentity`. `IdentityInv`: operations have begun in the order of
  the plan (`BegunInOrder`), and each stored event has the facts of its operation
  (`LogIsOfThePlan`), so that a replay meets its own earlier run: it is absorbed, or refused
  because it took another time.
* `ExchangesStayChargedOnce` of `HttpCapture`. `HttpInv` describes the stack of each thread
  (`StackOK`) and its work (`WorkOK`): between the layers of an exchange and the work they have
  queued, one account is left to make (`OneCounts`, `StillCounted`, `AccountsOK`), unless the exchange is
  exposed; the ids of the records of providers are spent once whatever the layers
  do (`RecordIsChargedOnce`).
* `ToolsStayWithTheirTask` of `ToolCalls`, for any calls and contexts. `ToolsInv`: the open calls of
  a context nobody has left out of order are a stack, each found the task of the one beneath
  and the lowest what the first of all found (`ContextOK`); a running body runs once, in one
  context (`FramesOK`); what begin keeps of a call (`KeptOK`) and what is stored of it
  (`ToolStored`) agree. The proof showed that the `CASE` of `ToolIsRecordedAsItEnded` had
  overlapping arms, which TLC reads in order and the logic does not.

* `RetriesStayLinked` of `EventIdentity`, for any plan, runs, processes and window. `LinkInv`: an id
  is that of one event and every link leads to a stored one (`LogIsLinked`); no call that waits
  to be stored has the time of another one or of an event (`TimesAreApart`), so that the
  event before it in the log is before it in time; a call found by the engine to be a retry
  follows a failure of its model within the window (`CallsAreLinked`); an attempt whose source could
  not be read is the second of that source; the engine remembers
  stored events only (`EngineKnows`).
* `ReportsAreTrue` of `NetworkTotals`, for any hosts and caps. `TotalsInv`: while the accountant
  counts, the rows of the hosts and the shared row add up to the totals in each column
  (`RowsAddUp`), and a row that counts no call is empty (`IsRow`), so that nothing is lost with
  a shared row that the report leaves out.
* `GpuTimesAreTrue` of `GpuAccounting`, for any processes and any length of the task, whatever
  samples the driver drops, readings fail or are lost and a timeout cuts off. `GpuInv`: the
  readings come between the start of the task and its end (`ReadingsAreTimely`); what a reading
  found is collected, about to be, or lost (`ReadingsAreKept`); as long as no process has ended and the
  baseline was read (`Steady`), a process has run for every tick since its first and the driver has its
  latest sample (`Unbroken`), the last reading saw it (`Caught`), and what is collected of it is in
  the order of time, each sample once (`Gathered`). The intervals between collected samples add up
  to the last of them, so that a sample missing in between takes nothing away.
* `EachTokenIsChargedOnce` of `UsagePricing`, for any number of tokens. `MeterFollows`: the meter of a
  Messages stream shows what the provider has counted so far, that of a Bedrock stream
  once its totals have come. What a single answer says is split and priced by lemmas about
  the operators, one for each usage function.
* `ObservationsStaySound` of `UsageObservers`, for any numbers and paths of any depth. `ObserversInv`: an
  exchange is of its rules (`ExchangeIsRuled`), what is kept is `Keep` of it and what is observed is
  `Observe` of what is kept. The lemmas show that the places a rule reads are kept, that a value
  which can not be read takes a charge away whole, and that an endpoint which
  matches a path also owns it.
* Type correctness, the invariants that the two sums check as `RecordingTypeOK` and `CaptureTypeOK`:
  `JobTypeCorrect`, `RollupTypeCorrect` (`CountsAreBounded`: a byte count is of network calls that were
  made), `SessionsTypeCorrect`, `CatalogTypeCorrect`, `CallsTypeCorrect`, `ExecutionsTypeCorrect`,
  `ServicesTypeCorrect` (`RecordIsBounded`) and `HttpTypeCorrect`; that of the ledgers is part of
  `LedgerInv`.

Each action has a lemma for each part of the invariant it can disturb.

The proofs are in `SyncDeliveryProofs`, `WorkerLifecycleProofs`, `LedgersProofs` (ledgers, jobs,
roll-up), `ContextProofs` (sessions, tools), `StoreProofs` (catalog, schema), `EventProofs`
(identity, retries, HTTP), `CaptureProofs` (calls, frameworks, services, patching) and
`AccountingProofs` (network, GPU, tokens, observers). The constants are
assumed to be what their comments say, finite or natural where a set is counted. Beyond that, a
network event is no plain, compute or GPU event (`RollupAssumption`; each has its own
`event_type`), and no thread, call or owner has one of the names that stand for "nobody" or
for recorded work. `UsagePricing` assumes nothing.

Sums over sets. `SumFunctionOnSet` of the community modules folds a set in the order in which
`CHOOSE` takes its elements. `AccountingProofs` begins with what that leaves open: the sum does not
depend on the order, it grows by an element's value with the element, it splits
over disjoint sets, and it follows a renaming. The induction is over a set of natural numbers,
from the well-foundedness of their order. The rest of `AccountingProofs` uses these
facts by name.

The properties of `MCBatches` have the names of those of `SyncDelivery`, which they are at its
rows and with its one worker; the theorems are about every instance.
`RecordingTypeOK` and `CaptureTypeOK` name the conjunctions of what the type
theorems prove one by one.

Only model-checked: `PendingIsTransient`, `QuarantineIsRetried` and `CallsReturn`, as liveness under
fairness is beyond the prover; and the six disagreements of section 6, which are
counterexamples.

## 5. What the properties except

The code does the following; the properties are stated around it, and nothing in the
repository says otherwise unless noted.

* A crash after a terminal revision of a job is stored and before its task is finalized leaves
  the task open: a later poll returns early (`provider_jobs.py:311`).
* Whoever rolls a task up writes its whole row, from a Task object read earlier
  (`provider_jobs.py:177`). Of two pollers the slower one may write an older revision last, and the
  status of the earlier one beside the cost of the later; of a task its owner holds in memory a
  poller writes the network totals, which live there, as zero, and when it has read the row
  before the owner ended the task, the status as pending again. `RowSaysWhatItsJobSaid` states
  what is left: the row is out of date, and never says what no stored revision said.
* A purge of synced events before their task is aggregated again takes their amounts out of
  its totals (`sync.py:706`).
* The recovery of quarantined rows is noted before it is done: when the database refuses it,
  the rows wait for the next process (`sync.py:662`).
* A process that no longer reports holds NVML's common timestamp back, and samples of the
  others are collected again (`nvml_reader.py:260`). `GpuTimeIsTrue` charges steady
  processes only.
* When the baseline reading of the driver fails, the device looks unused, and the first interval of
  a process is taken from the length of the task (`gpu_accountant.py:333-356`): it may begin before
  the task. Samples in a reading whose memory query raises are lost, as their times are noted
  already (`gpu_accountant.py:180-189`, `nvml_reader.py:276-280`); a process is charged them with the
  interval up to its next sample, and not at all if none follows.
* A replay under a key is compared with what is stored in all but its time of occurrence: one that
  measured another latency is refused with a `ValueError`, and the first run's event stays
  (`idempotency.py:153-161`, `storage/sqlite.py:648-649`).
* Where the earlier events of a task cannot be read, a retry is numbered as the second attempt of
  its source, whatever number that has (`tracker.py:314-320`).
* Outcomes and revenues are read for delivery in the order of `observed_at`
  (`storage/sqlite.py:1016`, `:1153`), which a caller may supply. `PostedInOrder` speaks of the order of
  the query; an amendment dated before its base is delivered before it.
* A failure that CrewAI reports is handled on its executor, maybe only while the bus is
  flushed. By then the verdict is taken (`integrations/_framework_runtime.py:174`, `:186`), and
  `mark_failed` (`:153-157`) sets a flag nobody reads: the task ends as a success, against its
  docstring ("Latch a framework-native failure even when its API does not raise").
  `ExecutionEndsAsItWent` counts failures heard before the verdict.
* Wrappers that catch `Exception` never see a cancellation and record nothing
  (`instruments/_errors.py:127`); `CallIsToldOnce` speaks of the endings a wrapper is told of.
  Some streams do not notice that they are dropped.
* Bedrock's stream adds up the counts of its chunks where the others replace them; the
  meters are modelled as they are.
* Six instruments leave the first patches in place when a later one fails and do not come back
  from it; `SdkIsLeftAsFound` speaks of those that roll back. In `ollama.py`,
  `openrouter.py`, `perplexity.py` and `fal.py` a wrapper looks its original up when it is called:
  one that was fetched before a removal and called after it raises `KeyError`.
* A client that calls a client clears the flag of the outer call, so that the rest of the outer
  exchange is counted by the pool and by the client (`adapters/http.py:357`). And the wrapper of
  urllib3 sets no mark (`:519-557`): where urllib3 is called directly and its pool calls itself, to try
  again or to follow a redirect, each level counts and charges the response, unless it
  has the id of a provider's record. `ExchangeCountsOnce` excepts both (`exposed`).
* The id of an event of the adapter is remembered before its INSERT, so that a refused one is
  not tried again.
* Two generator tools suspended in one context reset the current task out of order
  (`tool_tracking.py:82`, against `tracker.py:1632-1636`); `ToolsKeepTheirTask` excepts
  contexts whose calls ended out of order.
* A cycle that sent something starts the next without answering a flush (`sync.py:402`).
* Two calls of `set_api_key` at once may start two workers; no run claims anything of them.

## 6. Where code and text disagree

Each is a run with a counterexample, described in `PROJECT.json` under `findings`.

* `reread`: `sync.py:512` replaces a noted version when a later page of the scan
  reads an event again; the update is acknowledged without having been sent.
* `conversion`: `sync.py:430-433` answers a flush before its sessions are
  finalized, which `sync.py:410-412` guards against on the other path.
* `overlap`: `sync.py:270` clears `_flush_done` before the request is made and outside
  the lock; a late answer to an earlier flush ends the next one.
* `refused`: a 401 that meets a flush ends the thread without an answer.
* `resume`: `set_api_key` trusts a thread that is about to end.
* `oldfile`: `storage/sqlite.py:282` creates an index on a column that a file of version 1 or 2
  gets from the migration only, which runs later: the file cannot be opened.

## 7. Not modelled

* `purge_old_pending` (an explicit destructive maintenance call); `os.fork` as such (its
  effect, two workers on one file, is in the run `delivery`); health counters and log
  throttling; interval and backoff as numbers; what a row contains.
* Attribution conversion and validation, configuration, redaction, webhooks, command line, dev
  console, scanner, cloud detection: stateless formatting, input checks or pure I/O.
* The parsing of provider responses, media and tool line items, realtime sockets and
  batch pollers, `media_operations.py`, langchain's callback handler, trace exporters.
* The arithmetic of signatures; the look-up in `service_catalog.py`; the background refresh of the
  price cache; the GPU, compute and egress tables; SKU and vGPU resolution, CPU and
  memory readers.
* The ports to TypeScript, Go and Rust, which follow the Python SDK.

## 8. What is left

`AutoSessions` composed with `WorkerLifecycle`, so that a forced finalization meets a refused
write; the refresh thread of the price cache; langchain's handler.
