# UBR Open NMS: verification development

TLA+ models of the parts of UBR Open NMS (a carrier network management system:
about thirty services in Java, Go, Python and JavaScript around MongoDB and
Kafka) whose correctness depends on the order in which things happen. This
file says what the system consists of, which module models what, what each
run of TLC checks and what TLAPS proves.

## 1. The system

### 1.1 Parts, their state and what makes them correct

| Component | State it keeps | Operations | Correct when |
|---|---|---|---|
| Operation guard (`config-service`, `OperationGuard.java`) | map device -> in-flight marker, in memory, with a TTL | `acquire`, `release`, `getCurrent` | exclusive operations of a device do not overlap within the TTL; nobody is blocked by a stale marker; only the owner frees a live one |
| Preview store (`PreviewStoreService`) | map preview id -> preview and time, in memory | `store`, `find`, `isExpired`, `invalidate`, scheduled cleanup | previews leave memory; a consumed one is gone |
| Confirmation gate (`ConfigService.confirmExecution`, `executeConfirmedJob`) | job documents (MongoDB) | confirm, execute | a retry gets the job it already produced; no replay; an accepted job can be executed |
| Pending commands (`queueCommand`, `DeliveryRouter`, `expireStaleCommands`, worker drain) | command documents (MongoDB) | queue, sweep, drain | in order, at most once unless a crash lost the record, status tells what happened |
| Job delivery (`bulkPush`, `DeliveryRouter.executeJob`, worker) | job document, Kafka topic, consumer offset | route, save, consume, push, record | counts match what was handed out; every message is handled; one way per target |
| Rollback (`RollbackService`) | rollback jobs, guard marker | initiate | restores the newest good version before the failed one, under the guard |
| Version history (`recordVersion*`) | version documents | record applied / failed | numbers unique per device, one record per idempotency key |
| Target resolution (`TargetResolverService`) | none (fills the preview store) | resolve | classification |
| Alarm service | alarm documents; several consumer threads | raise, deduplicate, clear, acknowledge, escalate | one active alarm per condition, no lost clear or count |
| Discovery service (largest, Go) | runs, schedules, presence, check-ins, device registry | runs and rediscovery, presence, check-in with HMAC, registration | no overlapping runs of a scope, presence follows check-ins, no replayed check-in |
| Product definition service | versions, active version, idempotency records | upload, validate, activate, roll back | one active version per product, idempotent requests |
| Diagnostics and firmware | firmware jobs | start, queue, complete | one job per device, every job ends |
| Auth service | users, sessions | login, refresh, lockout | sessions end, lockout holds |
| Northbound forwarders (netcool, mycom, syslog) | offsets, retry state | forward, retry, dead-letter | nothing is lost between retry and dead letter |
| Inventory, MobiNet sync | devices, assignments | upsert, merge, gate | merges commute, gated devices get no configuration |
| Descriptor lifecycle (`api-gateway`, `descriptors.routes.js`) | descriptor documents; per product: active pointer, parameter and fingerprint entries, definition record | upload, validate, approve, delete, activate, deprecate, retire, purge | only what a second person approved goes live; one version is active; a purge leaves nothing behind |
| Live polling (`api-gateway`, `liveParameters.js`, `snmpGate.js`, `nodeView.routes.js`) | stored values of a device; in memory: walks in flight, queue per agent, probe results, failure counts | poll cycle, read, apply, probe, provision, deprovision | agents are talked to one at a time; stored values follow the unit and never go back |
| Node View wireframes (`api-gateway`, `nodeViewWireframe.model.js`, `frameworkProductDefinitions.js`, `uiBuilder.routes.js`) | registry of versions, layouts in MongoDB, cache in Redis | upload, stage, activate, publish, migrate, retire, purge, get, resolve | a page shows the layout of the active version; one layout is active; the cache agrees |
| Device provisioning (`api-gateway`, `provision.stub.js`) | device records | provision the hosts of a request, remove | a unit has one record and nobody else's |
| Discovery runs and the rest of the gateway | runs in memory; proxies, roles, CRUD | see `src/services/api-gateway/src/routes` | not modelled |
| Parameter poller, KPI pipeline, event collector, streams, notification, audit, topology, health monitor, credential vault, device lifecycle, reports | various | see their directories under `src/services` | not modelled |
| Front end, charts, scripts, schemas, test harness | | | not modelled |

`PROJECT.json` lists the same components with their sources and status.

### 1.2 Interaction in the configuration plane

An operator previews targets (`TargetResolverService` fills the preview
store), confirms (`confirmExecution` turns a preview into an ACCEPTED job) and
the job is executed (`DeliveryRouter.executeJob`). Besides there are single
and bulk pushes and rollbacks, all three of which lock the device with the
operation guard. A target that can be reached gets a Kafka message on the
config-push topic, any other a pending command in MongoDB. The
`config-push-worker`, one process with one consumer of two topics, pushes to
the device and writes the result into the job document; when a device checks
in it drains the device's pending commands. `config-service` and the worker
share only Kafka and the documents, and both write the same documents.

What is hard there: threads between the two map accesses of `acquire`; a TTL
that lapses under a running operation; four unlocked steps of a confirmation;
two processes that write the same documents, one of them whole documents it
read earlier; at-least-once delivery with effects before the commit;
exceptions that are logged and skipped; restarts that lose in-memory state.
The list is in `PROJECT.json` under `hazards`, each at its line.

### 1.3 Interaction in the gateway

The API gateway is one Node.js process. Its handlers never run at the same
time, but each of them gives way at every `await`, and its state is spread over
MongoDB collections without transactions, a Redis cache and maps in memory. A
product definition gets into the registry either as a descriptor, which is
uploaded, validated, approved by a second person and activated
(`descriptors.routes.js`), or as a native upload with stage and activate
(`frameworkProductDefinitions.js`). Activation rebuilds the layout of the Node
View; the MIB builder may publish another one (`uiBuilder.routes.js`).
`provision.stub.js` puts discovered hosts into the inventory and drops stale
live values; the scheduler of `liveParameters.js` then polls every device
through the gate of its agent, with the definition that is active, and Node View
pages read, probe and change the same devices.

What is hard here: a document read before an `await` and saved whole after it,
with no version key; several collections written one call after the other by
handlers that overlap or die half way; registry entries that belong to a
product and are written on behalf of one of its versions; a cache filled with
what was read before it was invalidated; a walk that is joined by somebody who
knows a newer address; hosts of one request that look for each other before any
of them is written.

## 2. Modules

| Module | Models | Extends |
|---|---|---|
| `DeviceLock` | abstract: at most one owner per device; taken only when free; given up or forgotten | - |
| `OperationGuard` | `OperationGuard.java` and the locking of `pushConfig`, `bulkPush`, `initiateRollback` | - ; refines `DeviceLock` |
| `OperationGuard_proofs` | its theorems | `OperationGuard`, `TLAPS` |
| `ConfirmationGate` | preview store, `confirmExecution`, `executeConfirmedJob` | - |
| `ConfirmationGate_proofs` | its theorems | `ConfirmationGate`, `TLAPS` |
| `AtLeastOnce` | abstract: a log handed out in order, one message at a time; offsets committed only for what was handed out; crashes go back to the committed one | - |
| `PushConsumer` | the consumer loop of the worker: receive, commit, commit after a message of the other topic, swallowed exception, crash | - ; refines `AtLeastOnce` |
| `CommandQueue` | pending commands: queueing, sweep, drain | `PushConsumer` |
| `JobDelivery` | routing of one job, final save, push messages, both protocol paths | `PushConsumer` |
| `PushWorker_proofs` | theorems of the three models of the worker | `CommandQueue`, `JobDelivery`, `FiniteSetTheorems`, `TLAPS` |
| `VersionHistory` | `recordVersion*`, the reads of a rollback, and the guard around them | instantiates `DeviceLock` for the guard, and uses it as `DeviceLock` promises |
| `VersionHistory_proofs` | its theorems | `VersionHistory`, `FiniteSetTheorems`, `TLAPS` |
| `DescriptorLifecycle` | the life of the versions of a product, and the registry they share | - |
| `DescriptorLifecycle_proofs` | its theorems | `DescriptorLifecycle`, `TLAPS` |
| `AgentQueue` | abstract: a queue per agent; join at the end, leave when served | - |
| `SnmpGate` | the chain of promises in front of each SNMP agent | - ; refines `AgentQueue` |
| `LivePolling` | walks, poll cycle, reading, applying, probing, provisioning and deprovisioning of one device | `SnmpGate` |
| `LivePolling_proofs` | theorems of both | `LivePolling`, `TLAPS` |
| `Wireframes` | layouts of one definition: six writers, two readers, registry, cache | - |
| `Wireframes_proofs` | its theorems | `Wireframes`, `TLAPS` |
| `Provisioning` | `provisionOne` for the hosts of several requests, and removal | - |
| `Provisioning_proofs` | its theorems | `Provisioning`, `TLAPS` |
| `MC*` | instances for TLC (values that a `.cfg` cannot write, symmetry sets) | one each |

### 2.1 Correspondence

*OperationGuard.* `marker` is the `ConcurrentHashMap`; `Reconcile` and
`Compute` are its two atomic accesses in `acquire` (`computeIfPresent`, then
`compute`), so that any thread may run between them. `call[j]` is the program
counter of the thread of operation `j`, whose name is the job id of its
marker. `OwnKey` is the comparison of idempotency keys at the end of
`acquire`. `Release` is the `finally` block of the pushes and the `catch`
block of a rollback; `AcceptRollback` the return that has neither. `Restart`
empties the map and kills the threads. One reading of the clock per map
access is taken; the two readings inside one `InFlightMarker` construction are
the same tick. The kind `diagnostic` is the guard's read-only client of
`OperationGuardTest`; in the main code only the first three kinds occur.

*ConfirmationGate.* `store` is the in-memory cache, `jobs[r]` the document
that request `r` saved (a job is named after its request), `req[r].at` the
next step of the thread: `CheckIdempotency` (steps 1 and 2 of the code),
`CheckPreview` (3 and 4, which also removes a stale entry as `find` does),
`SaveJob` and `Invalidate` (5). `Restart` loses the cache and the threads and
keeps the documents. `spent` and `known` record facts of the moment a request
arrived; nothing in the model reads them.

*PushConsumer.* `main.py` has one consumer for two topics and handles one message
at a time. `CommandQueue` sees the topic of check-ins, `JobDelivery` the one of
push messages, and each extends this module with what its handler does: `topic`,
`pos` and `committed` are the log, the position and the committed offset,
`worker` is the handler's own. `commit()` takes no argument and commits the
positions of both topics, so after a message of the OTHER topic it commits what
an exception made this one skip (`CommitElsewhere`; `CommitPushMessage` and
`CommitCheckIn` in the two modules). A crash goes back to the committed offset
(`Die`), a swallowed exception does not (`CallFails`).

*CommandQueue.* `cmds[c]` is the document; `sweep` holds the documents
`expireStaleCommands` has read and not saved yet; `worker` the coroutine in
`drain_pending_commands`, with the cursor's remainder in `rest`. Each `await`
that touches shared state is a step of its own. `Abort` and `DateError` are
exceptions that leave the handler. `pushes` and `cuts` are
history: successful pushes, and those whose result was lost. `PushUnreported`
is a push that succeeded while recording it on the job raised, which the
worker takes for a failure. `tzAware` is a deployment option (it decides
whether the date comparison of the drain raises), fixed in the initial state:
every run covers both values.

*JobDelivery.* One job with distinct targets. `doc` is the job in MongoDB,
`mem` the copy of the routing thread; `kind`, `lossy` (may sends fail) and
`total` are fixed in the initial state. `total` is `totalDevices`: of a bulk job
the length of its list, of a confirmed one everything the preview found, the
unsupported devices included, which are no targets (`Totals`). `Route` is one
turn of the loop of `bulkPush` or `executeJob`, `FinishRouting` the final save
of `mem` over `doc`. A send is asynchronous: `Route` puts the message into the
buffer of the producer (`inFlight`) or meets a producer that throws, and the
target is PUBLISHED from then on; `Deliver` appends the message to the log at
any later time and in any order, `SendFails` drops it, and a crash of the
service (`RouterDies`) drops all of them. `lost` is history. The worker tries
one protocol (bulk) or two (routed) and writes one field of `doc`. `UpdateFails` is `_update_job` raising inside the `try` of the
push, `PushRaises` an exception that reaches the loop. Its definitions have names
of their own (`JobInit`, `JobSpec`, `BeginPush`, ...), because the proofs use it
together with `CommandQueue`.

*VersionHistory.* The documents of one device; a document is named after the
thread that saved it, because each thread saves at most one. `CountFor*` and
`SaveFor*` are the two calls of the repository with everything that may
happen between them. Threads of `pushConfig` (`StartPush` to `EndPush`) and
`initiateRollback` share the guard, which is here the abstract lock of
`DeviceLock`: what `OperationGuard` is proved to implement is all that is
assumed of it. It may be lost at any time (`LoseGuard`, the TTL), so the
promises are made to threads that are not in `overtaken`. The callbacks
(`recordVersionForDevice`, `recordFailureEvidenceForDevice`) take no guard;
nothing in the main code calls them yet, and they are modelled as their
comments say they are used, by concurrent reports of job results.
`CheckCallback` ends in `error` when the finder of one record meets two. A
push without a version is one that ends before it counts (device offline,
exception). What the code calls the failed version of a rollback is any
eligible one, which is one that was applied (see the disagreements below). The
field `racing` is history: the writers that had counted, and not saved, when
the rollback chose what to restore.

*DescriptorLifecycle.* A handler is `Begin...` (it has read its document and
passed its checks) and then one action per database call; `at[r]` is the call
it makes next, `on[r]` and `by[r]` its document and user, `rest[r]` the result
of the query for other Active versions. `state` and the four people are the
fields the handlers save; because they hold the whole document they read and
save only the fields they changed, an action writes just those. `pointer`,
`params`, `prints` and `record` are the entries of the product in the four
registry collections, each told apart by the version it was written for.
`Upload` is one step: everything a refused upload does leaves no trace. `Fail`
is a call that throws, or the gateway stopping. The number of devices still
bound to a product is a free choice. A refused `Begin` (wrong state, same
person) is an early return and no step.

*SnmpGate and LivePolling.* An operation of the gate is a promise chained to
the one before it; `prev[o]` is the promise it waits for, `tails[a]` the entry
of `snmpGate.js`, `ahead` history. An operation begins, and its timeouts with it,
when its turn comes (`MayEnd`). `Settle` runs the whole `finally`/`then`
chain, because callbacks of a settled promise run before anything else. A walk
(`Poll`) is an execution of `doRefresh`, from `Start` to `EndPoll`; a thread is
a cycle of the scheduler or a request, with the record it has read in `dev[t]`.
`inflight` is the map entry that `refreshDevice` joins whatever address the
caller knows. `doc` is the document of `device_parameter_values`: its status,
the address it was polled at and, for the values, the number of the setting
they show. `heard` is what a probe said and what `syncWithProbe` has read since.
A device that was provisioned without a credential is `record.community` FALSE;
an `ERROR` is folded into `UNREACHABLE`, and the several roots of a walk into
one operation. Whether `FirstRead` happens is a free choice (it depends on a
definition found earlier). `Apply` has the three outcomes of a SET: applied and
refreshed, refused, and applied with the reply lost, which the caller takes for
an error, without a refresh. `quiet` is history: nothing was at work when the
device was last provisioned.

*Wireframes.* `origin` says how the versions of the definition get into the
registry and is fixed in the initial state. `wire[i]` is the record of version
id `i`, `print` its fingerprint; content is told apart by the version it was
built from. `LoadPointer` and `LoadEntries` are the two reads of
`loadDefinition`. `ReadLayout` is a `findOne` without a sort, hence any ACTIVE
record; `PutAnywhere` is a native activation, whose filter matches any record of
the definition and whose update sets the version id. A uniqueness violation
there throws. `CallFails` and `Stop` are a call that throws and a stop of the
process; Redis errors are swallowed where the code swallows them. Uploads
proxied to the Java service never call `next`, so the code behind them
(`buildWireframeAfterUpload`, `persistWireframe`) is not reached and not
modelled. A deletion of all entries followed by `insertMany` of the new ones is
two steps; every version is taken to define parameters.

*Provisioning.* `at[t]` is the next database call of one `provisionOne`:
`ReadPrior` (facts of an earlier record at the address), `FindUnit`,
`FindHolder`, `FindClash`, `FindAtAddress`, the two `deleteMany` and the
`replaceOne`. A key is the label that was entered or, after a clash, the label
with the serial number appended (`Rekey`). A unit is told by the serial number
it reports. `overlapped` is history.

## 3. Runs

| Run | Instance | Shows |
|---|---|---|
| `guard` | 2 devices, 3 operations, TTL 1, clock to 2 | `TypeOK`, `ExclusiveWithinTtl`, `BlockedOnlyByLive`, `LiveMarkerOnlyFreedByOwner`, `ImplementsDeviceLock` |
| `gate` | 2 previews, 2 requests, 1 execution, 1 key or none, 2 counts, 2 roles, TTL 1, clock to 2 | `TypeOK`, `RetryGetsTheSameJob`, `NoReplayAfterAccept`, `PreviewsLeaveMemory` |
| `queue` | 1 device, 2 commands, 2 check-ins, 1 crash, 1 failing call, TTL 1, clock to 3 | `TypeOK`, `FifoPerDevice`, `StatusIsHonest`, `CheckInServed`, `CheckInsAreCommitted`, `CommandsSettle` |
| `delivery` | 2 targets, at most 1 unsupported device, 2 crashes, 1 failing call | `RoutedCountsMatch`, `PushesNeedDeliveries`, `ImplementsConsumer`, `SentIsCommitted` |
| `history` | 2 pushes, 2 callbacks, 1 rollback, 1 key | `TypeOK`, `PushNumbersDiffer`, `NoPushDuringRollback`, `RestoresWhatWasGood` |
| `lifecycle` | 2 versions, 2 people, 2 handlers, 1 failure, 3 overlaps | `TypeOK`, `OnlyReviewedGoesLive`, `OneActiveVersion`, `DeprecatedPointerIsHonest`, `PurgedLeavesNothing` |
| `polling` | 2 addresses, 2 walks, 1 cycle, 2 handlers, 3 requests, 1 change of settings, 1 restart | `InTurn`, `ShowsOwnAddress`, `ImplementsQueue`, `ValuesNeverGoBack` |
| `polling_heals` | 2 addresses, 1 walk, 1 cycle, 1 handler, 2 requests, 1 move, 1 loss, 1 change of settings, 1 restart | `Converges` |
| `wireframes` | 2 versions and a publication, 2 handlers, 1 overlap, 1 failure | `TypeOK`, `ServesItsLayout`, `OneActiveLayout`, `CacheIsActive` |
| `provisioning` | 2 units, 1 label (and what it becomes), 2 addresses, 2 names, 2 threads, 3 calls | `TypeOK`, `OneRecordPerUnit`, `NoUnitIsOverwritten` |
| `wireframes_upload` (violation) | as `wireframes`, one handler | `ActiveStaysLoadable`: an upload removes the entries of the active version |
| `provisioning_overwrite` (violation) | as `provisioning`, 2 calls | `NeverOverwritten`: a host of a request replaces the record of another |

The types of `JobDelivery` and `LivePolling` (`JobTypeOK`, `TypeOK`) are not among
the properties of these runs: they are theorems (`JobTypeCorrect`,
`TypeCorrect`), and every other proof about the two modules rests on them.

The largest runs have between half a million and 2.2 million distinct states.

Deadlock is checked where the system cannot stop: in the configuration plane a
restart of `config-service` with nothing in flight (`Restart`, `ServiceCrash`,
`RouterDies`) stays possible, and a page of the wireframes can always be read. It is not
checked (`CHECK_DEADLOCK FALSE`) in `lifecycle`, where a product really ends
when all its versions are purged, and in `polling*` and `provisioning*`, where
the requests may be used up (`MaxRequests`, `MaxCalls`) with nothing left to do.

**Bounds.** With a time to live of 1, a clock to 2 lets an entry expire while
another one is fresh, and a clock to 3 lets a command expire and its successor
be queued, drained or expire in turn; in the guard a clock to 2 is enough for a
holder that outlives its marker to meet its successor. The actions that create
something with a time to live (`GeneratePreview`, `Queue`) leave room for its
whole life below the bound, so that the bound never keeps something alive. Three
operations are one owner, one late releaser and one newcomer; two devices are
enough for a bulk push to move on. Two confirmations and an execution are every
pair of threads that meet in the gate. Commands of different devices share only
the log and the one worker; the queue with two devices (and the safety
properties only, 2.2 million states) was checked once as well.
`MaxCheckIns` 2 gives a redelivered and a fresh check-in; `MaxCrashes` and
`MaxAborts` of 1 or 2 interrupt every step once, and the recovery again. Two
targets meet in every pair of routes; one unsupported device (`MaxUnsupported`)
already keeps `total` above the targets. Two pushes, two callbacks and a rollback
interleave two guarded writers, two unguarded ones and a reader.

Two versions of a product are the old and the new one, two handlers are every
pair of handlers, and `MaxOverlaps` 3 lets one long handler be overtaken by
three short ones: a validation by an approval and an activation, say. In
`wireframes` one overlap (`MaxCrossings` 1) is a pair; with 2, which takes 6.7
million states, the run was done once and passes too. Two walks
are needed to see that a second never starts beside the first; three requests
are enough for an apply, a provisioning and a reader to cross. Two units with
one label and two addresses can swap either; a third call comes back after a
removal. Documents whose registry entries differ (`WithParams`, `WithRules`)
take the branches of the activation.

Symmetry is used in safety runs only, over sets whose elements no definition
tells apart.

**Fairness.** `WF(Tick)`: time goes on.
`WF(ExpireStaleEntries)`, `WF(Sweep)`: `@Scheduled(fixedDelay)` tasks run
again after every end. `WF(Drain)`, `WF(Work)`: the `async for` of `main.py`
goes on as long as the process is up, and it is restarted by its container;
crashes are finite in number. In `LivePolling`, `WF(PollStep)` and
`WF(ThreadGoesOn)`: a handler goes on when its call returns, calls of MongoDB
return, and every SNMP operation ends with the timeout of its agent;
`WF(ListDevices)`: the interval timer fires for ever. No fairness is assumed of
operators, devices, check-ins, pages or of the routing thread, and none of the
passing of time between probes.

**What the violations say.** Each quotes the line it contradicts in
`PROJECT.json` under `findings`. They are properties of the code as it is:
the models were written first and no behaviour was added for them.
`wireframes_upload` needs one handler, no overlap and no failure: upload and
activate a version, then upload the next one. `provisioning_overwrite` needs
two hosts in one request with one label and two reported serial numbers.

**Further disagreements.** Reachable in the models, and described here
without a run of their own. In the configuration plane:

* Two overlapping confirmations with one key each create a job:
  `ConfigService.java:141` reads the jobs, the save is sixty lines later and
  nothing keeps others out, although the comment at 139 says "Idempotency check
  — prevent duplicate jobs from re-submitted confirmations".
* The execution of an accepted job does not find its preview (`StartJob`),
  because the confirmation that accepted it dropped it (`ConfigService.java:204`
  and 256); 237-238 promise "(or reconstructs routing from per-device status)".
* The sweep saves documents it read earlier (`SweepSave`,
  `ConfigService.java:600`): a command delivered meanwhile reads EXPIRED, while
  `docs/adr/decisions.md:148` says "Operators get reliable feedback for all
  command submissions".
* `_update_job` is awaited inside the `try` of the push (`worker.py:162`): when
  recording a success raises, the next protocol pushes again; line 141 says
  "Returns on first success."
* `executeJob` and `bulkPush` save the whole job from the copy they have held
  since before the first message (`FinishRouting`, `DeliveryRouter.java:108`):
  a result the worker wrote meanwhile reads PUBLISHED again;
  `test_delivery_routing.py:129` expects the worker's SUCCESS.
* An accepted rollback keeps its marker until the TTL (`AcceptRollback`):
  only the `catch` block of `RollbackService.java:173` releases it, "to
  prevent permanent device lock".
* An unknown preview id is answered with `PREVIEW_EXPIRED` (`ExpiredId`);
  `ConfigService.java:117` says "404 if previewId unknown".
* With the driver options that are deployed (`tzAware` false) every drain
  raises on its first command (`DateError`), so a device that checks in gets
  nothing from its queue.
* A message handed out again after a crash is pushed again; the key that
  `PerDeviceDeliveryRecord.java:58` says is "used for dedup by the worker" is
  only copied. `PushesNeedDeliveries` bounds how often.
* `perDeviceDelivery`, the "authoritative source" of `ConfigJob.java:77`, is
  never updated by the worker (`UpdateJob`).
* A preview counts unsupported devices that are not among its targets
  (`TargetResolverService.java:128`, 148-157), and the job is created with that
  count (`ConfigService.java:179`), with which `executeJob` compares
  (`DeliveryRouter.java:93`). A job with such devices is therefore never
  COMPLETED or PARTIAL, however its targets end; it stays RUNNING or
  RUNNING_QUEUED. `RoutedCountsMatch` says when a job is COMPLETED.
* `kafkaTemplate.send` returns before the message is sent, and nobody looks at
  its future (`DeliveryRouter.java:278-279`, `ConfigService.java:632`). A target
  whose send fails later (`SendFails`), or whose message was in the buffer when
  the service stopped, stays PUBLISHED and counted as a success. The counts
  agree with what the producer was handed, and only with that.
* "Orchestrates rollback of a failed configuration change"
  (`RollbackService.java:18`), and the fixtures of `RollbackServiceTest.java` are
  a FAILED version that is eligible (383-394), whose rollback is ACCEPTED
  (65-95), and an applied one that is not, for "applied versions are not
  themselves rollback targets" (402). The code records the opposite: applied
  versions are eligible (`ConfigService.java:526`), evidence of a failure never
  is (582). A change that was recorded as failed can never be rolled back, and
  what can be is a change that was applied. `OnlyAppliedIsRolledBack` proves it,
  for every history the code can write.
* Between the choice of what to restore and the rollback nothing is read again
  (`AcceptRollback`). A writer that had counted before the choice and saves after
  it may record a newer good version below the one that is rolled back: what is
  restored is then no longer "the previous known-good version"
  (`RollbackService.java:120`).
* Two callbacks with one key both record a version and every later one fails
  (`CheckCallback` ends in `error`), although the key "prevents duplicate
  version records" (`ConfigVersion.java:83`); and evidence of a failure keeps
  a success reported later with the same key out of the history.

In the gateway:

* Retiring or purging a superseded version removes the fingerprints and the
  pointer of the PRODUCT (`DropPrints`, `DropPointer`, `PurgePointer`;
  `descriptors.routes.js:1503-1508`, 1556-1559), although a newer version is
  Active: discovery and polling lose a live definition. Lines 1324-1326 say
  "One definition has ONE active version".
* Two activations that overlap leave two Active versions (`OneActiveVersion`
  is stated for handlers that have not overlapped). "PDL-025 transactional"
  (1164) is a sequence of separate calls.
* A validation that dies leaves its version `Validating`, from which no handler
  takes it.
* An upload with the number and content of a Deprecated version passes the
  check for duplicate content (837-880), and `isDefault` is never set.
* A probe result that is reused counts as another failure (`ReuseProbe`,
  `SyncOffline`; `liveParameters.js:737`, `nodeView.routes.js:331-332`), so a
  single lost probe marks a device, while line 721 says "2 consecutive failed
  probes".
* A walk or a cycle that was at work when a device was provisioned elsewhere
  stores what it found at the old address (`ShowsOwnAddress` needs `quiet`);
  `liveParameters.js:470-472` says the device "must not keep showing the poll
  outcome of its previous address". `Converges` shows that the next cycles
  repair it.
* A publication of the MIB builder for a definition whose registry can be
  loaded is superseded by the next page (`IsCurrent` fails, `Demote`, `Heal`).
* Activating a native version again whose entries are gone neither rebuilds nor
  invalidates anything (`LoadEntries` ends the handler).
* A reader of a layout that overlaps a writer fills the cache with what was
  replaced, and an invalidation that Redis does not get leaves it there, for at
  most the hour the cache lives; and a page that overlaps a
  purge creates a record again (`CacheIsActive` excludes overlaps).
* A publication between two native activations may leave two ACTIVE layouts
  (`OneActiveLayout` is stated for descriptors); the comment of the model
  (`nodeViewWireframe.model.js:10-15`, 73-75) speaks of one.
* The same unit found at two addresses of one request gets two records
  (`OneRecordPerUnit` excludes overlaps); `provision.stub.js:343` says "never
  add a second". `provision.stub.js:397` says "reject (duplicate)" where the
  code answers with success (408-417).
* Replacing the record of a known unit skips the search for others at its
  address (`Merge`), and a removed record that is found first hides an active
  one (`FindAtAddress`): an address may have two active records, against "Only
  one ACTIVE" (388-392).
* Without the data of its discovery run a host takes over the serial number of
  an earlier record at its address (`ReadPrior`).

## 4. Proofs

The eight `*_proofs` modules prove, for every number of devices, operations,
commands, previews, requests, versions, addresses and threads and every time to
live, what the runs show on small instances: every safety property of a passing
run is a theorem. The only assumptions are the named ones of the modules: types
of constants, that null values are not members, that a job has finitely many
targets (`DeliveryAssumption`) and, in `PollingAssumption`, that walks, cycles
and requests are different things. Bounds are arbitrary numbers, so the theorems
do not depend on them. Some theorems go beyond the properties of the runs; they
are named below, and each of them was also checked with TLC on the instance of
its module before it was proved.

Five refinements are proved, step by step: `GuardImplementsLock`
(`OperationGuard` implements `DeviceLock`), `GuardIsUsedAsPromised` (the threads
of `VersionHistory` treat the guard as `DeviceLock` says, so the two halves fit
together), `QueueImplementsConsumer` and `JobImplementsConsumer` (both views of
the worker implement `AtLeastOnce`) and `GateIsAQueue` (the chain of promises of
`snmpGate.js`, under everything that `LivePolling` does with it, implements
`AgentQueue`).

*Guard.* `IInv` strengthens `TypeOK` with: a holder within its time owns the
marker of its device, with the expiry it was given (`HolderOwnsMarker`); the
job named by a marker is at work on that device, with an exclusive class
(`OwnerAtWork`); a call between its two accesses finds no marker or one that
was live when it began (`ReconciledIsLive`); only exclusive calls reach the
map (`ComputesExclusive`). `Exclusion` and `NoStaleBlocking` follow: two
holders in time would both own the one marker. `OnlyOwnerFrees` is an action
property, proved from the invariant for each action. `GuardImplementsLock`
maps `owner[d]` to the job of the marker and shows that each step is a step
of the lock or leaves `owner` alone; `Reconcile` and `Restart` are `Forget`.

*Gate.* `IInv` strengthens `TypeOK` with: what is cached, or being turned into
a job, was issued (`KnownIds`); a request has a document only after its save
(`NoJobYet`); an accepted preview was issued and is out of the store
(`AcceptedIsConsumed`), and a preview's id is never issued again, so a
request that arrived after it can pass `CheckPreview` no more
(`SpentIsHopeless`); whoever was answered as a duplicate, or waits to be, has
a real job with its key and preview (`DuplicatesAreReal`); executions load
jobs that exist (`ExecutesRealJobs`). The proof goes action by action;
`StepKinds` and `ThreadFrame` say once what a thread's own step leaves alone.
Two action properties follow. `ConsumedIsGone`: a preview that has left the store
never comes back. `AcceptedIsTooLate`: an execution therefore never finds the
preview of a job whose confirmation has been answered ACCEPTED
(`JobsNameTheirPreview` ties the job to that preview), which proves the
disagreement about `StartJob` of section 3 for every order of events.

*Command queue.* Four invariants. `QueuedInv`: the clock is past what was
queued, and what the worker has in hand is of the device it serves. `OrderInv`:
whatever is pending for that device and older than a command the cursor has
still to yield is in hand too, and the command that is being pushed is the
oldest; commands that are queued meanwhile are younger than all of these, so
`FifoPerDevice` survives them, and a sweep only takes commands away.
`HonestInv`: an unrecorded push is exactly one push more than those that were
cut short. `ServedInv`: what was waiting at a check-in and is still pending is
in the hands of the worker until the check-in has been handled; a crash hands
the message out again, and the next cursor reads all of it.

`BalanceInv` gives `CommandsArePushedOnce`, which no run states: what the worker
has still to push has been pushed only as often as its pushes were cut short, and
what it is to record once more, so a command is pushed at most once more than
pushes of it were lost to a crash or a failing call, whatever the sweep saves
over it.

*Consumer.* Both refinements need only the type invariants: `pos` stays between
`committed` and the length of the log, and the handler is idle exactly when no
message is in hand. `QueueConsumes` and `JobConsumes` go through the actions.
From them and from how a handler lets go of a message (`QueueLetsGo`,
`JobLetsGo`) follows what a crash can bring back (`RedeliversLittle`): the
message in hand, and one more for each failed call at most. `FewPushesComeBack`
has no other condition; `FewCheckInsComeBack` has `tzAware`, because without it
each drain raises although no call failed (`DateError`), and the bound is false
(TLC finds the counterexample).

*Job delivery.* `RoutingInv`: the job is
RUNNING until the routing thread has saved it, targets yet to route have left no
trace, and no target has two messages, in the log, the buffer and among the
dropped ones together. `CountInv` relates the copy in memory to the messages
handed to the producer and the pending commands so far, whose sizes are compared
through the theorems on finite sets, so that `CountsMatch` holds for any number
of targets and any number of unsupported devices. What the producer does with a
message afterwards changes none of the sets that are counted (`CountRests`).
`DeliveryInv`: before the message of a device was handed out, and again while it
is being pushed to, every earlier push is paid for by a crash or a failed call;
`PushesArePaidFor` follows.

*Version history.* `NumberInv` strengthens `TypeOK` with: a thread has a
document only from its save on (`UnsavedIsAbsent`); a count that waits to be
used is at most the number of documents (`CountsAreOld`, which makes
`NumbersWithinHistory` inductive and needs that a save adds exactly one,
`SaveAddsOne`); who never lost the guard has it (`HoldsGuard`); and the count
of a push that has the guard is not behind the number of any other push that
(`FreshNumber`). That a choice stays sound until the rollback acts
(`ChoosesSoundly`) follows from `HistoryKept`: documents are never changed or
removed, which is a theorem of its own (`HistoryIsAppendOnly`). That it stays
the newest (`ChoosesNewest`) needs that whoever counts after the choice gets a
number above the version that is rolled back: documents only become more, and
that version's number was at most their count (`LateCountsMore`). The writers
that had counted before are `racing`, and nobody joins them. From eligibility,
which a document has from its save on, `OnlyAppliedIsRolledBack` follows.
`HistoryAssumption` says that the writers are finitely many and that the
kinds of threads are disjoint.

*Descriptor lifecycle.* Three invariants, one per question. `ReviewInv`
says what a handler knows for good however long ago it read its document
(`HandlersKnow`: an approver is not the uploader, whoever activates,
deprecates, retires or purges has a reviewed document); no state of a document
is needed for it, which is why overlaps cannot break it. `SerialInv` says that
without overlaps a handler is alone, finds the state it has read (`Expected`)
and has in `rest` whatever else is Active. `PurgeInv` says that a version whose
retention has passed is only ever purged (`AgedInv`, from ninety days in which
every handler ends) and that what the purge has removed so far stays removed
(`PurgedSoFar`).
Two action properties follow from them and from who may save a document at all
(`WhoSaves`, `WhoSigns`): a purged version stays purged (`PurgedIsFinal`), and an
approval by a second person stands (`ApprovalStands`), although every handler
saves what it read some calls ago. The states in between have no such property: a
late validation takes an approved version back to `Validating`, which TLC finds
at once.

*Live polling.* `GateInv`: the promises of an address form a chain, ordered by
`ahead`, from the operation that talks to the agent to the entry of `tails`.
`MovingInv`: whoever is not the last of the chain has a successor whom his end
will wake up, so that nobody waits for an agent that no one talks to, which is
the part of a deadlock that a safety property can exclude. `GateMoves` reduces
the actions of the model to the two operations of the gate, for which both
invariants are proved once (`EnterKeepsChain`, `SettleKeepsMoving`, ...). `GateIsAQueue`
maps `target` to the place in the queue and `ahead` to those who stand before;
that whoever ends has nobody before him is part of `GateInv`.
`WalkInv`: one walk of the device at a time, it is
the one in `inflight`, and what it has found is not older than what is stored,
from which `ValuesNeverGoBack` follows. `AddressInv`: if nothing was at work
at the last provisioning, every thread and walk knows the new address and only
the reset stands between an old document and its end.

*Wireframes.* `KindsFit` says which handler makes which call and `Alone` that
handlers which have not overlapped are alone, or all readers of one kind.
`Provenance` says where a fingerprint may come from: a record, the cache and
every layout in a handler's hands were built from the version they are filed
under. For descriptors no overlap and no failure disturbs that; a native upload
or activation files a layout under the version of its request, built from
whatever definition it has loaded, and these are the same only while it is alone
(`BuildsItsOwn`). `PagesServeTheirLayout` follows in both cases. `CacheInv`,
for the cache: pages that are built at the same time are built from one version
(`PagesAgree`), what is about to be cached is ACTIVE (`CachesActive`), and what
is cached is ACTIVE or somebody is about to replace it (`CacheFits`): a writer
by invalidating, a page by caching the layout it has healed, which is the case
that makes the invariant necessary. `Serial`: whoever is about to save an ACTIVE
layout has made way for it; `OneLayoutAtATime` follows.

*Provisioning.* `Alone`: a call that nobody overlaps knows, once it has looked
(`Settled`), that its unit has no active record but the one it is about to
write, and that this one is nobody else's. `NoUnitIsOverwritten` is an action
property proved from it.

What stays with TLC is liveness under fairness, which the prover cannot reason
about: `PreviewsLeaveMemory`, `CheckInsAreCommitted`, `CommandsSettle`,
`SentIsCommitted` and `Converges`.

## 5. Not modelled, and why

* Content of templates, messages, descriptors and devices; audit events,
  metrics, logging, rendering.
* `isOnline`, eligibility and channel classification are free choices: the
  properties must hold whatever they answer.
* Kafka partitions: messages of one key keep their order, and one consumer
  reads them all; a single log is what it sees. `auto_offset_reset` of a new
  consumer group, and rebalances, are left out (one replica is deployed).
* Retries inside one protocol: a push succeeds or fails as a whole.
* The TTL index of MongoDB on `expiresAt`, which deletes documents 72 hours
  after their expiry.
* `deliverPendingCommands` has no caller outside tests; the worker does its
  work.
* Restarts of `config-service` in `JobDelivery` do not resume a job, because
  the code does not: a job whose routing was under way stays RUNNING, and its
  other targets are never routed.
* `migrate` of `descriptors.routes.js` (1667-1735): it writes the product
  definition id devices already have, so it changes nothing the model has.
* Users of the lifecycle are known to the handlers (authentication is done
  before).
* Descriptors that are not XML and could also be driven by the native handlers:
  `origin` is one or the other.
* Web overlay, GPS, standard MIB values and firmware quirks of a poll: fields
  of the document that no property tells apart.
* Links between base stations and subscriber units
  (`provision.stub.js:189-217`), creation and update by hand
  (`devices.stub.js`), and the writers of `discovery.stub.js` that go round
  `provisionOne`: automatic provisioning by probe and without one
  (1375-1425, 1755-1800), and the correction of a serial number on whichever
  record matches an address or a label (1170-1185). `OneRecordPerUnit` says
  nothing of them.
* Most of the repository's JavaScript and TypeScript is the React front end
  (pages of two to three thousand lines each) and gateway routes that proxy,
  validate or list. They keep no state another actor changes under them, and a
  model would be a transliteration without a property worth stating. The models
  therefore cover a small part of the repository's lines: the part where the
  order of events decides.

## 6. Plan

1. Done: guard, confirmation gate, command queue, job delivery, version history
   with rollback; descriptor lifecycle, live polling with its gate, wireframes,
   provisioning; proofs of every safety property of their runs.
2. Proofs: that the command queue implements an abstract log of commands per
   device (the worker's consumer and the gate of the agents have their abstract
   specifications).
3. `AlarmLifecycle`: deduplication, clear, acknowledge and escalation under
   concurrent consumers; abstract: one active alarm per condition.
4. The writers of `discovery.stub.js` that go round `provisionOne`, composed
   with `Provisioning`.
5. The composed configuration plane (guard, queue, delivery): a device ends
   with the newest configuration it was sent; jobs of `RUNNING_QUEUED` that
   never complete.
6. Discovery service: run executor and scheduler, presence and check-in with
   the HMAC replay window; firmware jobs; sessions and lockout; the
   northbound forwarders as implementations of `AtLeastOnce`; inventory merge.
