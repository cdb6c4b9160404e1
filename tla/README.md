# Verification of the sales-data-entry repository

TLA+ modules, TLC configurations and TLAPS proofs kept beside the code. The repository holds two
programs:

* **OpenWA gateway** (`src/temp_openwa/`, TypeScript, NestJS): keeps WhatsApp sessions running on
  engines (a browser or a socket per session), sends and stores messages, delivers webhooks, runs
  plugins. One Node process per deployment, a SQL database, optionally Redis.
* **Sales application** (`src/src/main/java/com/salesdata/`, Java, Spring Boot): customers, bills, a
  sales ledger, calls, tickets, backups, and a client of the gateway.

The gateway has most of the concurrency and nearly all of the failure handling, so it comes first.

## 1. Inventory

Paths are relative to `src/temp_openwa/src/` for the gateway and to the Java package for the sales
application. `PROJECT.json` lists every component with its status, and every hazard with its line.

| Component | State | Operations | What makes it hard | What makes it correct |
|---|---|---|---|---|
| Session lifecycle (`modules/session/session-engine-*.ts`, `session-lifecycle-fences.ts`, `engine/engine-registry.service.ts`) | rows (status, phone), registry of engines, reservation of starts, stop marks, reconnect states, pending INITIALIZING writes, pending credential removals, auth directories | start, stop, logout, forceKill, delete; lost links, reconnect attempts, engine events | every call suspends several times; engines hang, reject late and emit events after they were replaced; writes land late | no orphaned, zombie or resurrected engine; rows that settle on the truth; no engine on a directory being wiped; every call ends |
| Reconnect policy (`reconnect-policy.ts`) | attempts, time of the last attempt | a link is lost, an attempt fails, an engine is ready | stored configuration is junk or extreme; long delays against the stability window | never given up early; delays never shrink in a streak; alerts stay rare |
| Bulk batches (`modules/message/bulk-message.service.ts`) | rows (status, counters), in-memory flags, count of batches in flight | createBatch, the background run, cancelBatch, the sweep at start | cancels from this or another process at any await; stale rows; crashes | a terminal status is final; counters add up; slots do not leak; a batch settles |
| Ingress (`modules/integration/ingress*.ts`, `redrive.service.ts`) | persisted events, queue jobs, dead letters | receive, enqueue or dispatch inline, sweep, dead-letter, redrive | a crash between two writes; a job that Redis took although `add` failed; a sweep against a slow dispatch | no accepted event is lost but by a known gap; one dead letter per delivery; every event settles |
| Webhook delivery (`modules/webhook`, `modules/queue/processors/webhook.processor.ts`, `common/utils/concurrency-limiter.ts`) | slots and waiters of the limiter, queue jobs, failure rows | dispatch, retry, fall back to direct delivery, drain at shutdown | a slot handed to a waiter; an `add` that rejects though Redis took the job; bookkeeping that fails after a 2xx; a job that stalls twice; an exit in mid-delivery | a delivery reaches its receiver or leaves one failure row; slots do not leak |
| Message sending and reaper (`modules/message/message.service.ts`, `pending-message-reaper.service.ts`) | message rows | save PENDING, send, record; merge onto the echo's row; reap | the engine's echo and receipts overtake the send's answer; crash between send and record | an accepted send is one row, as sent; a slow send is not failed for good |
| Message projection (`modules/session/message-*.ts`) | message rows | inbound, own-send echo, history import, receipts, reactions, edits | events in any order, twice, or across the delete of their session | one row per message, receipts only advance it, an inbound message is dispatched once |
| Watchdog, boot, shutdown, stuck-auth recovery (`session-liveness-watchdog.service.ts`, `session.service.ts`, adapters) | probe failures, the lifecycle's state | probe, force a reconnect, start at boot, stop all | races with control calls | the lifecycle's properties still hold |
| Engine adapters (`engine/adapters/*`) | browser or socket handle, generation | initialize, teardown verbs, events | their own inner reconnects | events of an old generation are ignored |
| Rate limits, body budget, API-key usage (`common/throttler`, `config/inflight-body-budget.ts`, `modules/auth`) | counters | acquire, release, flush | counters at their limits, a failed flush | never above the limit, never leaked |
| Plugin installation and lifecycle (`modules/plugins/plugins.service.ts`, `core/plugins/plugin-loader.service.ts`, `plugin-sandbox-bridge.ts`) | plugin directory, its backup and staging tree, registry entry, instance, worker, hook shims | install, enable, disable, update, uninstall, boot, shutdown | an update is a dozen file system calls; crashes between any two; workers that die or hang; a shutdown beside a request | an update is all or nothing; what runs is what is on disk; the operator's decision survives |
| Hook manager (`core/hooks`) | one array of registrations per event | register, unregister, execute | plugins come and go while a handler is awaited | nobody who stays is passed over; priority order |
| Plugin worker host (`core/plugins/sandbox`) | dispatches and capability calls in flight, the events among them | dispatch, answer, time out, exit; capability calls | handlers and calls nest across the worker's boundary; late answers; a dead worker | everybody is answered once; slots and events in flight do not leak; no re-entry |
| Event gateway, search, statistics, storage, infrastructure | rooms, derived tables, files | request and response | mostly I/O | – |
| Sales ledger (`BillingController`, `SalesRecordController`, `CustomerController`) | bills, records, customers | create, edit, delete, return, merge | checks followed by inserts, without locks; records found again by their text; several commits per request | refunds never above what was paid; a bill and its record agree; money has an owner |
| Calling, tickets, customers | one call record per customer, tickets | log, update | check then insert | one record per customer |
| Backup and restore (`SystemController`, `AutoBackupScheduler`) | tables, files, next backup time | backup, restore, reschedule | no snapshot; exceptions caught inside a transaction | a restore is all or nothing |
| WhatsApp client (`WhatsAppService`) | cached session id | resolve, send, clear | shared by requests | a stale id is not used for ever |

**Interactions.** A control request enters `SessionEngineControls`, which goes through the fences
(`SessionLifecycleFences`) and the registry (`EngineRegistry`) into `SessionEngineLifecycle`; that
builds an engine, wires its events (`SessionEngineEventWiring`) and launches it. Events come back as
callbacks and write the row through the broadcaster; a lost link asks `decideReconnect` and arms a
timer. Bulk runs and single sends take the engine of a session from the registry at the moment they
need it. Sends and inbound messages fire hook events: `HookManager` walks the handlers of an event, most of
which are shims that dispatch into a plugin's worker (`PluginWorkerHost`) and wait; the worker's handlers
call back into the gateway. The sales application is an HTTP client of the gateway.

## 2. Modules

| Module | Models | Extended by |
|---|---|---|
| `SessionLifecycle` | the session lifecycle: registry, fences, controls, reconnects, engine events, rows | `MCSessionLifecycle`, `SessionLifecycleProofs` |
| `ReconnectPolicy` | `decideReconnect`, the coercion of its configuration, its callers over time | `MCReconnectPolicy`, `ReconnectPolicyProofs` |
| `BulkMessages` | creation, run and cancellation of batches, crash and restart | `MCBulkMessages`, `BulkMessagesProofs` |
| `Ingress` | inbound deliveries: request, enqueue, sweep, redrive, worker, dead letters, crashes | `MCIngress`, `IngressProofs` |
| `Delivery` | what the ingress pipeline promises of a delivery, without its parts | implemented by `Ingress` (instance `ABS`) |
| `MessageRows` | the rows of a message: send, echo, history, receipts, reactions, reaper, session delete, crash | `MCMessageRows`, `MessageRowsProofs` |
| `WebhookDelivery` | outbound webhooks: limiter, direct path, queue and worker, failure rows, drain, crash | `MCWebhookDelivery`, `WebhookDeliveryProofs` |
| `SalesLedger` | customers, bills, ledger records and call records of the Java application | `MCSalesLedger`, `SalesLedgerProofs` |
| `PluginLifecycle` | one installed plugin: requests, worker, boot, recovery of updates, shutdown, crash | `MCPluginLifecycle`, `PluginLifecycleProofs` |

An `MC...` module only gives TLC its model values, small sets and symmetries.

An operator placed just before another one, with the same parameters and used by nothing
(`StillThereUnchecked` before `StillThere`, `ReleaseKeepsSlot` before `Release`), is that definition
with one plausible mistake in it. `PROJECT.json` ("mutants") lists, for each property, the mistake
that TLC shows it to catch: a property that survives every such mistake says nothing about the code.

### SessionLifecycle

*Grain of atomicity.* Node runs a call up to its next `await` on something unsettled, and a
continuation whose promise is settled runs before the next macrotask. So one action is the code
between two awaits; `pc[p]` names the await a call is suspended at; `Quiet` says that no settled
continuation is waiting, and guards whatever starts a new macrotask (a request, a timer, an engine
event, completed I/O). An await of something private to its call (a row read, a hook) completes in
the action that continues.

*State.* `row`, `status`, `phone` are the session's row; `inflight` are row writes issued and not
landed (in order for SQLite, in any order for a Postgres pool: `Ordered`); `reg`, `initializing`
are `EngineRegistry`'s maps; `stopping`, `rstate`/`attempts`, `pendInit`, `tracked` are
`stoppingSessions`, `reconnectStates`, `pendingInitialStatuses`, `pendingTeardowns`; `phase` and
`owner` are the engine objects; `disk` the auth directories. A *client* is a request in flight, a
*task* a disconnect handler or reconnect attempt.

*Actions.* Each names the code after one await: `Start`, `StartRead`, `StartFenced`, `StartHooked`
for start; `InitWritten`, `InitResolves`, `InitRejects`, `InitDeadline`, ... for initializeEngine
and the checks after it; `Retire`, `RetireRead`, `InitialStatusSettled`, `RetireTornDown`,
`RetireWritten` for what stop, logout, forceKill and delete share; `LogoutForgot`, `Delete...` for
the rest of the two; `Lost`, `LostRead`, `ReconnectFires`, `ReconnectTornDown`, ... for reconnects;
`EngineReady`, `EngineFails`, `EngineClosed`, `CredentialsRemoved`, `WriteLands` for what the
engine and the database do.

*External.* Engine, browser and database are modelled from how the code uses them: an engine may
stay in any phase for ever, resolve or reject late, lose its link, fail, and emit an event whenever
its phase allows. `Faults` selects the failures of an instance.

### ReconnectPolicy

The pure policy with its clamps, in seconds, and the three things that drive it: a lost link, a
failed attempt, a ready engine. Time appears only as what elapsed since the last attempt was
scheduled, which is all the code looks at. `Unlimited` stands for `Infinity`.

### BulkMessages

*State.* `status`, `prog`, `total`, `stopOnError` are the row; `mem`, `saw`, `final` what the run
holds in memory; `flag` is `processingBatches` (`none`, `on`, `off`), `slots` `inFlightBatches`;
`cpc`, `target`, `got`, `local` are cancel requests in flight and the row they read; `up` and
`orphans` the process and the batches its start found. `delivered` and `late` are history.

*Actions.* A read is two steps, because the row can change before its answer is used (`Create` and
`Reserve`, `ReadRow` and `PickUp`, `Reread` and `Decide`, `Cancel` and `CancelSignals`,
`FindOrphans` and `FailOrphan`); a write is one. `Send` is the hook, the engine's send and the
saved copy together: between them the run touches only its own memory. `RunThrows` is a database
error at any of the run's queries. A crash ends runs, flags, slots and this process's requests;
cancels of another process survive it. That other process only cancels: two gateways that both run
batches on one database would each fail the other's batches at start, and are not modelled.

### Ingress

*Callers.* `IngressEnqueueService.enqueue` is shared by the request of each delivery, the
reconciler's sweep and the operator's redrive, so its four outcomes are actions of a caller `c`
(`AddAccepted`, `AddRejected`, `InlineResolves`, `InlineRejects`), and `pc[c]` is the await the
caller is at. `LiveMarks`, `LiveMarkFails`, `LiveSaves` are what the wrapper in
`integration.module.ts` does with the outcome; `Sweep...` and `Redrive...` are one row's steps of
the two batches, whose rest is `todo[c]` and whose present row is `cur[c]`; `SweepThrows` skips a
row, `RedriveThrows` ends its batch.

*State.* `state`, `attempts`, `recent` are the event's row (`recent`: created, or last attempted,
within the grace period); the payload is not a variable because every write that leaves `pending`
also sets it to null. `job`, `made`, `stalled` are BullMQ's jobs: `<<d, 0>>` has the delivery's id
as its jobId, `<<d, k>>` is `redrive:<row k>`. `letter` are the dead letters, numbered per delivery
as they are saved. `seen` is the attempt count the sweep read with its batch: it writes
`seen + 1`, not what the row says by then. `delivered` and `gap` are history.

*External.* BullMQ as the code relies on it: an id that is still kept is not added again (`Added`),
a job runs until it resolves or its attempts are spent, finished jobs are evicted (`JobEvicted`,
after an hour or a thousand newer jobs, hence not during the seconds of a caller's steps), a job
whose process died is given back once and then failed without `process` (`Crash`). Two more
facts about time: the grace period (60 s) outlasts a live request (`Cools`), and the retry backoff
outlasts the writes after an enqueue (`BackoffOver`) unless it is configured away (`noBackoff`).

### Delivery

The abstract specification of the ingress pipeline: a delivery is `new`, `accepted` (its event keeps the
payload) or `settled`; `holders` says who else keeps it, a live job or an open dead letter. It may settle
for good only when something keeps it or has delivered it, a job ends by a dispatch, its dead letter or
a gap, a dead letter is closed only behind a settled event, and only what is held can be lost.
`Ingress` maps its rows, jobs and letters onto it (`Phase`, `HoldersOf`) and states
`KeepsPromise == ABS!Spec`.

### MessageRows

*State.* A message has at most two rows: `own`, saved by the send, and `echo`, inserted by an engine
event or the history sync; the unique key (session, message id) lets only one of them carry the id.
`pc`, `handler`, `ack`, `reaction`, `found` are the awaits of the send, of the handler of each engine
event, of each receipt, of a reaction, and the rows the sweep has read. `result` is what the engine's call
returned, `out` says that WhatsApp has the message; `copy` is what `message:persisted` last told the
plugins. `dispatched` and `gap` are history.

*Actions.* One per await: `Send`, `FindSession`, `SaveOutgoing`, `Accepted`, `Rejected`,
`PersistSentState`, `MergeOntoEcho`, `DropOwn`, `Reindex`, `SaveFailedMessage` for the send;
`Fire`, `Insert`, `Abandon`, `Dispatch` for the handler of an engine event (the unique key, not a
lookup, decides who inserts); `AckArrives`, `AckWrites` for the guarded update of a receipt and its one
retry; `React`, `ReadReactions`, `WriteReactions`; `Sweep`, `ReapRow`; `Retire`, `DeleteRows` for the
session's delete; `Crash`. `Transmit` is external: at some time while the engine's call is pending
WhatsApp has the message, and only then can echo and receipts come.

### WebhookDelivery

*State.* `queued`, `maxQueued` are settings; `active`, `waiting` the limiter; `pc` the await a delivery
is at (`parked`, `full` and `closed` are what the limiter may do with it), `attempt` the attempt of the
direct path, `job`, `made`, `stalled` its BullMQ job, `up` the process. `posts`, `confirmed`, `told` and
`gap` are history, `failures` the rows in `webhook_delivery_failures`.

*Actions.* `Dispatch` enters the limiter (`Admit`); every end of a task is a `Leave`, which hands its
slot to the first waiter without releasing it (`HandOver`, then `Resume` in the waiter).
`Preflight`, `AddResolves`, `AddRejects`, `PostSucceeds`, `Stamp`, `PostFails`, `Retry`, `RecordLost`,
`RecordRefused` are the code after each await of a delivery; `Job...` and `Stall...` the worker's;
`Stop`, `DrainEnds`, `Exit` the bounded drain. External: Redis (`Taken`) and BullMQ, which retries a
job, gives it back once when its worker died, and fails it without `process` the second time.

### SalesLedger

*Grain of atomicity.* One action is the code from one commit to the next: the handlers of bills run in
one transaction, every other save commits by itself. Spring's open-in-view keeps the connection of a
request's first query until its answer, so as many requests overlap as the pool has connections
(`Connections`): one for SQLite, ten for Postgres.

*State.* The tables (`customer`, `bill`, `record`, `calls`), the step of each request (`pc`) with what it
was asked and has read (`req`), and `cut`, the bills that an edit, a delete or a dying request has parted
from their record. A bill finds its record by the remarks `Invoice #b`, which is the record's `bill` here.

*Actions.* `CreateBill`, `UpdateBill`, ... begin a request with everything it reads before its first
commit; `SaveCustomer`, `CheckLimit`, `SaveRecord`, `TakeRecords`, `TakeBills`, `DropCustomer`, ... are its
commits; `Abort` is a request that dies between two of them (for a bill: is rolled back).

### PluginLifecycle

*Grain of atomicity.* One action is one call on the file system (removing a directory is two, so that a
crash can leave a torn one), or the code between two awaits. Requests on one plugin are serialized
(`opChains`), an install is not but is over before its next await; boot and shutdown are not serialized
with anything.

*State.* On disk: the directory `live`, its backup `bak` and the staging tree `new`, each with a version,
whether its manifest and code are whole, and whether it has `ctx.storage` files; the registry's `entry`
with its status and the operator's decision. In the process: the instance (`plugin`), its `worker`, the map
entry `host`, the worker's subscription and the shims the hook manager holds. `pc` and `op` are the request
under way or boot; `teardown` is the shutdown's own. `wanted`, `stored` and `gap` are history.

*Actions.* `Enable`, `Disable`, `Install`, `Update`, `Uninstall` begin requests; `Stage`, `ClearBackup`,
`MoveAway`, `MoveIn`, `Copy`, `LoadUpdate`, `Cleanup` are an update's steps and `Unswap`, `Revert`, `Reload`
take one back; `RecoverBackup`, `RecoverStaging`, `Scan`, `Restore` are boot; `Close`, `WorkerStops`, `Exit` the
shutdown; `WorkerDies`, `WaitEnds` and `Crash` the failures. A shutdown and a request that stop one worker both
return when it exits.

## 3. Runs

All runs are exhaustive within their bounds.

| Run | Bounds | Properties | Question |
|---|---|---|---|
| `SettledStatus` | 2 sessions, 2 requests, 3 engines, cap 1, fence timeouts | `SettledReady`, `PhoneSettled`, `CapHeld` | do two overlapping controls leave row, engine and credentials in agreement, under the cap? |
| `Failures` | 1 session, 2 requests, 3 engines, every failure except lost links | `CredentialFence`, `EnginesAccounted` | does every error path leave a working or a stopped session? |
| `Reconnect` | 2 sessions of one name, 1 request (start, stop, delete), 1 task, 2 engines, lost links, writes in any order | `TypeOK`, `EnginesAccounted`, `NoLateInitializing`, `DeletedIsGone` | do reconnects race start, stop and delete safely, beside a namesake? |
| `CallsFinish` | 1 session, 1 request, 1 task, lost and unlinked links, rejected initializes, engines that hang, every timeout | `CallsFinish` (liveness) | does every call end? |
| `Backoff` | 15 attempts per outage; budgets and delays on every side of the clamps | `NotGivenUpEarly`, `NeverFaster` | is the backoff right for any stored configuration? |
| `BatchRace` | 1 batch of 4 messages, a save every 2, cap 1, 2 cancels (local or foreign), crashes, database errors | `CountersAddUp`, `LateSends`, `TerminalIsFinal`, `SlotsMatch`, `EveryBatchSettles` (liveness) | can a cancel at any await break a batch, and does every exit free its slot once? |
| `Ingress` | 1 delivery, queue on or off, 2 sweep attempts, 2 job attempts, any 2 failures, redrives of 1 dead letter | `NothingLost`, `OneDeadLetter`, `EverySettles` (liveness), `KeepsPromise` (refinement of `Delivery`) | can an accepted delivery be lost, dead-lettered twice or left pending? |
| `Messages` | 1 message, created by anyone, its echo twice, history, 2 receipts, 1 reaction, any 1 failure | `AcceptedIsShown`, `InboundOnce`, `NoOrphanRows`, `StatusAdvances`, `PendingResolves` (liveness) | do send, echo, receipts, reaper and delete agree on one row? |
| `Webhooks` | 2 deliveries, 1 slot, queue with room to wait or direct with room for 0 or 1, 2 attempts, any 2 failures | `LimiterSound`, `NothingVanishes`, `OneOutcome`, `EverySettles` (liveness) | does every delivery come to one end, whatever fails? |
| `Sales` | 2 requests on 1 connection, 2 customers, 3 names, 1 bill, 3 records, 1 amount | `NoDuplicates`, `MoneyHasOwner`, `LedgerAgrees`, `RefundWithinLimit` | do requests that die between commits leave the ledger in order? |
| `Plugins` | 1 plugin, 3 versions of which 1 does not load, 3 requests, any 2 failures | `TypeOK`, `RuntimeAgrees`, `SurvivesUpdates`, `UpdateAtomic`, `DecisionHonoured`, `RequestsEnd` (liveness) | does a plugin survive failing updates, dying workers, shutdowns and crashes at any step? |
| `StartDuringReconnect` | 1 session, 1 request, 1 task | `NoOrphan`, violated | see Findings |

**Why the bounds are enough.** The lifecycle's races are between two parties at one session (two
controls, a control and a reconnect, a call and an engine's event); a third engine object (in all
runs but `Reconnect` and `CallsFinish`) is there so that a replacement exists while its predecessor and
a stale one still die, and a second session only matters through the cap and a shared name. `MaxWrites` (2; 1 in `Reconnect` and `CallsFinish`)
pauses new requests and engine events, never a call under way, while that many writes are in flight.
A reconnect budget of 1 reaches both an armed reconnect and an exhausted one. A dead, unreferenced
engine stands for a new one, so nothing bounds how often a session restarts. In `BatchRace` a batch
of 4 with a save every 2 has saves that succeed, saves that are skipped and a last message that
always saves (the code has 10 for 2); that the slots of many batches keep to their cap is the theorem
`BatchSlotsMatch`. In `Ingress` deliveries share no row, job or dead letter: they meet only in the two
batches, where each is handled on its own, so one delivery shows every interleaving of request, sweep,
redrive and worker.
`MaxAttempts` and `JobAttempts` of 2 have a last attempt and one before it; `MaxFaults` is 2 because
the known losses need one failure and the next ones to look for need two. `RedriveRows` bounds how
many dead letters a delivery may have when a redrive starts; no save is ever blocked by `MaxRows`
(7), which is why no accepted delivery gets stuck at the bound. `Messages` has one message because
messages share no row, chain or receipt (the sweep reads several, and reaps each on its own); one
failure, because each of its gaps needs one. In `Webhooks` deliveries meet only in the limiter, where two
are a holder and a waiter; the three settings let the second one wait, be refused, or be closed by the
drain. In `Sales` two customers are the two sides of a merge, three records are a sale, a refund and one
to edit; clients type names as they are stored. Fifteen attempts are three times the streak at which the
default delay passes the stability window. In `Plugins` three requests are an install, an enable and an
update, or two updates in a row; the second failure hits the recovery of the first, and the version that
does not load is the update that has to be taken back. Symmetry (of requests, tasks
and engines, and in `Reconnect` of its two sessions, which have one name) is used in safety runs only.

**Deadlock** is checked except in `Messages`, `Webhooks`, `Sales` and `Plugins`, whose bounded
work is used up; all other systems may never stop.

The type invariants of `ReconnectPolicy`, `BulkMessages`, `Ingress`, `MessageRows`, `WebhookDelivery` and
`SalesLedger` are theorems and not repeated in the runs.

**Fairness.** `SessionLifecycle!FairSpec`: strong fairness of each call's continuations (the event
loop runs every due timer and callback, though a continuation may be disabled for a while by another
one that is due first) and of the landing of writes nobody awaits (the database answers). Engines
owe nothing, which is what the deadlines are there for. `BulkMessages!FairSpec`: weak fairness of
the run (engine, database and timers answer), of cancel requests, and of the restart of a process
that is down. Nothing makes a cancel, a request or a crash happen. `Ingress!FairSpec`: weak fairness of
each request, of the sweep (its interval keeps firing), of a redrive that has begun and of each job, and
of the passing of the grace period; nothing makes a redrive or a failure happen, and a disabled
instance owes nothing. `MessageRows!FairSpec`: weak fairness of the continuations of each send, event,
receipt and reaction (the database answers), of the sweep's interval and of the passing of the grace
period; the engine's call may hang for ever. `WebhookDelivery!FairSpec`: weak fairness of each
delivery's continuations and of its job (a fetch and a hook have their timeouts, the database and Redis
answer or fail), of the bounded drain and of the exit after it. `PluginLifecycle!FairSpec`: weak fairness of
the request or boot under way and of the exit (file system calls return, and every wait for a worker has a
time limit); nothing makes a request or a failure happen.

## 4. Proofs

TLAPS checks these for every value of the constants, from the assumptions the modules declare.

| Theorem | Says | Assumes |
|---|---|---|
| `SessionLifecycleProofs!CallsAlwaysBound` | a call that is not idle has a verb and a session, and each await belongs to the verbs whose code contains it | `ConstantsAssumption` |
| `SessionLifecycleProofs!StartIsSerialized` | `[]StartSerialized`: an id is reserved exactly while one start of it is in flight | the same |
| `SessionLifecycleProofs!NoLateInitializingHolds` | `[]NoLateInitializing` | the same, and no wait for the INITIALIZING write passes its ten second bound |
| `SessionLifecycleProofs!SessionTypes` | `[]TypeOK` | `ConstantsAssumption` |
| `SessionLifecycleProofs!EnginesAlwaysAccounted` | `[]EnginesAccounted`: no engine runs unregistered, no dead one stays registered, none is up behind a stop mark | the same, and no link is lost |
| `SessionLifecycleProofs!CapAlwaysHeld` | `[]CapHeld` | the same two |
| `SessionLifecycleProofs!CredentialFenceHolds` | `CredentialFence`: no engine is launched into a pending removal of its session's credentials | the same two, and no two sessions ever have one name |
| `SessionLifecycleProofs!SettledReadyHolds` | `[]SettledReady`: at rest, a row reads READY exactly when a ready engine is registered | those three, the writes of a session land in the order they were issued, no initialize rejects, no teardown is given up |
| `SessionLifecycleProofs!PhoneSettledHolds` | `[]PhoneSettled`: at rest, READY has a phone, and DISCONNECTED with a phone has its credentials | the same |
| `ReconnectPolicyProofs!GivenUpOnlyWhenSpent` | `[]NotGivenUpEarly` | `PolicyAssumption` |
| `ReconnectPolicyProofs!PolicyTypes` | `[]TypeOK`: budget, delays and streaks stay within their clamps | the same |
| `ReconnectPolicyProofs!DelaysNeverShrink` | `NeverFaster` | the same |
| `ReconnectPolicyProofs!StreaksStayShort` | `[]WindowEndsStreaks`: a streak ends by its tenth attempt, a budget of ten or more is never spent, no delay reaches ten minutes | the same |
| `BulkMessagesProofs!BatchTypes` | `[]TypeOK` | `BatchAssumption` |
| `BulkMessagesProofs!BatchCountersAddUp` | `[]CountersAddUp` | the same |
| `BulkMessagesProofs!BatchTerminalIsFinal` | `TerminalIsFinal` | the same |
| `BulkMessagesProofs!BatchSlotsMatch` | `[]SlotsMatch` | the same |
| `BulkMessagesProofs!BatchLateSends` | `[]LateSends`: how many messages may still begin once a cancel has committed | the same |
| `IngressProofs!IngressTypes` | `[]TypeOK` | `IngressAssumption` |
| `IngressProofs!IngressNothingLost` | `[]NothingLost` | the same |
| `IngressProofs!IngressFailedHasDeadLetter` | `[]FailedHasDeadLetter`: an event given up has a dead letter, open or redriven | the same |
| `IngressProofs!IngressRedrivenIsNotSwept` | `[]RedrivenIsNotSwept` | the same |
| `IngressProofs!IngressOneDeadLetter` | `[]OneDeadLetter` | the same |
| `IngressProofs!IngressKeepsPromise` | `KeepsPromise`: `Ingress` implements `Delivery` | the same |
| `MessageRowsProofs!RowsTypes` | `[]TypeOK` | `RowsAssumption` |
| `MessageRowsProofs!RowsAcceptedIsShown`, `RowsInboundOnce`, `RowsNoOrphans`, `RowsCopySettles` | the three invariants of the run `Messages`, and `CopySettles`: the copy the plugins keep of a sent row does not stay PENDING | the same |
| `MessageRowsProofs!RowsStatusAdvances` | `StatusAdvances` | the same |
| `WebhookDeliveryProofs!WebhookTypes` | `[]TypeOK` | `WebhookAssumption` |
| `WebhookDeliveryProofs!WebhookLimiterSound`, `WebhookNothingVanishes`, `WebhookOneOutcome` | the three invariants of the run `Webhooks` | the same |
| `SalesLedgerProofs!LedgerTypes` | `[]TypeOK` | `LedgerAssumption` and `OneConnection` |
| `SalesLedgerProofs!LedgerNoDuplicates`, `LedgerMoneyHasOwner`, `LedgerLedgerAgrees` | the three invariants of the run `Sales` | the same |
| `SalesLedgerProofs!LedgerRefundWithinLimit` | `RefundWithinLimit` | the same |
| `PluginLifecycleProofs!PluginTypeOK` | `[]TypeOK` | `PluginAssumption` |
| `PluginLifecycleProofs!PluginRuntimeAgrees`, `PluginSurvivesUpdates`, `PluginUpdateAtomic`, `PluginDecisionHonoured` | the four invariants of the run `Plugins` | the same |

* **SessionLifecycle.** The first two need only what a step does to the calls: every action is shown
  to be a `CallStep` (somebody moves on, ends or begins), and the two invariants are inductive over
  call steps. For the third, `EngineInv` adds who holds which engine: while the INITIALIZING write of
  a registered engine is awaited it is the one `pendInit` holds, so the control that captures the
  engine finds it; no two launches await the write of one engine; a control keeps clear of that
  write once it begins the teardown. Each action is shown to be an `EngineStep`, and the invariant is
  inductive over those. With the bound on the wait able to pass, the property is false by design.
  `TypeOK` needs `CapturesOK`: a control that awaits the INITIALIZING write of an engine has captured one.

  The other three share the invariant `Accounted`. It says of each call which engine it holds and in which
  phases (`HolderAt`), that nothing but its own engine is registered while a start is past its duplicate
  check (`StartAt`), and, of each registered engine that does not serve or is not to stay, which call will
  launch it or take it out (`RegisteredAt`: one that is built, launching, closing, marked to stop or without
  reconnect state is held at certain awaits). A session at rest has no call to hold its engine, which gives
  `NoZombie` and `StoppedStaysDown`. `EngineMoves` shows the 43 actions to be of eleven kinds (`Registers`,
  `Launches`, `RunEnds`, `Reaps`, `Marks`, ...), and each kind to keep `Accounted`; the case that decides is a launch, which
  needs that no settled continuation is waiting (`Quiet`): else an undo could still be about to evict the
  engine. For the cap, `Claimed` adds to the registered ids those of starts past their checks; the check
  counts all of them and all reservations. For the fence, `FenceAt` says that a start knows of every removal of its session's
  credentials from the fence to the launch: a teardown that begins in between can only be of
  the start's own engine, which is then closed and not launched. `"lost"` is excluded because with a
  reconnect attempt in flight `EnginesAccounted` and the cap are false (section 5), and names used twice
  because an engine of a deleted session can launch during the logout of a namesake.

  `SettledReady` and `PhoneSettled` speak of a session at rest; `SettleInv` says what holds while
  writes are in flight. A call has in flight exactly the write it awaits (`Owned`). `Cols`: once the queued
  writes have landed, the row will read READY exactly if the registered engine is ready, unless a start is
  still reaping it; `Says` is that reading of a queue, whatever lies behind it. `DiskAt`: if the last write
  about the phone leaves one, the credentials are on disk. A step then only has to be shown to add
  to the queue, drop its head or change the engine as `QueueStep` allows. What keeps a late write
  from being the last word is the order of the queue: the final write of a logout stays ahead of the INITIALIZING
  write of any later start (`Before` in `ForgetsAt`), so the phone is cleared before an engine can be launched
  again; a control that closes an engine has it registered, or reaped by its start, until it is torn down
  (`Controls`); and a row is never written before it is created or again once it is deleted
  (`FreshAt`, `GoneAt`). The hypotheses are needed: if a start's initialize rejects while a stop is tearing
  the same engine down, or passes its deadline and the teardown after it is given up, the registry is free
  before the stop has written; a second start becomes READY and the stop's DISCONNECTED lands over it. TLC
  shows both; if writes of a session can overtake each other no order of the calls can help. The run
  `SettledStatus` has neither deletes nor faults but the fence's; the theorems allow every verb and all the
  remaining faults.
* **ReconnectPolicy.** `StreakInOutage`: the attempts of the streak were all made in this outage, and
  a failed session has spent its budget. The delays need `StreakInv`: a pending attempt's delay is the base
  delay doubled once for each attempt of the streak before it, up to the cap (`Doubling`), and a streak has
  at most ten (`WindowEndsStreaks`), because nine doublings of the smallest base delay are past the
  stability window (`NextDelay`). The two need each other: only a short streak keeps the product finite, and with
  a product that is not finite the delay falls back to the base delay (`clampReconnectDelay`) and would shrink.
* **BulkMessages.** `BatchInv`: the statuses a row can have at each await of its run (`RowAt`), the
  counters in the run's memory (`MemAt`), in the row (`ProgAt`) and in each cancel request
  (`CancelAt`), and what a start may find (`ProcessAt`). `CountersAddUp` is not inductive because a
  write uses counters that were read or kept earlier; `TerminalIsFinal` because the run's
  unconditional writes spare a terminal status only thanks to `RowAt`. `SlotsMatch` is inductive
  once each step is shown to move at most one batch into or out of the ones that hold a slot, with
  the library's facts about cardinality. `LateSends` needs to know how far
  a run is from the save that will see the cancel: `LateAt` bounds what has begun since the cancel by the
  place of the message in its save interval (`Allowed`), and each further message raises both.
* **Ingress.** `LossInv`. `NothingLost` is not inductive: a redrive closes an open dead letter when its
  replay was accepted, and that replay's job may have failed by then. `SafeAfter(j)` says what keeps
  a delivery after job or dead letter `j`: a dispatch, a gap, a live job, or an open dead letter
  *younger* than `j`. It holds of every job BullMQ still knows (`JobsKept`: the failure of a job wrote a
  letter younger than any before), of every caller whose enqueue succeeded (`SuccessKept`), and
  after the event's own id once it is settled (`EventKept`); closing letter `j` then leaves what keeps
  the delivery after `j`. `MarkedLast` and `CountsFailure` carry the dead letter from its save to the
  terminal mark of the sweep. For `RedrivenIsNotSwept`, `RedriveInv` adds that only a received
  delivery has a job, a dead letter or a place in a batch, so that a settled event stays settled (only
  `Receive` makes an event pending, and only an absent one), and that a batcher about to retire a dead
  letter has settled its event. `OneDeadLetter` needs to know, for each await between the count of the open
  letters and the save, who else could save one (`DirectInv`). `KeepsPromise` needs no more than
  `RedriveInv`: each action is shown to change phase, holders and losses of its one delivery in a way
  `Delivery` allows.
* **MessageRows.** `RowsInv` is `TypeOK` and, for each message, `MsgInv`: what the await of the send says
  of the two rows (`Shape`), which rows may exist in a deleted session (`Orphans`), who may still dispatch
  (`Inbound`), what the plugins were told (`Copied`), and what keeps an accepted send's id and payload
  between the engine's answer and the end of the merge (`Shown`). A step touches one message (`Apart`),
  a crash and a delete all of them. `StatusAdvances` is a corollary: only the merge writes a status
  without a guard on a row that carries the id.
* **WebhookDelivery.** `WebhookInv` is `TypeOK`, `LimiterSound`, that no delivery waits twice, and for each
  delivery what its await and its job say about answers, failure rows and the drain's log (`PathAt`), how
  often it can have been posted by either path (`CountAt`), and that it has one outcome (`OutcomeAt`).
  A step of one delivery changes another one only by handing it its slot (`Aside`); cardinality facts of
  the library turn "one leaves, one enters" into the count of `active`.
* **SalesLedger.** `OneConnection` says what SQLite's configuration and the screens give: finitely many
  requests, one connection, names sent as they are stored. Then at most one request is under way
  (a fact about cardinality), what it has read still holds (`WorkInv`), and `Consistent` of the tables is
  inductive, with `Between` for the bills of a merge that has moved the records already. A refund is within
  its limit (`RefundInv`) because from the check to the save the payment's customer keeps the name it was
  asked for and the sums stand as they were checked (`WritesWithin`); the step that saves it adds one element
  to a sum (`LimitAfter`), over a set that is finite because rows are created one by one.
* **PluginLifecycle.** The four properties speak of a plugin at rest, or of an answer; what holds then was
  decided step by step before. `IInv` says, for every step of every request and of boot, which steps there are
  (`Control`), when a plugin is loaded and its worker runs (`Registered`, `Sandboxed`), what an update has in
  its three directories (`Swapping`), where a backup can be (`NoBackup`), what boot would make of the disk if
  the process died now (`Recovery`), where the last copy of code and data is (`Present`, `Kept`), what runs against
  the operator's decision (`Wish`), and that an update that fails, or does not bring its plugin back, has a cause
  (`Caused`). Each conjunct is kept by every action; what an action does to the record it changes is stated once,
  in a lemma named after it. What the gaps excuse is in the properties, as in the run.

Only model-checked:

* `DeletedIsGone`: true within the bounds of its run only, because of a limit that section 5 lists (a start
  that survives a delete); and, where links are lost (in `Reconnect`) or names are shared, `EnginesAccounted`,
  `CapHeld` and `CredentialFence`, as far as the runs have those; no run has them for `SettledReady` and
  `PhoneSettled`;
* all liveness: reasoning about `ENABLED` and fairness is outside the prover.

*Induction.* The library's induction theorems take an operator, which no installed prover can instantiate.
The proofs use its theorem on least elements instead (`WFMin`, which takes a set) for the orders of the
naturals and of the finite sets: `ReconnectPolicyProofs!Induction` and `SalesLedgerProofs!FiniteInduction`
are induction stated of sets. With them a recursive function is first shown to exist (`DoublesExist`,
`SumsExist`) and to be unique, and then to do what it says for every argument (`Powers`; `SumWithout`: a sum
does not depend on the order in which the fold takes the elements).

No module declares a recursive operator. `StartSerialized`, `FailedHasDeadLetter`, `RedrivenIsNotSwept` and
`CopySettles` are proved and in no run.

## 5. Findings and known limits

One run shows the code contradicting what it says of itself (`PROJECT.json`, "findings"):

**`StartDuringReconnect`**: `start()` and a reconnect attempt can both be suspended at the credential fence
of a session whose engine was evicted. Neither looks at the registry again, both build an engine, and
the second registration orphans the first. `initializingSessions` does not bind the reconnect.

The properties name the other limits as exceptions. They are part of what the theorems say:

* *A delivery can be lost silently* (`Ingress`, gap `retired`). A crash after `queue.add` and before the
  event is marked leaves the event pending with its job in the queue. The sweep adds it again; BullMQ
  keeps the existing job, but the outcome is "queued" all the same (`ingress-reconciler.service.ts:182`).
  The reconciler marks the event dispatched, drops its payload and retires every dead letter of the
  delivery, the one the job's last failure has just written included. The other two gaps are `unsaved`
  (the worker's save of the dead letter throws, and nothing retries it) and `stalled` (a job that stalled
  twice is failed by BullMQ without `process`, and unlike the webhook processor the ingress processor
  listens to no failure event).
* *A long backoff restarts the budget* (`ReconnectPolicy`). The stability window is measured from the
  moment an attempt was scheduled, so a delay above five minutes counts as uptime: a budget of 8 or
  more attempts at the default delay is never spent in one outage, and the delay never parks at its
  one hour cap, as two comments say it does (`reconnect-policy.ts:112`,
  `session-engine-lifecycle.service.ts:51`). `StreaksStayShort` proves it for every base delay: no budget of
  ten or more is ever spent and no delay reaches ten minutes.
* *A status can go back* (`MessageRows`, the exception in `StatusAdvances`). The merge of a send onto the
  row of its echo writes SENT without a guard (`message.service.ts:652`), over a receipt that has already
  arrived, where `message-projector.service.ts:443` says that delivery state only advances.
* *A reaction can undo a merge* (gap `react`): it reads the metadata and writes all of it back.
* *A deleted session can keep a row* (gap `back`): the save of a send that was in flight inserts its row
  again, and the history sync does not ask whether the session is still there.
* *An exit can drop parked webhooks without a word* (`WebhookDelivery`, `parked`, `running`): with the queue
  the limiter is not closed, and what is parked is not among the deliveries in flight that the drain
  waits for and logs. A failure row that is still being written at the exit is lost too (`record`).
* *A crash can cost a plugin its stored files or its code* (`PluginLifecycle`, gaps `data` and `code`). Boot drops
  the backup of an interrupted update whenever the live directory exists, as a leftover of a swap that was
  completed (`plugin-loader.service.ts:441`). After the swap the plugin's stored files have still to be copied
  out of the backup, and a rollback removes the live directory file by file: a crash there leaves both, and
  boot deletes the only copy of the stored files, or of the working version. A file system that fails during
  a rollback may do so too (`fs`).

Outside the bounds of the passing runs the same model shows further limits, all reachable with one
more actor or fault in the configuration:

* a `stop()` during start's `session:starting` hook leaves the row at INITIALIZING with no engine;
* the catch of a `start()` whose initialize passed its deadline can find, and destroy, the engine of
  a reconnect attempt;
* a `start()` between delete's eviction and its commit survives the delete;
* a reconnect does not check the cap, so a start that took the free slot is exceeded by it;
* an initialize that rejects during a `stop()`, or passes its deadline and has its own teardown given up,
  frees the registry early: a second start gets in and the stop's late DISCONNECTED lands over its READY;
* an engine resurrected for a deleted session can launch during the logout of a namesake;
* a reconnect attempt in mid-initialize that fails after a delete's purge can leave credentials behind;
* the deadline of a reconnect evicts whatever engine is registered by then.

For the same reasons tasks together with `unlinked` and the fence's timeouts are only in `CallsFinish`, and
`SettledReady` is checked, and proved, without rejected initializes and without teardowns that are given up.

In `SalesLedger`: with `Connections = 2` (`application-prod.properties` leaves Postgres a pool of ten) all
four properties of the run `Sales` fail: two requests create one customer twice, two refunds pass the same
limit, a bill is written for a customer that a merge has just removed. With one connection, a name that
a client other than the screens sends uncapitalised is looked up as typed and stored capitalised, so
`NoDuplicates` fails when it is repeated; hence `Typed` in the run.

In `BulkMessages`: a batch saved but not yet marked when the process dies stays PENDING for ever (the
sweep looks for PROCESSING only); a run that ends with a database error leaves its batch PROCESSING
until the next start; a cancel that finds its batch just finished leaves its entry in
`processingBatches`; a cancel by another process between the sweep's read and its save is
relabelled FAILED, which is why `TerminalIsFinal` excepts the batches in `orphans`.

In `PluginLifecycle`: a crash in the middle of an install or an uninstall leaves a directory that can be
neither installed over (409) nor uninstalled (404); a plugin in ERROR that is updated is not enabled
again before the next boot; a row of an older build whose load fails at the first boot loses its
decision, which stood in its status; a plugin whose enable ends after the shutdown has listed the
enabled ones gets no `onDisable`; files that an older build stored under unencoded names are not
copied by an update. What a version stores while its update may still be taken back is not counted as
stored.

In `Ingress`: a sweep works from the rows it read, so a row that a redrive settled meanwhile is
replayed and can be delivered twice, against the comment that settled rows are never re-queued
(delivery is at least once by contract, so no property forbids it). The batch of 50 of the sweep is
not modelled: pending rows of a disabled instance hold their places in it, and 50 of them starve all
other replays. With a retry delay of 0 a job can spend its attempts between the sweep's two writes,
which is why `noBackoff` is among the faults.

## 6. Not modelled

* *Sessions*: boot auto-start, shutdown, the import's `stopOrphanEngines`, the liveness watchdog, the
  statuses QR_READY and AUTHENTICATING, emitted events. They take no part in any action above.
* *Ingress*: the checks before a delivery is persisted (signature, challenge, preflight), the batch sizes of
  sweep and redrive (50 pending rows of a disabled instance can starve the rest), retention pruning; the
  mapping of conversations and its keyed lock.
* *Messages*: text, edits and revocations (they touch the text only), status posts, the ephemeral opt-out,
  templates, the engine verbs that store nothing.
* *Webhooks*: registration, tests, filters, payload shedding, headers, signatures, pruning.
* *Sales application*: products, salesmen and dates of a bill; tickets; backup, restore and their
  scheduler; the WhatsApp client's cached session id.
* *Plugins*: downloads, configuration and session activation (single writes of the registry), built-in
  plugins and engines, ids and directories of older builds, the search provider's slot, a self-heal rename
  that no state reaches. The worker host (calls in flight across the worker's boundary and their time limits)
  and the hook manager (the order of handlers while plugins come and go): `PluginLifecycle` takes a worker as
  started, failed, dead or hung.
* *Engine adapters, rate limits, authentication, caches, storage and infrastructure*: listed in
  `PROJECT.json` with the reason. Worth modelling next: the adapters' socket generations, a session's
  engine as an abstract owner that `SessionLifecycle` implements, restore and its scheduler.

Left to unit tests: pure lookups, formatting, conversion between engine and API shapes, media
handling, dashboards and SDKs.
