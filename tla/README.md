# DynaStore: a TLA+ model of the task system

DynaStore runs its asynchronous work from one PostgreSQL table, `tasks.tasks`.
Many processes claim rows of it, run them and write the outcome, while periodic
services, operators and clients change the same rows.  Two outboxes beside it,
`tasks.events` and `tasks.storage`, carry events to their listeners and items to
the search index.  This directory models that system in TLA+, checks small
instances with TLC and proves the safety properties for all instances with TLAPS.

Paths below are relative to `src/packages/core/src/dynastore/`.

## Inventory

| Part | Where | State | What makes it hard | Module |
|---|---|---|---|---|
| Queue table, dispatcher, in-process runners | `modules/tasks/tasks_module.py`, `dispatcher.py`, `runners.py`, `execution.py`, `maintenance.py` | rows, batch in progress, heartbeat entries, registry of attempts | attempts outlive their lease; owner ids are reused; crashes and stalls | `TaskRow`, `TaskQueue` |
| What the queue promises | the same | status, holder, completions | it has to hold through all of the above | `TaskContract`, `TaskQueueContract` |
| Deduplication | `create_task`, `enqueue` | dedup key | check and insert in one transaction each; the index contains the timestamp | `TaskDedup` |
| Cloud Run Jobs | `modules/gcp/gcp_runner.py`, `main_task.py`, `modules/gcp/liveness_reconciler.py`, `modules/tasks/reconciliation.py` | an external execution, the reference to it | the executor is only observed; nested failure handlers | `CloudRunTask` |
| Event outbox, its drain, webhooks | `modules/tasks/events`, `tasks/workclass_drain`, `modules/tasks/drain_spawner.py` | outbox rows, drain rows, batches | late acks, lost triggers, one drain hiding another | `EventOutbox` |
| Leader leases | `modules/db_config/locking_tools.py`, `tools/background_service.py` | lease row, local belief | stale leader, lost answers | `LeaderLease` |
| Capability registry | `modules/tasks/capability_*.py`, `mandatory.py` | published capabilities | stale view | constant `Rejects` |
| Cache | `tools/cache.py`, `tools/cache_valkey.py` | two levels, locks | stampede, stale fill | none |
| Catalog lifecycle | `modules/catalog`, `tasks/catalog_provision`, `tasks/cascade_cleanup` | checklist, deletion state | partial failure | constant `Orphans` |
| Index obligations | `modules/storage/storage_emit.py`, `obligation_sweep.py`, `index_dispatcher.py`, `modules/catalog/item_service.py`, `item_query.py`, `tasks/workclass_drain/storage_drain_task.py` | items, their index copies, rows that call for a copy | a write and its row commit apart; documents wait while items change; bulks fail in part | `IndexSync` |

The correctness properties looked for are: work that is queued settles; work
that is done is done once; retries are bounded; ownership is never ambiguous;
a client's dismissal means what the API says; the index comes to hold the items
as they are.  `PROJECT.json` lists every component and hazard with the properties
that cover it.

## Modules

**`TaskRow`** is one row and the SQL statements on it.  A row keeps the columns
that guards read: `status`, `owner` (`owner_id`), `lock` (`locked_until`
compared with `NOW()`: null, future, past), `retry` and `confirmed`
(`dismiss_confirmed_at`).  A statement is a function from row to row and its
WHERE clause a predicate: `Claimable`/`Claimed`, `Reapable`/`Reaped`, and so on.

**`TaskQueue`** is the system around the rows.

| Variable | In the code |
|---|---|
| `row` | the table |
| `att[t][n]` | the n-th claim of `t`: a `_dispatch_one` call and the background coroutine it may start |
| `claims` | the number of claims so far |
| `hb`, `snap` | `BatchedHeartbeat._owned` and the snapshot a `_flush` works on |
| `reg` | `BackgroundRunner._task_registry` |
| `up` | FALSE from `shutdown_event.set()` until the process is replaced |
| `dismissal`, `cancel` | a `dismiss_job` between its steps; stop signals under way |
| `fired` | history: follow-ons created by `apply_terminal_action` |

An attempt moves `claimed` → (`queued` →) `running` → `check` → `route` →
`finish` → `done`; each arrow is a point where the code awaits and others can
run.  Cancellation leads through `cancelled`, `stamp` and `giveback`.  A crash
leaves it `dead`.  Runner ids are stable across restarts (`_runner_id`), so a
restarted dispatcher can match rows claimed by its predecessor.

**`TaskContract`** says what the queue promises to those who submit tasks, with
no rows, processes or time: a task is open or held, only its holder's completion
is accepted, one completion ever is, and only a failed task is opened again.
**`TaskQueueContract`** maps the queue onto it (`status`, `owner_id`, the
completions that matched their row).

**`CloudRunTask`** is one task run as a Cloud Run Job, on the rows of `TaskRow`.
`spawn` are the calls of `GcpJobRunner.run` with the dispatcher's handling of
their result, `job` the executions and their containers (`main_task.py`), `ref`
the column `runner_ref`, `rec` a reconciler between its read and its write, `hb`
the dispatchers whose heartbeat has an entry for the task.  `Faults` says what
may go wrong in a run of the model; containers can always be killed.

**`EventOutbox`** is `tasks.events` with everything that moves its rows:
emitters and their drain trigger, drain rows in the queue, drains in process
(behind the single-flight gate) and in Jobs, webhook tasks, the recovery tick,
and the operator's requeue.  Ids of finished drain rows and runs are used again;
`Gone` stands for the owner ids of all runs that are over.

**`LeaderLease`** is one row of `configs.leader_lease`, with the leader loops of
both regimes and the renewal coroutine.  Time is discrete and kept as what is
left until, or has passed since, an event, so that no clock grows.

**`IndexSync`** is the search index of a set of items and `tasks.storage`, whose
rows call for its upkeep.

| Variable | In the code |
|---|---|
| `hub`, `deleted` | the `write_id` and `deleted_at` of each hub row |
| `writer` | an `ItemService.upsert` between preparing its batch, committing its chunks and the post-commit row |
| `storage` | `tasks.storage`: rows that name a whole write (`Ledger`) or one item, with `status`, `op` and `claimed_by` |
| `masked` | items for which the sweep's `created_at` bound takes an older row for one of this write |
| `index` | the write each document of the index was built from |
| `run` | the drains: the batch, the ledger row in hand, the documents read and not sent, the outcomes not written |
| `gate`, `handoff` | `DrainSingleFlightGate("storage")`; a `storage_drain_offload` task to be taken up |

A drain claims a batch (`Claim`), reads the items of each ledger row (`ReadLedger`,
`ReadDoc`) and sends them in bulks (`FlushLedger`), then does the same for the
item rows (`ReadRow`, `FlushRows`), and writes each outcome (`Mark`); between any
two of these others write, delete and drain.  `Offload` are the runs that take no
gate, `FailOpen` those that go on when the gate cannot be reached.

**`TaskDedup`** is one dedup key: the calls that create rows under it, each with
its pre-check, insert and commit as separate steps under READ COMMITTED, and the
status changes that free and take the key.

Modules whose name begins with `MC` instantiate these for TLC
(`MCTaskQueueRefusal`: dispatcher `d1` refuses task `t1`); those that end in
`Proofs` have the proofs, and `IndexSyncWrites` the part of the index proofs that
needs nothing of the gate.  Definitions whose comment begins "A plausible bug" are
variants of the one they precede; no specification uses them.  Put in its place,
each one violates the property it was written for, which shows that the property
depends on that code.

### Abstractions

- Each SQL statement is one atomic step.  This hides one window inside
  `claim_batch`: under READ COMMITTED its locking SELECT re-checks only the
  status of a row that changed after the candidates were chosen.
- Time is the three values of `lock`.  A lease may run out under a running
  attempt, as it does when the event loop stalls.
- `claim_batch` takes any set of claimable rows; ordering, lookback, batch size
  and one-row-per-catalog only restrict that choice.  Likewise the semaphore
  admits any waiting attempt.  `claim_next`, which has no cap check, has no
  caller besides the protocol method and is left out.
- Capabilities are the constant `Rejects`; a deleted catalog is `Orphans`.
- Follow-on tasks are recorded in `fired`, not executed; the depth guard and the
  dedup of follow-ons are left out, as is the provisioning checklist that
  `apply_terminal_action` drains first.
- No caller of `BackgroundRunner.lifespan` was found outside its own module.
  The model allows both wirings: a draining process may or may not cancel its
  background attempts, and a stop signal may never arrive.

- In `CloudRunTask` the heartbeat entry is made with the claim; the flush and its
  snapshot are in `TaskQueue`.  `get_task` is read as if it were not cached.  No
  handler of SIGTERM was found for the job process, so both a kill without a
  write and a `CancelledError` are possible at any time.  Tasks are offloaded;
  the in-process fallback for other tasks is `TaskQueue`.
- In `EventOutbox` a batch is delivered in any order, errors of the trigger and
  of the webhook tasks are swallowed as in the code, and a bound on the faults
  of one behaviour (`MaxFaults`) stands for their being rare.
- In `LeaderLease`, `Latency` bounds the time from the start of a CAS to the use
  of its answer, `pre_tick_probe` included, and `Prompt` says that the event loop
  is not starved.  With a starved loop `renew_lease`, which issues the same CAS as
  the acquisition, can also take over a lease another process let expire.
- In `IndexSync` a document is the number of the write it was built from.  An item
  deleted and written again is another hub row, so a delete is final except for an
  upsert that found the row before.  One driver is indexed; batches of several are
  independent.  A lease or a backoff may have passed at any time.  The sweep sees
  every item; in the code it looks at a window of three intervals that ends five
  minutes ago, so `Converges` takes it that a tick falls into the window of each
  write.  A bulk whose call times out takes effect before the call returns or not
  at all; one that the index applies later still is not modelled.

## Runs

| Run | Instance | Shows |
|---|---|---|
| `queue_leases` | 1 task, 2 dispatchers, limit 2, 3 claims | `ActiveRowReachable`, `AttemptsBounded`, `EventuallySettled` |
| `queue_requeue` | 1 inline task, a refusing and an accepting dispatcher, 3 claims, both requeue modes, orphaning | `TypeOK`, `ActiveBelowHardCap` |
| `queue_contract` | 1 task, 1 dispatcher, 2 claims; dismissal, requeue, purge, orphaning | `ReleasedRowUnowned`, `CompletionLandsOnce`, `SuccessRoutedOnce`, `CompletedIsFinal`, and `ContractKept`: `TaskQueue` implements `TaskContract` |
| `cloud_run` | 3 spawns, 3 jobs of 2 container attempts, dismissal, a job type that is gone, lost references | `TypeOK`, `NoDoubleRun`, `OneAttempt` |
| `cloud_run_again` | 1 spawn, 2 jobs, a reconciler, every fault | `AbandonedReclaimed` |
| `outbox` | 2 events in batches of 2, 1 drain row, 2 runs, 1 fault; processes are replaced | `AckedMeansHeard`, `ClaimsSettled`, `Drained` |
| `outbox_webhooks` | 1 event, 2 drain rows, 2 runs, 1 fault, requeue, processes without a bus, a subscriber | `TypeOK`, `ClaimsDisjoint`, `Bookkeeping`, `RetriesSpent`, `WebhookBeforeAck`, `SettledStays` |
| `lease_tick` | 3 processes, 2 of which may die; per-tick leases | `TypeOK`, `SingleLeader`, `TickWithinLease`, `OverrunBounded`, `LiveLeaseUntouched` |
| `lease_heartbeat` | 2 processes, one of which may die; renewed leases | `OverrunBounded`, `Tenure`, `Knowledge`, `LedAgain` |
| `index_sync` | 1 item, 2 writes, 2 drains in batches of 2, 3 faults | `TypeOK`, `InOrder`, `DoneMeansIndexed`, `IndexedStays`, `Converges` |
| `dedup` | 3 calls, 2 instants, 1 requeue | `OverlapOrRequeue`, `OneRowPerInstant`, `Relied` |

Bounds: `MaxClaims` caps the claims of a task.  Two claims are what it takes for
a stale and a current attempt to overlap; in `queue_leases` it is one above the
attempt budget, so the bound does not enforce `AttemptsBounded`.  In
`queue_requeue` it is three, because a row needs two charged claims to reach the
hard cap and only a third could execute it there; the task is inline, which
keeps the row histories and drops interleavings that other runs cover.  `HardCap` is
below `MaxRetries` in two runs and above or equal in the others, so both sides
of `LEAST` decide.

A double run needs two spawns; `cloud_run` has three, and as many jobs, so that
a refusal, a take-over and a platform retry meet.  It has no reconciler: with
one and three spawns `NoDoubleRun` fails as a consequence of `v_wrong_execution`.
It leaves out the faults under which two containers do run: a `RunJob` that gives
up (`v_double_run`), one whose answer is lost, a stall longer than the lease, and
a container that fails before its claim.  `cloud_run_again` has them all.

A lost trigger or a batch that is half delivered takes two events, an overlap of
claims two drain rows and runs; both at once are out of reach, so `outbox` has
the events and `outbox_webhooks`, whose properties concern one event, the rows.
In the lease runs `TTL` is chosen so that each of `Skew`, `Renew` and `Latency`
decides at some point; a third process lets a lease change hands twice under one
tick.  Three calls are the least for a requeue to meet two later rows.

In `index_sync` two writes are what it takes for a document to be stale, and two
runs for one to meet the gate of the other.  Three faults let two upserts leave
item rows and the bulk of both fail in part.  A second item, with one fault, gives
1.7 million states and no error either; it takes too long for a regular run.

The invariants of all modules are proved for all values; liveness is checked only
on these instances.  Where deadlock is not checked the
system may come to rest.

Fairness (`FairSpec`): an attempt's next step is taken, since bodies return,
raise or time out; the reaper runs periodically; a dispatcher that can claim a
row again and again eventually does, in spite of restarts (strong fairness); a
flush in progress ends; a drained process is restarted; a lock nobody renews
runs out.  Nothing is assumed of clients, operators, crashes or sweeps.
Liveness is checked without dismissals: a heartbeat entry left by
`v_heartbeat_leak` can renew a lease for ever, and a dismissed row is settled.

`CloudRunTask`: leases run out, the reaper comes to the row in the end, and no
spawner or container stands still for ever (Cloud Run kills it at its timeout).
Strong fairness of `Reap` is needed because a reconciler that finds no reference
may extend the lease again and again.  `EventOutbox`: dispatcher, reaper and
recovery tick come round, the tick's insert does not fail for ever, a drain goes
on and backoffs elapse; `RecycledSpec` adds that no process lives for ever, as
deployments and autoscaling see to; `v_drain_stuck` shows that it is needed.
`LeaderLease`: time passes, loops that can step do, and not every statement of a
process fails.  `IndexSync`: the supervisor's sweep comes round, a write or the
recovery tick starts a drain, a drain goes on, and rows that are due again and
again are claimed in the end (strong fairness: in between no `ready_at` or lease
may have passed); an upsert need never finish.  No emitter, client or operator is
ever owed a step.

### Where the code and its comments differ

Each configuration `v_*.cfg` checks one statement from a comment, a docstring or
a document, and TLC finds it violated by what the code does.
`v_permanent_retried` is among the runs of `PROJECT.json`; the others are kept
for the traces they give.  They run with the `MC` module in the third column
(`tlc -config v_x.cfg <module>`).

| Configuration | What happens | Module | Statement |
|---|---|---|---|
| `v_routed_once` | a slow attempt that failed into a retry reads the next attempt's DEAD_LETTER; both create the on_failure follow-on | `MCTaskQueue` | `RoutedOnce`, `modules/tasks/dispatcher.py:1117` |
| `v_dismissed_retried` | the failure write of an attempt under way moves a DISMISSED row to PENDING | `MCTaskQueue` | `DismissedNotRetried`, `modules/tasks/maintenance.py:219` |
| `v_finished_dismissed` | a job finishing between `dismiss_job`'s read and write loses its terminal status | `MCTaskQueue` | `FinishedNotDismissed`, `modules/tasks/execution.py:1038` |
| `v_heartbeat_leak` | cancellation before the semaphore leaves a heartbeat entry behind | `MCTaskQueue` | `HeartbeatEntryHeld`, `modules/tasks/dispatcher.py:973` |
| `v_heartbeat_dropped` | a stale attempt unregisters the running attempt's entry | `MCTaskQueue` | `RunningIsHeartbeated`, `modules/tasks/runners.py:712` |
| `v_capped_row` | a row requeued by type at the hard cap stays PENDING for good | `MCTaskQueue` | `CappedRowDeadLettered`, `modules/tasks/tasks_module.py:2597` |
| `v_refusal` | a late refusal resets the row of a later claimant | `MCTaskQueueRefusal` | `RefusalReleasesOwnClaim`, `modules/tasks/dispatcher.py:874` |
| `v_double_run` | a spawner whose RunJob gave up fails the row under its dispatcher's id when that dispatcher has claimed it again; two more spawns then both take the row over and start a job | `MCCloudRunTask` | `NoDoubleRun`, `main_task.py:354` |
| `v_wrong_execution` | `runner_ref` names an earlier execution, whose end ends the running attempt | `MCCloudRunTask` | `ReconcilerSpares`, `modules/gcp/liveness_reconciler.py:580` |
| `v_completed_undone` | a container that found nothing to claim exits 0, and the reconciler completes the row | `MCCloudRunTask` | `CompletedMeansDone`, `main_task.py:427` |
| `v_finished_rerun` | a container that fails before its claim queues a completed task again | `MCCloudRunTask` | `CompletedStays`, `modules/tasks/tasks_module.py:3538` |
| `v_permanent_retried` | the outer handler of `main_task.py` retries what the inner one failed for good | `MCCloudRunTask` | `PermanentStays`, `main_task.py:246` |
| `v_cloud_confirmed` | a dismissal is confirmed for want of a reference, while the container runs | `MCCloudRunTask` | `ConfirmedMeansStopped`, `modules/gcp/liveness_reconciler.py:395` |
| `v_dead_job_kept` | the dispatcher's heartbeat entry outlives the Job and keeps its row ACTIVE | `MCCloudRunTask` | `DeadJobReclaimed`, `modules/tasks/dispatcher.py:973` |
| `v_drain_stuck` | the same entry on a drain row keeps the outbox from being drained | `MCEventOutbox` | `Drained`, `modules/tasks/drain_spawner.py:42` |
| `v_never_dropped` | drains without an event bus use up the retries of an event | `MCEventOutbox` | `NeverDropped`, `tasks/workclass_drain/event_drain_task.py:454` |
| `v_webhook_once` | an event delivered again after its webhook task completed is posted again | `MCEventOutbox` | `WebhookOnce`, `tasks/workclass_drain/event_drain_task.py:642` |
| `v_index_stale` | an offload run starts beside an in-process one; the document the latter read before a delete goes to the index after it, and the row of the delete is done | `MCIndexSync` | `DoneMeansIndexed`, `tasks/workclass_drain/single_flight.py:22` |
| `v_sweep_masked` | a row the sweep inserted while an upsert was under way hides that upsert's own missing row from later sweeps | `MCIndexSync` | `SweepFindsAll`, `modules/storage/obligation_sweep.py:56` |
| `v_tick_outlives` | a tick started before a failed renewal outlives the lease by more than the margin | `MCLeaderLease` | `TickWithinLease`, `modules/db_config/locking_tools.py:799` |
| `v_one_runnable` | two overlapping calls insert a row each | `MCTaskDedup` | `OneRunnable`, `src/docs/architecture/distributed-tasks.md:144` |
| `v_declined` | a dismissed row declines later calls with its key | `MCTaskDedup` | `DeclinedForATask`, `modules/tasks/tasks_module.py:2382` |

`v_refusal` needs a stall longer than the lease between a claim and its refusal.
With `Faults = {"lost answer"}` a single spawn violates `NoDoubleRun`: `RunJob` is
repeated, and two containers with one execution id both claim the row.

## Proofs

`TaskQueueProofs` proves, for any tasks, runners, limits and `MaxClaims`, from
the named assumptions of `TaskRow` and `TaskQueue` (typing of the constants,
and that `Nobody` is no runner): `TypeOK`, `ActiveRowReachable`,
`ReleasedRowUnowned`, `ActiveBelowHardCap`, `CompletionLandsOnce`,
`SuccessRoutedOnce`, `AttemptsBounded` and the action property `CompletedIsFinal`.

None of the deep ones is inductive.  `Inv` adds what they rest on:

- `RowInv`: a released row has no owner.  So the owner guard of a stale attempt
  can match only a row that some claim made ACTIVE, or that was dismissed or
  dead-lettered from there.
- `SuccessInv`: a completion leaves the row unowned in a status from which
  nothing leads back to the queue.  A second completion needs an owner.
- `AttemptInv`: only an attempt whose write landed reaches
  `apply_terminal_action`, so each follow-on belongs to a landed write.
- `BudgetInv`: every claim but the current one has been charged to `retry`.
- `RegInv`: the registry names attempts that were made.

`TaskInv` states them for one task.  Lemmas on rows show that each statement
keeps it; lemmas on attempts that moving on keeps it; `Claim`, `End` and
`FireRoute` have arguments of their own; and a last group lifts this to states.

`TaskQueueContractProofs` proves that the queue implements `TaskContract`.  `Inv`
supplies what the mapping needs: a row that is granted has no owner, and a
completion finds no earlier one.  Each action maps to one step of the contract
or to none.

`LeaderLeaseProofs` assumes `Latency <= Skew < TTL` and `Renew + 2 * Latency <=
TTL`, which the defaults (30, 5, 10 s) satisfy.  The inductive invariant is
`Knowledge`: what a process may conclude about the lease from where its loop and
its renewal stand.  It gives `OverrunBounded` and `Tenure`, and for per-tick
leases `TickWithinLease` and `SingleLeader` (two ticks would need two owners).
`LiveLeaseUntouched` follows from the WHERE clauses alone.

`EventOutboxProofs` proves `TypeOK`, `Bookkeeping`, `ClaimsSettled` and
`RetriesSpent` together: `Bookkeeping` says when a run may hold a row at all, and
`ClaimsSettled` that the owner and version in the row are the ones the run will
present.  From these come `AckedMeansHeard`, `ClaimsDisjoint` and `SettledStays`.
`WebhookBeforeAck` is inductive on top of them because it covers the events a run
is going to acknowledge: delivering one announces it first, an announcement is
never taken back, and only an acknowledgement completes an event.

`CloudRunTaskProofs` proves `TypeOK` without conditions.  `OneAttempt`, and with it
`NoDoubleRun`, hold where there is no reconciler and `Faults` has at most `lost
ref`, `dismissal` and `no job`; each of the others, and a reconciler, makes
`NoDoubleRun` fail (above).  The argument runs on the row.  A dispatcher claims it
PENDING, when nobody has it; while a spawn prepares, the dispatcher's heartbeat
keeps the lease and only a dismissal takes the row away; a container finds it
PENDING, lapsed or under its own id, which no other job has.  So `OneAttempt`
relates the spawns (`SpawnsTold`), the containers (`BusyTold`) and the ids of the
jobs (`JobsTold`) to the row; the first two are inductive only together.

Two statements that fail in general (`v_finished_rerun`, `v_completed_undone`) are
proved for what the code does ensure.  Under the conditions of `OneAttempt` a
COMPLETED row stays COMPLETED (`CompletedOnce`): nobody has such a row, so each
write that is left asks for another status.  Where `Faults` has at most `lost ref`,
a row is COMPLETED only if the body returned (`CompletedForReason`); `dismissal` and
`no job` are excluded because the dispatcher completes the row on an empty result
of `run`.  The invariant adds `DoneTold`: no result is empty, and a container about
to write its outcome has seen the body return.  No passing run checks these two as
properties; TLC found no error in them on instances of `cloud_run` (660,466 and
402,846 states).

`IndexSyncProofs`, on lemmas about the writers in `IndexSyncWrites`, proves
`InOrder`, `DoneMeansIndexed` and the action property `IndexedStays` for any items,
writers, runs, batch size and faults, where every run passes the gate
(`Offload = {}`, `FailOpen = {}`); `v_index_stale` shows that this is needed.
`InOrder` is the inductive invariant.  Its heart is `DocInOrder`: a document in the
hands of a run is the item as it is now if the index holds that, or if a row for
the last write is with the run or done.  It survives a write, because the row of
a new write is neither claimed nor done and the index does not hold it yet; it
survives a claim, because the gate leaves no other run with documents; and it makes
a bulk harmless, in whole or in part, because what is applied replaces nothing
newer.  `LedgerInOrder` says the same of items still to be read, `RowsInOrder` and
`WritesInOrder` when a write has a row and which ids are still free, and
`RunInOrder` that an outcome is `done` only when the index holds the items.

`IndexSyncWrites` proves what holds whether or not the runs pass the gate: `TypeOK`;
that a tombstone has the row of its delete (`TombstoneHasRow`); and that a row that
is done or dead is never touched again (`SettledRowStays`).  The invariant is
`Sound`: `Recorded`, the part of `InOrder` about writes, rows and ids; `Fenced`, that
a row with an owner is in flight, so that the owner and version a flush presents
match no settled row; and `InHand`, about the rows a run has.  The last two theorems
are not properties of a run; TLC found no error in them with a run that fails open
(1,128,471 states).

`TaskDedupProofs` proves `Relied`, what a call between its check and its commit
relies on, together with `OneRowPerInstant`; `OverlapOrRequeue` follows.

Only model-checked: `EventuallySettled`, `AbandonedReclaimed`, `Drained`, `LedAgain`
and `Converges` (liveness is outside what the proof system handles).  Every
invariant and action property of a passing run is a theorem.

## Not modelled

- The READ COMMITTED windows inside a single statement of `claim_batch` and of
  the bulk requeue of events.
- The cache, the catalog's provisioning checklist and deletion cascade, the
  fan-out to synchronous secondary drivers: they have protocols of their own and
  are candidates for modules.
- Request handling, formatting, geometry and rendering, policy evaluation and
  configuration resolution: computation or I/O without a protocol between
  concurrent parties.
- `tick_timeout = 0`, documented in `tools/background_service.py` as disabling
  the timeout, reaches `wait_for(timeout=0)` in `run_leader_loop`; the model has
  services with a positive timeout only.
