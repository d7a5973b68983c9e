# Verification of backendLab: access, payments, builds, stages and LLM calls

backendLab is a FastAPI service (one uvicorn process, PostgreSQL through
SQLAlchemy) in which a workspace defines a software product with an assistant,
buys or is granted *blueprints*, and has the deliverables of a blueprint
generated in background tasks. This directory holds TLA+ models of the six parts
where its logic is really stateful, the TLC runs that check them on small
instances, and TLAPS proofs of their safety properties for every size. Paths below are
relative to the repository; services are under `src/app/services/`.

    tlc -workers 2 -config MCQuotaLine.cfg MCCommercialQuota
    tlc -workers 2 -config MCBuildQueue.cfg MCProductBuild
    tlc -workers 2 -config MCProviderSales.cfg MCProviderSales
    tlc -workers 2 -config MCLlmRuntime.cfg MCLlmRuntime
    tlc -workers 2 -config MCStageProposals.cfg MCStageProposals
    tlc -workers 2 -config MCStageOperations.cfg MCStageOperations
    for m in AccessDecisions CommercialQuota QuotaPasses ProductBuild ProviderSales \
             LlmRuntime StageProposals StageOperations; do tlapm ${m}Proofs.tla; done

`PROJECT.json` lists the components, the runs, the source lines each definition
translates (`map`), one deliberate bug per property that makes its run fail
(`mutants`), the hazards, the findings and the theorems.

## 1. Inventory

### How a request runs

A route gets one database session; the route, not the service, usually commits,
at the end. Three things break that pattern, and they are where the models look:

* a service that commits in the middle of its caller's work (the build that
  approving a Blueprint Pro request starts, `commerce_service.py:1762`);
* `BackgroundTasks`, which run after the response, in a thread, with a session of
  their own and many commits (the product build, diagrams, stage operations);
* services that call each other back (quota synchronisation -> FIFO pass ->
  approval -> quota initialisation -> quota synchronisation).

Nothing is persisted about a running task except what its transactions wrote, so
a restart of the process loses the task and keeps its rows.

### Components

| component | state it keeps | operations | talks to | hard behaviours | correct when |
|---|---|---|---|---|---|
| **Commercial quota, requests, debts, package credits** (`commerce_service.py`, `commercial_quota_service.py`, `commercial_debt_service.py`, `commercial_package_fulfillment_service.py`, `commerce_provider_fulfillment.py`) | requests, balance buckets, ledger, debts, entitlements, orders | ask, approve (automatic, manual, FIFO), dismiss, settle, pay, credit a package, edit a policy | product build (commits), webhooks (fulfilment), journey (is Blueprint Free complete) | mutual recursion, commits inside the call stack, repeated payments, crash between commits | units, ledger, decisions and debts agree; decisions are final; passes are first come first served |
| **Product build and its queue** (`product_processing/*`) | run row with a JSON column for the queue, steps, generation jobs | enqueue, reconcile, generate in batches, retry once, recover orphans, seal | deliverable catalog, diagram center | overlapping requests and tasks on one JSON column, restart, stale reads, timeouts | a queue stays with its task, dependencies first, a clean end means built, the queue ends, the seal is permanent |
| **Provider webhooks** (`mercadopago/`, `rebill/`, `rapyd/`, `payu/`, `hotmart/webhooks.py`) | event rows, orders, payments, entitlements, session tiers | receive, deduplicate, verify, confirm with the provider, fulfil, revoke, record a conflict | commercial core (fulfilment commits half way), product build | forged, repeated, reordered notifications; failed lookups; failure after the event row is stored | access follows what the provider was paid for, once per cause |
| **Hotmart activations and synchronization** (`hotmart/pending_activations.py`, `hotmart/sync.py`) | sales without a session, reconciliation issues | register, claim, fetch, reconcile, resolve, replay | webhooks, commercial core | two claims at once, a claim cut off half way, a refund before the claim, a tier read before and written after | one sale, one session; only a restart leaves a paid sale without its access |
| Payment adapters, secrets | none | HTTP calls | providers | - | - |
| Commercial access snapshot, catalog, rollout | none of their own | projections | commercial core | - | - |
| Deliverable catalog and generation | jobs, versions | create job by idempotency key, generate, record | product build | a job in progress counts as available | a key never makes two versions |
| Diagram center | diagram jobs, versions | generate, review, render | product build | user and queue generate the same diagram | as above |
| Product journey | activation records | evaluate the state from snapshots | all | - | states follow the documents |
| Backlog, enrichment, progress sync | projections | rebuild | journey | - | - |
| **LLM router, CLI queues, usage ledger** (`llm_runtime/*`, `llm_finops/ledger_service.py`) | semaphores, audit log, usage rows | route, fall back, shadow, wait for a slot, run, kill, record usage | every stage route | timeouts, a full queue, failures nobody classified, one log shared by all calls | a call ends in one answer; slots come back; usage belongs to its call |
| **Stage proposals** (`stage_proposal_service.py`, `journey_stage_migration.py`, `api/routes/sessions.py`) | versions of each stage's proposal, canonical rows | generate, create, patch, approve, reject, backfill, edit the blueprint | LLM calls (between two transactions), product build | inputs changed while a proposal is generated; old projects; a blueprint shared by three stages | approvals rest on approvals; nothing withdrawn comes back |
| **Stage operations** (`api/routes/sessions.py`) | rows of `stage_operations`: status, cancellation, heartbeat, attempts, result | start, resume, cancel, retry, poll, recover; a background task per attempt | stage routes, LLM calls | restart, cancellation between a look and a write, expired heartbeat of a living task, two requests on one row | a cancellation stops at the next checkpoint; every operation ends |
| Agentic runtime | rounds of a loop, checkpoints | run, resume | LLM router | a resumed checkpoint that is out of date | the loop ends |
| Attention inbox, ACP workflow, export delivery | decisions, phases, attempts | decide, refresh, deliver | journey | a refresh while a user decides | a decision is not lost |
| Recommendation, rules, estimation, memory, auth, reports, migrations | documents and tables | transform, store, look up | - | - | functional tests suffice |

The full list, with the reason for each part that is not modelled, is in
`PROJECT.json` under `components`.

## 2. Modules

| module | what it is |
|---|---|
| `QuotaBuckets` | constant-level functions of `commercial_quota_service.py` and `commercial_package_fulfillment_service.py` on the buckets of a workspace: effective status, balance, the bucket a unit is taken from, synchronising the free bucket, stacking subscription periods |
| `CommercialQuota` | the state machine of one workspace; EXTENDS `QuotaBuckets` |
| `AccessDecisions` | the abstract promise about requests: opened once, decided once, one decision books at most one unit. `CommercialQuota` implements it (`Decisions`) |
| `AccessDecisionsProofs`, `CommercialQuotaProofs` | theorems: the accounting of requests, units and debts, and the refinement |
| `QuotaPassesProofs` | theorems about what a thread does over several calls: passes, payments, charges; and about periods |
| `MCCommercialQuota` | small instances |
| `ProductBuildQueue` | the queue of one Blueprint Pro run |
| `BuildContract` | the abstract promise about deliverables: one job at a time, dependencies first, never again once built, sealed only when all are built. `ProductBuildQueue` implements it (`Contract`) |
| `ProductBuildProofs` | theorems: who ends or reopens a queue, clean ends, the order of first jobs, the seal |
| `MCProductBuild` | small instances |
| `ProviderSales` | sales at five payment providers: their notifications, Hotmart claims, the synchronization |
| `SaleContract` | the abstract promise about a sale: one session for ever, access changes once per cause. `ProviderSales` implements it (`Promise`) |
| `ProviderSalesProofs` | theorems: owners, tiers, paid access, confirmed agreement, lost access, the refinement |
| `LlmRuntime` | capability calls: routes, slots, attempts, timeouts, the usage ledger |
| `LlmRuntimeProofs` | theorems: permits and running processes, the limit of a semaphore, the artifact a call returns |
| `StageProposals` | the versions of the stages Discover to Memory and the canonical rows |
| `StageJourney` | the abstract promise about stages: accepted only while all before stand, a change reopens those after. `StageProposals` implements it (`Journey`) |
| `StageProposalsProofs` | theorems: approvals on approvals, rows, no revival, the refinement |
| `StageOperations` | asynchronous operations of a stage: the row, its tasks, and the requests about it |
| `StageOperationsProofs` | theorems: cancellation stops at the next checkpoint, only a restart strands an operation |
| `MCProviderSales`, `MCLlmRuntime`, `MCStageProposals`, `MCStageOperations` | small instances |

### CommercialQuota and the code

| state | code |
|---|---|
| `config` | `resolve_effective_quota_config`: workspace override over the quota product |
| `bucket` | `commercial_workspace_balance_buckets`, by product and key (`free`, or the order) |
| `request`, `ledger`, `debt` | `commercial_access_requests`, the consume entries by `access_request_id`, `commercial_debts` |
| `ent`, `paid` | active entitlements, `paid_at` of orders |
| `applied` | ghost: how much of an order's payment was applied to debts |
| `stack`, `dirty` | the call stack of a request thread, and which thread has uncommitted rows |

A handler (`RequestAccess`, `ApproveManually`, `Dismiss`, `CloseAuthorized`,
`SettleDebt`, `PaymentSuccess`, the two policy edits) starts when no transaction is
open and either is one step or pushes frames, one per call the code makes, in the
code's order. The steps run the frame on top: `InitStep`
(`initialize_workspace_commercial_quota`, one `sync_workspace_free_bucket` per
turn), `FifoStep` (one turn of `process_pending_access_requests_fifo`),
`ChargeStep` (what `_auto_approve_access_request_from_workspace_balance` does after
the initialisation), and the parts of fulfilling an order. Frames make the mutual
recursion explicit: an initialisation that enlarges the free bucket pushes a FIFO
pass, which pushes an initialisation. `dirty` gives transactions their
atomicity: while a thread has uncommitted rows no other thread takes a step, and
only the commits inside `ChargeStep` and `AuthorizeStep` (a build starts for a gated product)
release it in the middle of the stack. `Crash` drops such a stack.

`CloseAuthorized` takes the open requests of an authorized session and pushes a frame with
their list, as the loop at `commerce_service.py:2337` does; `AuthorizeStep` approves one
of the list per turn. A turn with a gated request commits (line 2371, then 1762), so other threads may
charge, dismiss or approve requests still on the list, and a crash may cut the loop.
The next turn approves its request all the same, since the loop does not read the status again.
Hence an approval of mode `authorized` may replace another decision: `FundingMatchesDecision`,
`DebtsAddUp`, `DecisionsAreFinal` and `AccessDecisions` (with `closing`, the requests on
such a list) say exactly what that may change and what it may not: no unit is returned or taken twice.
`MCQuotaRedecided` shows a decision written over.

Abstracted: money is integer cents, one currency; consumption is one unit, the only
quantity callers use; ties in the consumption order are broken in any order;
buckets keep only the sticky status `canceled`, since every read recomputes the
rest; the result of the build is not in this model. Serial transactions are an
assumption (see hazards with a note: two transactions that consume from a bucket
without a row lock could lose an increment; that question is planned as a module of
its own).

### ProductBuildQueue and the code

| state | code |
|---|---|
| `run` | the row of `product_build_runs`: `queue` (id, status, selected) and `done`, `blocked` are keys of one JSON column; `lifecycle` and `sealed` are columns |
| `step` | `product_build_steps`: status and `attempt_count` |
| `job`, `keyed` | an item's latest generation job, and jobs by idempotency key (item, queue, phase) |
| `stepFresh`, `jobFresh` | rows updated in the last 15 minutes (`ORPHANED_JOB_TIMEOUT`) |
| `tasks`, `worker` | background tasks not begun, and what each task thread has in hand |
| `manual` | diagrams a user generates in the diagram center |
| `read` | the run row as an overlapped request read it |

Requests are `Reconcile`, `Refuse` and `Enqueue` (two modes). The work they do on the
rows is a chain of functions that follows the code: `Recovered`
(`_recover_orphaned_processing_queue`), `Synced` (`_sync_expected_steps`),
`Finalized` (`_finalize_run_from_steps`). `Commit` writes what SQLAlchemy writes: only
the columns that changed since the row was read, the JSON column being one.
A task is `Begin`, `NextBatch`, then for each item in hand `BeginItem` and one of
`SkipItem`, `BlockItem`, `AdoptItem`, `Generate` followed by `EndItem`; `Retry` starts the
second pass and `Finish` ends the queue.

Abstractions, and what they cost:

* A request is `Read` and later one step, at which it decides and commits; a request
  nobody overlaps with is one step. So rows other than the run's are read at
  commit time. `MaxReads` bounds how many requests overlap.
* A worker's transactions are atomic: it reads the run row and writes it at once.
* An item's catalog access is only "available" or not; locked, stale and
  quality-failed access are left out, so runs are of a workspace that may generate.
* `queued`, `updating` and `generating` jobs are one status, and so are `error` and
  `requires_attention`: the code treats them alike in every guard modelled.
* The ACP product (whose diagrams do not block), inline execution, and the
  estimates that choose a batch are left out; a batch is any set of ready items up
  to the batch size, which contains the code's choice.
* A diagram's two commits (version, reconcile) are one.
* Queue id 0 is the queue of a request that found nothing to do.
* `CloseJobs`: the code closes users' jobs of failed items only when they have not
  started; whether one started is a nondeterministic choice.
* `QuarterHour` is only taken when nothing works: generations are taken to last less
  than 15 minutes. What happens otherwise is a hazard with a note.

### ProviderSales and the code

| state | code |
|---|---|
| `remote`, `sent` | external: the sale at the provider, and the notifications it sent |
| `event` | `processing_status` of the webhook event rows |
| `order`, `payment`, `ent` | `commercial_orders`, `commercial_payments`, `commercial_entitlements` of a sale |
| `tier` | `commercial_tier` of a session, as its rank |
| `pending`, `issues` | `hotmart_pending_activations`, `hotmart_reconciliation_issues` |
| `hook`, `claim`, `page` | the handler that committed half way, the claims in their threads, what a synchronization fetched |
| `counted` | history: the notifications and claims that changed an access, for `SaleContract` |

Webhook routes are `async` and never await while they work, so the event loop handles one
notification at a time; claims and the synchronization run in threads and
interleave with them. Anything sent may arrive again at any time, in any order.
`Genuine` is what passes the signature and the deduplication (`Fresh`), `Verdict` what
the notification then means: Mercado Pago and Rebill ask the provider, the others
believe the notification. `Approve`, `Grant` and `Finish` are the stretches of a
fulfilment between its possible commits (the FIFO pass of the package credit and the
activation of a build); a claim is `ClaimRead`, then `ClaimPay` and `ClaimGrant`, or
`ClaimWhole` when nothing commits between them, then `ClaimMark`. `Crash` loses the
handlers and keeps the rows. Left out: amounts, partial refunds, ignored events, traces,
and quota (that is `CommercialQuota`).

### LlmRuntime and the code

| state | code |
|---|---|
| `call` | a request thread in `_execute_capability`: its settings, leg (primary, fallback, shadow), attempt, and the legs that gave an artifact |
| `taken` | permits of the semaphores of `queue_service.py`: one per runner and limit |
| `last` | whose line ends the CLI's audit log |
| `ledger` | rows of the usage ledger: call, provider, run |

`RouteOf` is `resolve`; a leg is `Native`, `Unavailable` or `Enqueue`, `Acquire` or `Reject`, then
how the run ends (`Succeed`, `NextModel`, `Fail`, `Break`, `TimesOut`, `PipesClose`), the log line,
and the usage: read the last line, look for the run, insert. Worth knowing: a CLI is
available only while it is the active provider, so the promoted and shadow rollouts of
`resolve` always find their CLI unavailable and answer with the native provider.

### StageProposals and the code

| state | code |
|---|---|
| `art` | `journey_stage_artifacts` by stage and version number: state and `superseded_by_artifact_id`; `fresh` is history |
| `canon` | what the canonical rows (`opportunities`, `canvases`, the sections of `blueprints`) hold: a version, a text no approval wrote (`Draft`), a discovery too incomplete to backfill (`Partial`), or nothing |
| `gen` | a generation route between `_close_transaction_before_runtime` and its second transaction |

`Created`, `Patched`, `Replaced`, `ApprovedBy`, `Rejected` and `InvalidateDownstream` are the methods of
`StageProposalService` as functions of the versions, so that a handler that calls two of
them (`ApproveMemory` patches, then approves) is one step. `Backfills` and `Backfilled` are
`backfill_session`, which a generation runs before its checks and commits. A project is
new or has rows that are older than its proposals (`Init`). `Remediated` is
`_promote_memory_tool_remediation`, before or after the call: the request sets every column of
the blueprint to what it read before the call, but the row stays loaded through
`commit_without_expiring`, so the UPDATE holds only the tools and memory columns, which
changed. The delivery package, which does keep the older design, is not modelled. Abstracted: texts, and
with them `Compared` (a draft never equals an approved version). Handlers are serial
transactions. Left out: the stages validate, estimate and build, the legacy
branch of `approve-tools-selection`, decisions' history. `approve-memory-profile` refreshes
the latest artifact by a patch before approving it, so a rejected or stale memory
is approved as a new version although `approve` refuses the old one.

### StageOperations and the code

| state | code |
|---|---|
| `action` | the action of the operations, one of the six of `_STAGE_OPERATION_STEPS_BY_ACTION` |
| `row` | `stage_operations`, by idempotency key: `status`, `cancel` (`cancel_requested_at`), `fresh` (before the deadline of `_is_operation_stale`), `attempt`, `result` |
| `task` | the background tasks of an operation, in the order they were added: where each is in its runner, and the status its ORM object holds |
| `request` | a request that read a row (`seen`) and has not written yet |
| `late` | history: rounds of work begun while a cancellation is asked for |

Every runner (`_run_analyze_discovery_operation` and its five siblings) is the same loop:
`Look` (refresh, and give the read back), `Mark` (commit `running`), `Worked`; after two rounds
`Publish`; an exception is `Break`, a cancellation `Stop`. Only tools and the estimate look again
after the last round (`LooksAgain`); design never waits for the user and its three
progress steps are one round. A request reads a row, recovers it if it is stale
(`Recover`, a commit of its own), then decides: `Answer`, `Cancel`, `Again`, `Settle`, or the search of
`_get_or_create_stage_operation` (`LookForOther`, `Resume`, `Insert`). SQLAlchemy writes only
the columns whose value differs from what the object held: `Column`. Left out: steps and
texts; polls of fresh rows, which change nothing; the order by `updated_at` among active
operations, which is any choice; the several rows one request for the current operation may
recover, each of which is a request here. `Publish` refreshes and updates in one step.

## 3. Runs

| run | instance | question and result |
|---|---|---|
| `quota_threads` | 2 request threads, 2 products (one gated), 2 requests of one session, an order that raises the tier, credits a unit and may be announced again | Every handler of one thread runs between the transactions of the other, also within the loop over an authorized session's requests, with a crash at any commit in mid-handler: units, ledger, decisions and debts agree, a decision stands but for that loop, every step is one of `AccessDecisions`: holds |
| `quota_line` | 1 product, 2 requests, 2 orders of one subscription (the second through Hotmart), debts, edits that add free units, time 0..1, 1 thread, fair | A pass is first come first served, ends only when the balance is gone or nobody may be approved, the session that pays is not charged for it, subscription periods never overlap, and every handler returns: holds |
| `quota_spent_twice` | one repeated order, 2 debts | A payment settles debts up to its amount: **violated** |
| `build_queue` | 3 items (a chain of 2 and one alone), 2 queues, 2 tasks, 1 restart, 2 requests that hold an older row | `BuildContract` is implemented: dependencies first, one generation at a time, nothing built again: holds |
| `build_fair` | 1 item, 1 task, 2 queues, 1 restart, 1 request that holds an older row, fair | No step stays active; every queue ends unless the process was restarted or a row read before was written: holds |
| `build_overlap` | 1 diagram that a user also generates, 2 request threads that may both enqueue, 1 stale row, 2 tasks, 1 restart | A queue is taken from its task only by the end of a task, an older row or an abandoned job; a task that ends clean built its selection; the seal survives: holds |
| `build_abandoned` | 2 items, 1 restart, fair | Every queue ends: **violated** |
| `sales` | a Hotmart sale made outside, a Mercado Pago and a PayU sale, 2 sessions, 2 claiming threads, 3 different notifications sent, 1 synchronization, 1 restart | One owner per sale, tiers that are granted, access that was paid for, confirmed sales that agree with the provider, late failures that take nothing, access that only a restart loses, `SaleContract` implemented: holds |
| `sale_refund_lost` | the Hotmart sale | An accepted refund ends the access: **violated** |
| `llm_calls` | 2 calls of one workspace, 7 settings, a model and a fallback, fair | Permits match running processes, an artifact some leg gave is returned, the primary's first, and every call returns: holds |
| `stages` | 5 stages, Design and Memory with 2 versions, made by hand, backfilled or generated, 1 generation at a time, new and old projects | Approvals rest on approvals, at most one approved version is not superseded, the row of every stage follows the approval, the blueprint's columns too although a memory generation writes the blueprint it read before, nothing withdrawn comes back, `StageJourney` is implemented: holds |
| `stage_operations` | `recommend_tools`, 2 keys with 2 tasks each, 3 clicks, 1 polling page, 1 restart, fair | A task begins at most one round after a cancellation was asked for, only a restart leaves an operation active without a task, every operation settles: holds |

More configurations are kept next to these. They replay, with
`tlc -config X.cfg` and the MC module of the same family, a behaviour found while modelling
that is not among the findings:

* `MCQuotaRedecided` (`DecidedOnce`): while the loop over an authorized session's requests is at the
  build of the first one, another thread dismisses or charges the second; the loop then approves it.
* `MCQuotaDebtRace` (`DebtBlocksAutoApproval`): the debt check is read before the commit
  of a nested pass and used after it, so a debt opened in between does not stop the approval.
* `MCQuotaClock` (`PassIsFifo` with a unit that expires in the middle of a pass): the request that was
  taken from the head of the line finds no balance and is passed over; the next period begins
  before the pass looks again, and the one behind it is charged.
* `MCQuotaRedelivery` (`RedeliveryKeepsPeriod`): a repeated event moves a subscription's
  period behind a later one.
* `MCQuotaPeriods` (passes): two orders of one subscription, one announced again, time 0..2.
* `MCBuildTwoItems` (passes): the properties of `build_overlap`, the types and `StartedInOrder` for a
  chain of two items; `MCBuildFairTwo` (passes) those of `build_fair` for two items and one queue.
* `MCBuildReopened` (`QueueEndsUnlessStopped`): a request that read the row while the queue was
  running writes the JSON column back after the task ended it; that queue has no task any more.
* `MCBuildTwoClicks` (`AttemptsBounded`): two overlapping enqueue requests schedule two tasks, a task
  does not claim its queue, and an item gets three attempts where `MAX_PROCESSING_ATTEMPTS` is 2.
* `MCBuildMixedQueues` (`CompletedQueueBuilt`): a task ends a queue that is not the one it began, so
  the row says completed of items nobody built.
* `MCBuildSealed` (`SealedWhenBuilt`): an active job makes its deliverable available to the catalog, hence to
  the seal; the run is sealed while a user's diagram is being generated.
* `MCLlmUsageMixed` (`UsageOfOwnRun`): a call takes its run from the last line of a log all
  calls append to; with another call in between, usage is recorded for the wrong call
  and the second row is dropped as known. It also checks the types (`CallTypeOK`).
* `MCLlmRunnerLimit` (`RunnerWithinLimit`): workspaces with different limits get different
  semaphores of one runner.
* `MCStageOutdated` (`MadeFromApproved`): Discover is approved again while Define is generated;
  the proposal is stored as if it were made from what is approved now.
* `MCStageMemory` (passes): the same with Define and Design generated as well, as drafts and proposals,
  and one version of Design.
* `MCOperationActions` (passes): the properties of `stage_operations` and the types for all six
  actions, with 2 clicks.
* `MCOperationRevived` (`FailedNeedsRetry`): a task that outlives its heartbeat sets the operation
  that was recovered as failed ("requiere reintento explicito") running again, without a retry.
* `MCOperationTwice` (`OneActive`): two starts with different keys both find nothing active, or an
  old operation is retried beside a new one.
* `MCOperationTasks` (`AttemptsMatchTasks`): two retries read the same attempt count; two tasks start.
* `MCOperationResultLost` (`ResultNamed`): a paused operation is closed while it is retried. The
  retry clears the artifact's id, the closing does not write it, since for its object
  the id did not change.
* `MCOperationSwallowed` (`CancelEndsTask`): with the flag `react_runtime_v1` the runtime of
  design catches every exception of a capability (`agentic_runtime/stages/pipeline.py:460`), the
  cancellation too, and the operation is completed or failed after it was cancelled.

### Bounds, and why they are enough

`MaxRequests` 2: one request that is skipped, held back or paid for and one behind it
is what the FIFO properties are about; the debt race needs 3 and has them. Two threads, one of them in the loop over an authorized
session's requests, are what the commit at `commerce_service.py:1762` is about. That the session that pays is not
charged is checked without a gated product; `PaidSessionNotChargedHolds` proves it with one, for one thread.
`MaxTime` 1 lets a period of length 1 be future, current and expired, 2 also the second one. Two
orders are what stacking relates. One repeated order is enough to see a second fulfilment, and
`Repeated` orders may repeat without limit. `Configs` hold the step from no free unit to
some and back. In the build, three items hold a dependency, an independent item and
so a batch of two; two queues hold one that ended and a later one; two tasks are
the most that two enqueues can schedule; one restart at any point between two
commits; `MaxReads` 1 or 2 allows a request that overlaps with a whole queue; with two request threads both may find no queue active.
In `sales`, any three of six notifications are sent (approval and refund of the Hotmart and the
Mercado Pago sale, a decline and an approval of the PayU sale); each may be repeated without
limit, and one also arrives forged. Two threads are what a race for one sale takes, one restart
cuts off any handler at any commit; a cut handler is what the synchronization reports. In
`llm_calls`, two calls compete for the one permit of a limit of 1; seven settings are every
route of `resolve` with a CLI that is ready or not. In `stages`, the second
version of Design is what withdraws and approves again above two later stages and changes the
blueprint under a memory generation, the second of Memory what its approval makes; every stage
may be rejected and with it all that follows. Generations overlap every handler. In
`stage_operations`, two keys are an operation and the one that is found in its place, two tasks
a task and that of its retry, three clicks a start, a cancellation and a retry at any
time, one restart at any step; tools is the action that may wait and looks again, and
`MCOperationActions` has the other five.
Liveness runs are smaller (1 item, 1 task; `MCBuildFairTwo` has 2 items) and use no symmetry. The quota, sales, call,
stage and operation runs set `CHECK_DEADLOCK FALSE`: with every request decided, every call returned,
every version at its bound, every click used up, nothing is left to do. The build never deadlocks: it can always be
reconciled.

### Fairness

* `CommercialQuota!FairSpec`: weak fairness of `Step(w)` only: a request thread that
  started runs on; nobody has to make a request, and time need not pass.
  `HandlersReturn` is checked with one thread. With several, a thread that wants a
  transaction is repeatedly disabled by others, and weak fairness is not enough:
  that would rest on the database's locks being fair, which the code does not say.
* `ProductBuildQueue!FairSpec`: weak fairness of `Task(w)` (a background task
  runs on), of `Reconcile(h)` (the frontend polls the status route, which reconciles) and
  of `QuarterHour` (time passes). Nobody has to enqueue.
* `LlmRuntime!FairSpec`: weak fairness of each call's steps: threads run, a CLI process
  ends or is killed at its timeout. That the pipes of a killed process close
  (`PipesClose`) is an assumption about the CLI: the code kills the process only and then
  reads its output without a limit, so a descendant that keeps them open keeps the slot.
  A waiting call is refused after its timeout (`Reject`), so no fairness between calls is needed.
* `StageOperations!FairSpec`: weak fairness of the background tasks and of the requests, each taken
  together (their threads run; both sets are finite), of the page that polls an operation
  that went stale (the frontend asks while it shows one), and of time. Nobody has to
  click. Without a poll an operation lost in a restart stays active for ever.

## 4. Findings

1. **A payment is spent twice on debts** (`quota_spent_twice`). Every success event of an
   order runs `settle_open_debts_from_paid_order` with the whole amount
   (`commerce_service.py:1245`); Hotmart announces one purchase by several events.
2. **A restart leaves a queue open for ever** (`build_abandoned`). Recovery closes a queue
   through its active steps; between the last item and the end of the task there is
   none (`product_build_orchestrator.py:2400`).
3. **A refund before the claim is lost** (`sale_refund_lost`). A refund of a Hotmart sale that
   nobody claimed finds no order and is stored as unresolved; the pending activation
   stays claimable and `claim_hotmart_pending_activation` (`hotmart/pending_activations.py:348`)
   activates the refunded sale. Its repetition is a duplicate.

## 5. Proofs

TLC checks instances; the theorems hold for all values of the constants that satisfy the named
assumptions of the modules (`BucketConstants`, `QuotaConstants`, `BuildConstants`,
`SaleConstants`, `CallConstants`, `StageAssumption`, `OperationConstants`). These say what kind
of value a constant is, that a distinguished value (`None`, `NoSession`, `NoCall`, the key of the
free bucket) is not one of the others, and that only Hotmart sells without a checkout session.
Any number of threads, requests, orders, items, calls, versions and operations, any order of their
steps, any crash or repetition the module has is covered. Every inductive invariant was checked
by TLC on the instances of section 3 before it was proved.

| theorem | says |
|---|---|
| **`AccessDecisionsProofs`** | |
| `DecisionsSafe` | the promise itself keeps one unit per decision and every unit accounted for (for finitely many requests, which `ReqIdsFinite` proves of `1..MaxRequests`) |
| **`CommercialQuotaProofs`** | |
| `TypeCorrect`, `DebtsCorrect`, `FundingCorrect`, `LedgerCorrect` | `Spec => []TypeOK`, `[]DebtsAddUp`, `[]FundingMatchesDecision`, `[]LedgerMatchesBuckets` |
| `Implements` | `Spec => ImplementsDecisions`: threads, crashes and repeated payments stay within `AccessDecisions` |
| `DecisionsStand` | `Spec => DecisionsAreFinal` |
| **`QuotaPassesProofs`** | |
| `PassIsFifoHolds`, `PassDrainsLineHolds` | `OneThread => (Spec /\ ClockStands => PassIsFifo)`, and `PassDrainsLine` |
| `PaidSessionNotChargedHolds` | `OneThread => (Spec => PaidSessionNotCharged)` |
| `PeriodsDisjointInvariant` | `Spec /\ []PeriodsEnd => []PeriodsDisjoint` |
| **`ProductBuildProofs`** | |
| `BuildTypeInvariant`, `SealIsForeverHolds` | `Spec => []TypeOK`, `Spec => SealIsForever` |
| `QueueKeptHolds`, `CleanEndBuiltHolds` | `Spec => QueueKept`, `Spec => CleanEndBuilt` |
| `StartedInOrderInvariant` | `Spec => []StartedInOrder`: first jobs in the order of the dependencies, a seal only when all items have one |
| **`ProviderSalesProofs`** | |
| `SaleTypeInvariant`, `OneOwnerInvariant`, `TierGrantedInvariant`, `AccessIsPaidInvariant`, `ConfirmedAgreesInvariant`, `OnlyRestartsLoseAccessInvariant` | each `Spec => [](..)` |
| `PaidStaysPaidHolds` | `Spec => PaidStaysPaid` |
| `SalesImplementContract` | `Spec => ImplementsSaleContract` |
| **`LlmRuntimeProofs`** | |
| `CallTypeInvariant`, `SlotsMatchRunsInvariant`, `ArtifactReturnedInvariant` | each `Spec => [](..)` |
| `SemaphoreWithinLimit` | never more processes in a semaphore than its limit |
| **`StageProposalsProofs`** | |
| `StageTypeInvariant`, `ApprovedOnApprovedInvariant`, `OneUnsupersededInvariant`, `RowFollowsApprovalInvariant` | each `Spec => [](..)` |
| `NoRevivalHolds`, `StagesImplementJourney` | `Spec => NoRevival`, `Spec => ImplementsJourney` |
| **`StageOperationsProofs`** | |
| `OpTypeInvariant`, `StopsAtNextCheckpointInvariant`, `OnlyCrashesStrandInvariant` | each `Spec => [](..)` |

### Hypotheses, and where they bite

Where a theorem has a hypothesis beyond `Spec`, this is what it excludes, and the configuration that shows it.

* `OneThread`: one request thread, or no gated product (then no handler commits before its
  end). With two threads, what a handler checked may be undone at the commit of a nested
  pass: a request may be taken from the line, or a balance used up, in between.
* `ClockStands`: time passes between handlers only. A handler takes milliseconds, but nothing in the
  code fixes the time at its start: `MCQuotaClock`.
* `PeriodsEnd`: every period bought of a subscription has an end. One without an end (a
  subscription without validity) is not stacked upon, and overlaps whatever follows it.

Everything else holds of every behaviour of its module: the two requests that enqueue at once, the
row read before and written after, the diagram a user generates, the two limits of one runner
and the two users of one operation are covered by what those theorems say, and what they do not
promise is shown refuted in section 3.

### The arguments

**Accounting** (`CommercialQuotaProofs`). `FundingMatchesDecision` and `LedgerMatchesBuckets` are not
inductive: a charge keeps them only if the request had no booking yet and a product that
exists, and cardinalities only follow if the sets are finite. The inductive invariant is

    IInv == TypeOK /\ DebtsAddUp /\ Promise!Inv

where `Promise!Inv` is the invariant of `AccessDecisions` under the refinement mapping. So the
accounting is proved once, for the five variables of the abstract module (`InvNext`), and the
concrete module only has to show that each step is a step of the promise or invisible to it
(`PromiseHandler`, `PromiseStep`): most change neither a request nor a consumption
(`BucketConsumed`), the closing step of a payment approves a set of requests together
(`ApprovedTogether`), the two charging steps charge one (`ApprovedCharged`), and a turn of the loop
over an authorized session's requests is the promise's step for a request in `closing`, whatever became of
it since the loop began. `DebtsNext` is the
step lemma of the debts, `TypeHandler` / `TypeStep` those of the types, where the frames of
the stack are the work. `DecisionsStand` also covers what the promise does not see
(session, asker), so it has a lemma of its own, `DecidedStays`.

**Passes** (`QuotaPassesProofs`). These properties are about whole stacks, so every step is first
described as a move (`StepMoves`): it replaces the top frame by nothing, by what is left of a
settlement, or by calls that end in a frame that returns; frames below stay where they are
(`Pushed`). Then `SerialInv` (who works is alone and holds the transaction), `OrderInv` (settling
and closing come before every other call; a pass has a caller), `PayInv` (once an order's close
has run, nothing it pays for is pending), `ChargeInv` (no charge is due for a product in debt)
and `LineInv`: who waits for the product of a pass is in its line or was just taken from its head,
unless a debt is open or the balance is gone. Of the steps only a turn of a pass (`FifoLine`) and
a charge (`ChargeLine`) have work to do for it. `PeriodsDisjoint` is inductive with the types:
a renewal is stacked after every other period that has an end (`StackedAfter`), synchronising and
consuming move none (`PeriodsStay`).

**The build** (`ProductBuildProofs`). Types and the seal need nothing but the fact, proved once for every
step (`Kept`), that a column is written only when it changed. The other three hold however
requests, tasks, users and restarts overlap, so each rests on what every task does with what it has in hand.
`DoneInv` (for `CleanEndBuilt`): what a task's queue selected when it began is on its list, in its hands, among its
failures, or has a version (`Plan`), and a key that is available has one (`KeyInv`). `OrderInv` (for
`StartedInOrder`): whatever counts as available, in a row, a catalog a worker saw or a step,
has a job. `LiveInv` (for `QueueKept`): while a task is scheduled or works all steps were updated
of late, so recovery finds no orphans (`NoOrphans`) but those of a job that a restart left.

**Sales** (`ProviderSalesProofs`). The owner of a sale never changes once it has one; a claim past its
payment is of that owner (`OwnerInv`, `ClaimInv`). `RemoteInv` relates what was announced to what the
provider did, `HookInv` says that a notification half way through fulfilment was accepted once,
is genuine and its sale is settled, `EventInv` that what changed an access is not open any
more. `AccessIsPaid` and `TierGranted` are part of the invariant, `ConfirmInv` gives
`ConfirmedAgrees`, and the refinement needs that a cause is counted once, which is `EventInv`. `LostStep` follows a paid sale without an entitlement to the
handler that stands between its two commits: nothing but the end of that handler or a crash takes it away.

**Calls** (`LlmRuntimeProofs`). `SlotsInv` says that the holders of a slot are finitely many and as many as
permits are taken; each step changes the holders by at most one call (`OwnRecord`). `LegsInv`
restricts which legs can have given an artifact in which leg of the call. `LimitInv` (no semaphore gives more permits than its limit) needs no
more than the types and gives `SemaphoreWithinLimit`.

**Stages** (`StageProposalsProofs`). Each method of the service is a function of the versions, so each has one
lemma that says how its result relates to what was there (`Grown`, `Withdrawn`, `Touched`,
`Approves`, `AdoptedAt`, `AcceptedAt`), and handlers compose them. `Sound` holds of versions and rows
between two methods of a handler as well: types, approvals on approvals, at most one approved
version of a stage that is not superseded, rows that follow: only an approval
puts a version into a row, whatever else is written is a text (`RowsOfSections`). `NoRevival` and `StageJourney` are read off
the relations.

**Operations** (`StageOperationsProofs`). `AttemptInv` says that every attempt counted in a row, or in what a
request read of it, has had its task; `LateInv` follows a task that began a round while a
cancellation was asked for to its next look; `StrandInv` says that without a restart an active row
has a task that owes it a status, also while requests hold older rows.

### Only model-checked

* `HandlersReturn`, `StepsSettle`, `QueueEndsUndisturbed`, `CallsReturn`, `OperationsSettle`: liveness under
  fairness (`ENABLED`) is out of the provers' reach.
* `ImplementsContract` of the build: it rests on requests that do not overlap with each other and on
  diagrams nobody makes by hand, conditions of an instance, as `build_queue` is one; what is proved
  without them is `StartedInOrder` and `QueueKept`.
* What fails, by the runs that show it (findings, and the configurations of section 3).

Induction over data through the library's theorems with operator parameters and RECURSIVE
operators are out of reach too; neither is needed, and none of the modules is recursive.

## 6. Hazards without a property

`PROJECT.json` lists every hazard at its line. Those no run covers, with the reason in
its `note`:

* quota: the lost increment of a bucket read without a lock; the Hotmart order of
  crediting and closing; balance freed without a pass; the debt race (`MCQuotaDebtRace`) and the decision written over
  (`MCQuotaRedecided`);
* build: a third attempt by a second task (`MCBuildTwoClicks`), a queue put back to running that no task
  works (`MCBuildReopened`), the job in progress that counts as available (`MCBuildSealed`); a
  generation longer than 15 minutes; a queue kept fresh by polls after its
  task was lost;
* sales: a Hotmart notification rejected once, before the token was configured, is a
  duplicate for ever;
* calls: the usage of another call's run (`MCLlmUsageMixed`), a runner with several limits
  (`MCLlmRunnerLimit`), a killed process whose pipes stay open;
* operations: a failed operation revived, two active at once (`MCOperationRevived`,
  `MCOperationTwice`), a lost result and two tasks of one attempt (`MCOperationResultLost`,
  `MCOperationTasks`), a swallowed cancellation (`MCOperationSwallowed`);
* stages: a proposal made from what is no longer approved (`MCStageOutdated`), two overlapping handlers of one version.

## 7. Plan

Done: `QuotaBuckets`, `CommercialQuota`, `AccessDecisions` with their proofs;
`ProductBuildQueue`, `BuildContract`; `ProviderSales`, `SaleContract`; `LlmRuntime`;
`StageProposals`, `StageJourney`; `StageOperations`.

Proved: every safety property the passing runs check, but for `ImplementsContract` of the build; each
without a hypothesis, or with one that section 5 names. Left to prove are the bounds behind what a configuration of
section 3 shows failing: how much a payment settles as a function of its announcements, how many
attempts an item gets as a function of the requests that overlap, and how many processes a runner has as a
function of its limits.

More of the system to model: `QuotaOverlap` (two transactions that consume from one
bucket, the reads and writes of `consume_balance_units` apart), overlapping handlers of
`StageProposals`, the attention inbox (decisions under refresh), the ACP workflow's phases,
delivery attempts of exports.

## 8. Not modelled

HTTP adapters and secrets (I/O); projections and reports (no state of their own);
the recommendation, rules, stage and estimation engines (large deterministic text
and document transformations without state across calls); storage of knowledge and
memory; authentication lookups; renderers and exports; migrations, scripts and
data models (their fields appear where a model uses them). Within the modelled
parts: checkout creation, effective dates of overrides and the commercial rollout
on the commercial side; partial refunds, product and coupon reconciliation on the sales
side; quality gates, stale fingerprints, versions' contents, ACP runs and inline execution
on the build side; prompts, context bundles, prices and budgets of the calls; the stages
validate, estimate and build, and checkpoints of interrupted agent loops.
