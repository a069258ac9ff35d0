# Formal models of the MarFaNet financial panel

TLA+ models of the server in `src/server` and of the upload in its web client (`src/client`), the TLC configurations that check them on small
instances, and proofs, checked by TLAPS, of what holds for every value of the constants. The
models are written from the code at this commit; a comment, a document or a test of the repository is
quoted only where the code does something else.

`PROJECT.json` lists the components, the runs, the source lines of every definition (`map`), the
hazards of the code and the divergences found. For every property it also names a variant of a
definition that breaks it (`mutants`; in the modules they are the operators named `X_Something`
after a comment `Mutant:`), which shows that the property depends on that part of the code.

To repeat the checks, in this directory:

    tlc -config MCOutbox_live.cfg MCOutbox        # and the other pairs of the table of runs
    tlapm OutboxProofs.tla                        # and the other modules named ...Proofs

## 1. The system

An Express server (`src/server/index.ts`, one Node process) over PostgreSQL keeps the
representatives of a reseller, their invoices, their payments, and which payment covers which
invoice. A React client and a public portal for representatives (`src/client`) show them, and
Telegram messages announce invoices. All financial figures a user sees are derived: an invoice's
status from its allocations and due date, a representative's debt from the sum of the invoices
minus the sum of the allocations, a partner's total from its commission payments. Most defects that
matter here are therefore of one kind: *a derived value disagrees with the data it is derived
from*, or an update that was computed from one reading is written over another.

Three facts shape every model.

* **One thread, many requests.** JavaScript runs a handler to its next `await` without
  interruption; between two awaits any other handler, timer callback or detached promise may run.
  A model's step is what happens from one await to the next, usually one database statement.
* **Few transactions.** `allocation-service.ts` uses `db.transaction`; the rest of the modelled
  code sends separate statements. Isolation is PostgreSQL's default, READ COMMITTED, without row
  locks on what is read.
* **Retries.** `executeWithRetry` (`database-manager.ts`) runs its argument again from the start
  when it throws. The argument is often a whole operation with several effects, so effects that were
  already made are made again.

### Inventory

| Component | State it keeps | Operations | Hard behaviour | Correct when |
|---|---|---|---|---|
| Outbox (`services/outbox.ts`, `outbox-worker.ts`, `routes/outbox-routes.ts`) | table `outbox`; interval of the worker; flag `outbox_enabled` | enqueue, tick, mark as processing/sent/failed, cleanup, start/stop | ticks overlap (the timer does not await), process exit between statements, lost acknowledgements, retry timer | SENT was delivered; nothing is given up before its retries are used; every message settles |
| Allocation ledger (`services/allocation-service.ts`, `allocation-invariants.ts`, `storage.ts`) | `payment_allocations`, `payments.is_allocated`, `invoice_balance_cache` | allocate in full, in parts, by hand; recompute the balance cache | guard evaluated on a snapshot, cache recomputed on another connection before COMMIT, duplicate keys abort a transaction that goes on | no payment or invoice over-allocated; cache never ahead of the ledger |
| Unified financial engine (`services/unified-financial-engine.ts`) | query cache, invalidation marks, refresh timers; `representatives.total_debt` | calculate, invalidate, sync the debt, list debtors, background refresh | a calculation in flight stores an old result after an invalidation; old results get new time stamps | stored debt current when no request runs; staleness bounded |
| Commission payments (`storage.ts`, `routes/sales-partners-routes.ts`) | `partner_commission_payments`, `sales_partners.total_commission` | create, change, settle in part, delete, recalculate | row read, then written unconditionally; retries of several statements | statuses final; acknowledged settlements kept; total is the sum |
| Invoice lifecycle (`routes.ts`, `storage.ts`) | `invoices`, allocations, old link `payments.invoice_id`, `representatives.total_debt` | create, edit, change, delete, allocate, link, recompute status | detached DELETE, failures that are caught, process exit | status follows the allocations; debt follows both |
| Portal content (`routes/portal-content-unified-routes.ts`, `portal-resources-routes.ts`, `file-upload-routes.ts`, ...) | one row of `portal_content_documents` with draft, published document, versions and status; cached document; `app_downloads` and files on disk | save draft, publish, read, upload, remove | publication and saving interfere; a public read fills the cache; a file and the row that names it change in separate steps | public pages show what was published last; a row names no file that is gone |
| Invoice generation and batches (`standardized-invoice-*`) | `invoice_batches`, invoices, debts | generate from usage, complete a batch | the loop tolerates failures; completion is detached; each invoice updates the debt twice | a completed batch counts its invoices; a batch is not left in processing without a fault |
| Batch rollback (`batch-invoice-rollback-engine.ts`) | invoices of a date, debts | project debts, delete, write the projections, correct | the projection comes from a cache and is written whatever was deleted | debts equal what is left |
| Reconciliation (`active-reconciliation-engine.ts`, `financial-consistency-engine.ts`, `financial-monitoring-service.ts`, drift services) | `reconciliation_runs`/actions, debts | detect, plan, apply; validate and correct; synchronise lists of debts | four repairs run beside each other and beside requests; plans are applied to newer data | the last repair leaves the debt right; the limit of an adjustment holds |
| Ledger backfill (`backfill-service.ts`) | ledger rows with synthetic keys | select, insert row by row, distribute over open invoices | selected payments change before their row is inserted | the rows of a payment never exceed it |
| Guard metrics (`guard-metrics-*.ts`) | queue in memory, batch being stored, table; counters and alert level | record, flush, analyse | batch lost on a failed insert; the timer and the full queue both start flushes | each event is stored once and in order unless its INSERT failed |
| Ingestion state (`state-manager.ts`) | `ingestion_state`, `process_steps` | create, start, advance, checkpoint, fail, resume | each transition is a read and a write; restart | a resumed process continues where it stopped |
| Payment records (`routes.ts`, `storage.ts`, `payment-management-router.ts`) | `payments` with amount, flag and old link | create with or without allocation, change, delete, allocate by hand, link | 500 after the payment exists; deletion cascades to the ledger | rows within the payment; debt right after the next undisturbed request |
| Upload in the web client (`client/src/hooks/use-upload-flow.ts`, `use-json-parser.ts`, `services/json-parser-service.ts`, `workers/json-parser.worker.ts`) | reducer of the flow, debounced validation, queue and workers of the pool | select, parse in a worker, validate, create a job, upload, start again, cancel | verdicts that come late free workers; the validation runs after a pause on the file of that time | what is uploaded is what was validated; no worker idles; validation ends |
| Feature flags (`feature-flag-manager.ts`) | flags in memory | read, set | lost on restart | a request sees one value of each flag |
| Database access (`database-manager.ts`) | pool, health | retry | repetition of effects | each effect once |
| Server, sessions (`index.ts`, `unified-auth.ts`) | sessions | start, stop, end on unhandled rejection | process exit at any await | durable state survives |
| Financial transactions (`storage.ts`) | `financial_transactions` | roll back | restores old values unconditionally | the roll back undoes its own effect only |
| Backup, dashboard events, overdue job, statistics, representatives, Python service, error managers, web client, schema and scripts | see `PROJECT.json` | mostly reads | | |

How they interact: a route of `routes.ts` calls `storage` or a service; what changes invoices or
allocations then calls `storage.updateRepresentativeFinancials` and
`unifiedFinancialEngine.syncRepresentativeDebt`, which invalidates the engine's cache, calculates
and writes the debt. The allocation service calls `InvoiceBalanceCacheService.recompute` inside its
transaction but on the pool. `sendInvoiceToTelegram` enqueues into the outbox while its flag is on
and sends directly otherwise. The flags are read by the services and set by a route. The
reconciliation services read and write the same tables as the requests.

## 2. Modules

| Module | Content |
|---|---|
| `Outbox` | the table, overlapping worker ticks, faults of statements and sends, cleanup, flag, restart |
| `OutboxDelivery` | abstract specification: what the outbox promises for one message |
| `OutboxProofs` | for all constants: safety and counts of `Outbox`, that it implements `OutboxDelivery`, and that `OutboxTimers` implements `Outbox` and is quiet when stopped |
| `OutboxTimers` | extends `Outbox`: start and stop of the worker, its intervals |
| `AllocationLedger` | the three ways to allocate, transactions, balance cache |
| `LedgerProofs` | types and cache safety of `AllocationLedger` for all constants, the limits of payments and invoices when requests come one at a time; `GuardMetrics` implements `AllocationLedger`, its events are stored once and in order |
| `GuardMetrics` | extends `AllocationLedger`: the events its guards record, their queue and batches |
| `FinancialCache` | query cache, invalidation, refresh timers, stored debt, a clock |
| `CacheProofs` | types, bounded staleness and the stored debt, for all constants |
| `CommissionSettlement` | commission payments of one partner |
| `SettlementProofs` | types and the total for all constants; statuses and settled amounts with one writer at a time |
| `InvoiceLifecycle` | invoices of one representative, their status, the debt |
| `PaymentRecords` | extends `InvoiceLifecycle`: the requests about payments |
| `LedgerBackfill` | extends `PaymentRecords`: the backfill beside the requests; specification and properties of the three |
| `InvoiceProofs` | types, status and debt after an undisturbed request, the rows of a payment within its amount, for all constants |
| `AppMedia` | the files of an application: upload, removal, deletion of the row, restart |
| `PortalContent` | extends `AppMedia`: draft, publication, mirrored lists, cached document, public reads |
| `PortalProofs` | types, files, status, cache and diff for all constants |
| `DebtRepair` | four repairs of the stored debts beside each other, page views and allocations |
| `InvoiceBatches` | extends `DebtRepair`: generation of invoices with their batch, completion of a batch |
| `BillingProofs` | types, debts after repairs, limit of adjustments, batches, for all constants |
| `ParserPool` | page and web workers that parse files, joined by channels |
| `UploadFlow` | extends `ParserPool`: the flow of a file from its selection to the answer of the upload |
| `UploadProofs` | safety of the pool and of the upload, for all constants |
| `MC...` | instances for TLC: small amounts, requests, symmetry |

Notation common to all: `pc[a]` is the statement an actor (one HTTP request at a time, or one
calculation) executes next; `Arrive` starts a request; `UNCHANGED` lists what the code leaves alone;
a failing statement is a disjunct of its action or an action named `Fault`, `...Retry`, `...Fail`.
History variables record what happened and influence nothing; they are marked `history` where they are declared.

### Outbox

| Model | Code |
|---|---|
| `status`, `type`, `retryCount`, `due` | columns of `outbox`; `due` stands for `next_retry_at <= now` |
| `Enqueue` | `OutboxService.enqueueMessage` behind the flag |
| `Tick`, `Batch`, `Ready` | `processMessages` and the query of `getReadyMessages` |
| `stage[t][m]` | the next await of `processMessage` for row `m` in tick `t`; rows of a tick run concurrently (`Promise.allSettled`) |
| `MarkProcessing`, `Send`, `MarkSent` | `markAsProcessing`, `telegramAPI.sendMessage`, `markAsSent` |
| `FailRead`, `FailWrite` | `markAsFailed`: select, then update with the count that was read |
| `RetryDue` | the backoff elapses |
| `Cleanup`, `SetFlag`, `StartWorker`, `StopWorker` | the routes |
| `Crash` | process exit and restart: the flag is off again, the handlers are gone |

A database statement may be `refused` (no effect) or `ackLost` (committed, yet it rejects); a send
may be delivered, rejected, delivered with its answer lost, or `swallowed`: it resolves
although nothing was sent. The last one matters: `index.ts:241` builds the worker with a
`sendMessage` that does nothing, so *as wired today* SENT does not mean delivered. The runs and the theorem state
their assumption about the transport (`"swallowed" \notin SendOutcomes`) and describe the worker
with a transport that resolves only after acceptance.

`OutboxDelivery` states the promise: a message is queued, attempted, and either sent or, after more than
`MaxRetry` counted failures, cancelled; both are final. `Outbox` implements it when ticks
do not overlap and no acknowledgement is lost (`ImplementsDelivery`: PENDING and FAILED map to
queued, `retryCount` to `tries`). With overlapping ticks it does not: a row that one tick marked SENT
may become FAILED by the other, and be sent twice. What is left then is stated by
`SentMeansDelivered`, `GivenUpOnlyWhenExhausted` and `RetryNeverOvercounts`.

`OutboxTimers` refines `StartWorker` and `StopWorker`: `Begin` is `start()` up to the metric it waits for, `Arm` its
rest with `setInterval`, `Halt` is `stop()`, and `held`/`strays` tell the interval that `intervalId` names from those it has
lost. `ImplementsOutbox` makes the theorems about `Outbox` theorems about the worker with its timers.

### AllocationLedger and GuardMetrics

Of the ledger the code only reads sums by payment and by invoice and the unique index of the key,
so it is `paySum`, `invSum` and `keys`, plus, per open transaction, what it inserted (`pendPay`,
`pendInv`, `pendKeys`, `pendFlag`). `Commit` moves one into the other, `Rollback` drops it. `aborted` is
PostgreSQL's state after a failed statement: a duplicate key is caught by the code and the loop
goes on, but the next statement fails and COMMIT rolls back. The actions follow the three methods statement by statement:
`Manual*` is `manualAllocatePaymentToInvoice`, `Partial*` is `allocatePartial`, `Full*` is `allocateFull`, `CacheRead`
and `CacheWrite` are `InvoiceBalanceCacheService.recompute`. A manual allocation has no limit by
the invoice, because the code compares with `parseFloat(invoice.totalAmount)`, a column invoices do not have.

`GuardMetrics` adds what a validation leaves behind: `Check` is the step of `allocatePartial` that evaluates the guards, joined with
`Record`, the calls of `enqueue()` in it; `Flush` is `flush()` up to its await, started by a full queue or by `FlushTimer`; `FlushEnd` is the
end of the INSERT with the `finally`. Events are numbered, so their order and multiplicity are visible. `allocateFull` and manual allocations
record nothing in the code. There is no restart in the module, since the flag `guard_metrics_persistence` is off after one.

### FinancialCache

Data is the number of changes a query saw. `Change` is a request that committed something;
`SyncStart`, `SyncWrite`, `SyncEnd` are `syncRepresentativeDebt` with its two invalidations; `View`, `ReadSales`, `ReadPaid`,
`Store` are `calculateRepresentative`; `ListingSoftHit`, `RefreshHit`, `RefreshMiss` are the callers that
store a result again and thereby give it a new time stamp. `Served` says which entries are
answered from, including those that are invalid and younger than `SOFT_TTL`. `Tick` is the clock; it waits for timers that are
due and for calculations that have taken `FillTime`.

### CommissionSettlement

One action per statement of `createPartnerCommissionPayment`, `applyPartialSettlement`, the PUT route with
`updatePartnerCommissionPayment`, `deletePartnerCommissionPayment` and `recalculateSalesPartnerFinancials`. `Again` is
the outer `executeWithRetry`, which repeats an operation after any throw, its own rejections
included; `Fault` also models the inner retries of the recalculation. `snap` is the row a
settlement has read; `SettleWrite` writes what was computed from it without a condition.

### InvoiceLifecycle, PaymentRecords and LedgerBackfill

The three modules are one state machine; `InvoiceLifecycle` has the requests about invoices: creation, edit, PUT,
deletion and the recalculation of a status. `Get`, `CheckAmount`, `CheckAlloc`, `StatusWrite` are the routes with
`calculateInvoicePaymentStatus`; `SyncSales`, `SyncPaid`, `SyncWrite` are the update of the debt, which a request makes `updates`
times. `deleting` holds the invoices whose DELETE was started and not awaited: `DeleteRun` executes it at any later
time, `DeleteCrash` is its last failure, which is an unhandled rejection and ends the process. `Late` is
the set of invoices whose due date has passed as `calculateInvoicePaymentStatus` understands it: it reads a Persian date as a
Gregorian one.

`PaymentRecords` has the requests about payments: `POST` (`pay`: resolve the invoice, insert, allocate, two or three updates
of the debt), `PUT` of the amount (`repay`), `DELETE` with the cascade (`unpay`), the manual allocation (`allocate`) and the old link with
and without a status (`attach`, `link`), where `LinkWrite` stores what a comparison with NaN yields. `share[p][i]` is the sum of
the ledger rows of a payment and an invoice.

`LedgerBackfill` adds `BackfillService`: `SelectUnrecorded`, `ActiveRow` are `active`; `SelectOrphans`, `ReadOpen`, `OrphanRow`, `NextOrphan`
are `distributePartialOrphans`, each one statement, with `fill` as the locals of the call and `filled` as the synthetic keys.
`last` is the last request if nothing disturbed it, else none; a row of the backfill disturbs.

### ParserPool and UploadFlow

| Model | Code |
|---|---|
| `status`, `taskQueue`, `workerBusy`, `timers` | the tasks, the queue and the flags of `JSONParserService`, its pending `setTimeout` calls of `processQueue` |
| `toWorker[w]`, `fromWorker[w]` | the two message channels of a worker, each in order |
| `known[w]`, `parsing[w]` | `activeTasks` of the worker, and the parses that run, cancelled ones included |
| `WorkerMessage`, `WorkerError` | `handleWorkerMessage`, `handleWorkerError` |
| `Select`, `Hear`, `PoolRuns` | `selectFile` with `parseFile` of the hook, and its subscription to one task |
| `debounced`, `Validate` | the timer of the debounced `validateAndProcessResult` and its run, which takes the file of the last rendering |
| `run[t]`, `JobAnswer`, `UploadAnswer` | the rest of `validateAndProcessResult` and `uploadToServer`, by the content that was validated |
| `Reset` | the button that starts again, which cancels nothing |

A file is the number of its selection, and so is its content; `run[t].file` is the file sent for the validated content `t`.
`createImportJob` posts to a route the server does not have at this commit (`routes.ts:274`), so its failure is what happens today; the model has both answers.

### AppMedia and PortalContent

| Model | Code |
|---|---|
| `app`, `path[s]`, `files` | the row of `app_downloads`, its two file columns, the upload directory |
| `Upload...`, `Remove...` | `POST` and `DELETE /upload/:slot/:id`, await by await: select, unlink the old file, update, metadata; `UploadCatch` is the catch block, which deletes the new file |
| `DeleteApp` | `DELETE /app-downloads/:id`, which leaves the files |
| `doc`, `ann`, `cache` | the row of `portal_content_documents`, the announcements as a version number, `unifiedPortalContentCache` |
| `Save...` | `PUT /draft`: read, insert or update with the version that was read, invalidate |
| `Publish...`, `Mirror...` | `POST /publish`: read, mirror the tables into empty lists, write, set the cache |
| `ViewRead`, `ViewFill` | `GET /:publicId/resources` when the cache is empty |

`PortalContent` composes the two: a publication that mirrors the applications copies `path`, and a
restart ends the requests of both. A draft is the identity of a text; the drafts of `Mirroring` are those with empty lists. `raced`
records that a write met another request's reading of the row; the properties are about histories without it, since
with it they are false in the code (section 5). Uploads have no such premise.

### DebtRepair and InvoiceBatches

`job[a]` is a request: its operation, its next step, the representatives it still has to treat, what it
has read or calculated, and, for a rollback or a reconciliation, its plan. `ReadSales` and `ReadPaid` are the two queries of
`calculateRepresentative`, shared by all operations but the reconciliation, which reads the ledger itself
(`LedgerSales`, `LedgerPaid`). The prefix of an action tells the operation:

| Prefix | Code |
|---|---|
| `Sync` | `syncRepresentativeDebt` for a list of representatives (`debt-verification-routes.ts`, `storage.ts`) |
| `Correct`, `MonitorAgain` | `performSystemCorrection`; `performMonitoringCheck` validates (which corrects) and corrects again if anything was wrong |
| `Rollback` | `rollbackInvoicesByDate`: find, project, delete, write the projections, correct the active representatives |
| `Reconcile`, `Ledger` | `runActiveReconciliation`: select, detect, plan, `ADJUST_DEBT` and `SYNC_CACHE` of each anomaly |
| `Generate` | `POST /api/invoices/generate-standard`; `GenerateUpdate` starts each of the two updates of the debt after an insert |
| `Complete` | `completeBatch`, which the route does not wait for |

Time is not in this module: an entry of the cache may be hit (`CorrectHit`, `RollbackHit`) or have expired (`...Miss`), whenever it is
there; `FinancialCache` has the clock. `dirty` is the set of representatives that somebody else has touched while the
request was at work, `settled` those whose last write was an undisturbed repair. A file of usage data is the set of its representatives.

## 3. Runs

| Run | Bounds | What it shows |
|---|---|---|
| `outbox_overlap` | 1 row, 2 ticks (symmetric), 2 retries, refused statements and lost acknowledgements, 1 restart, 3 starts of the worker | `SentMeansDelivered`, `GivenUpOnlyWhenExhausted`, `RetryNeverOvercounts` survive overlapping ticks; `StoppedIsQuiet`; `ImplementsOutbox`: the worker with its intervals is behaviour of `Outbox` |
| `outbox_live` | 2 rows, 1 tick, batch of 1, 1 retry, 1 restart, fairness, no database faults, sends that fail or lose their answer | `SettlesUnlessStranded`: each pending message is eventually settled unless the restart met it in PROCESSING; `ImplementsDelivery`: the table implements the abstract delivery; `RetryCountExact` |
| `outbox_crash_stranded` | the same | **violated** `EverySettles`: a row that was PROCESSING at the restart is never selected again |
| `ledger_requests` | 2 actors, 2 payments (3 and 2), invoices of 3, 2 and 9, 3 requests, guards enforced, failing statements, 2 attempts; the second actor only repeats the request in progress; batches of 3 events | `EventsOnce`, `PaymentNotOverAllocated`, `InvoiceNotOverAllocated`, `CacheNeverAhead`, duplicate keys, skipped lines and repeated manual allocations included |
| `ledger_race` | 2 actors, 2 partial allocations, guards enforced | **violated** `PaymentNotOverAllocated`: both pass the guard |
| `cache_serial` | 1 sync, 1 view, 1 listing, 1 refresh, 1 change, clock to 7 | `StalenessBounded`, `TableCurrent` |
| `settlement_deletes` | 1 payment, 2 actors: one settles and changes, the other deletes and recalculates; 2 attempts, faults, 4 requests | `StatusFinal`, `NeverOverSettled`, `SettlementsNotLost`, `TotalAfterSuccess` |
| `invoice_requests` | 2 invoices (one late), 1 payment, amounts of 1 and 2, 1 actor beside the detached deletions and the backfill, faults, 5 requests | `StatusAfterCheck`, `DebtAfterRequest`, `AllocatedWithinPayment` |
| `invoice_deletion` | 1 invoice, 3 requests, no faults | **violated** `DeletionComplete`: the deletion is answered with success before the DELETE has run |
| `portal_requests` | 2 editors, 1 viewer, 2 uploads or removals at a time, 1 slot, 2 drafts (one mirroring), 4 requests, all faults, restarts | `StatusTellsDraft`, `CacheCurrent`, `DiffExact`, `NoDanglingPath` |
| `billing` | 2 representatives (one inactive), 3 invoices (one blocked by a payment), 1 batch, 2 requests of any of six kinds or page views, 1 allocation, faults | `DebtAfterRepair`, `AdjustWithinLimit`, `ProcessingIsWorkedAt`, `BatchCountsInvoices` |
| `upload` | 3 files (one may be large), 2 workers (one may fail to load), 1 cancellation, fairness | `NoIdleWorker`, `CompletedIsFinal`, `UploadsWhatWasValidated`, `ValidationEnds` |

One passing run of each composition also checks its `TypeOK`, except for `Outbox`, whose types `OutboxSafety` proves. The largest runs, `invoice_requests` and `upload`, have 1.2 and 0.6
million states.

### Why the bounds are enough

* Outbox: handlers of different rows share only the batch limit, which two rows and a batch of one
  exercise; what happens to one row needs two handlers of it, hence one row and two ticks. Two
  retries show FAILED, FAILED again and CANCELLED; `MaxFailures` exceeds `MaxRetry`, so exhaustion
  is reached with failures to spare, and it binds nothing the liveness run needs (a row is cancelled before).
  The batch size of 5 and 5 retries of the code are larger values of the same constants; the theorems cover them. Three starts are the start that a stop meets, the one
  after it that loses the first interval, and one after a restart.
* Ledger: the guard compares a sum with an amount. Amounts of 1 to 3 against payments of 3 and 2 reach
  equality, one more and one less; two lines of one request show the sum and the repeated
  invoice; `i3` is larger than the payments because manual allocations know no limit by the invoice. Two actors suffice for
  a lost guard, as it takes one interleaving of a read and an insert. Three events fill a batch; a request reports up to
  four violations and a block, so that a batch fills within one request and while another is stored. `LiveState` is a VIEW that
  leaves out the variables of an idle actor, which its next request sets before it reads them; no property mentions them.
* Cache: `QueryTTL` 3, `SoftTTL` 2, `RefreshDelay` 1, `FillTime` 1 keep the order of 10 s, 5 s and 100 ms and
  leave room between them; `MaxClock` 7 is beyond `1 + SoftTTL + QueryTTL`, so the bound of `StalenessBounded` is reached and
  passed. `FillTime + RefreshDelay <= SoftTTL` is what the theorem needs: if a query could take longer, a store just before
  the end of `SOFT_TTL` and the refresh after it would stamp an old result twice (with 2, 2 and 2 TLC shows it; in the code it is 100 ms and a query
  of less than 4.9 s). Time is counted in steps and calculations are assumed to take at most `FillTime`: a query
  that takes longer lengthens the staleness accordingly.
* Settlements: 1 and 2 as amounts reach a part, the exact rest and too much; `MaxTries` of 2
  shows one repetition of an operation and of its recalculation. One payment is enough for the
  per-payment properties.
* Portal: what goes wrong with a row that is read and written takes two requests, and a third that fills the
  cache from an old reading; the fourth request is the draft that has to exist before. Uploads count as requests, so that two of them,
  their removal and a deletion of the application fit. The theorems cover any number.
* Billing: two requests show every pair of operations in any interleaving, and a third party is the page view or the
  allocation. Amounts of 1 and 2 with a tolerance of 2 and a limit of 1 put differences on, below and above both; `MaxAllocated` of 1 is one change of the
  ledger behind the backs of the repairs, at any moment. An unused invoice is what one generated file adds; the inactive representative is the one
  no correction looks at. A larger instance (three requests) does not finish in minutes.
* Invoices: one request at a time, but the detached deletions and a backfill run beside it. Five requests are a
  creation of an invoice and a payment, a link, a disturbance and the request that is to repair it; two invoices are what a distribution spreads a
  payment over. With one payment the second payment of one distribution is not reached.
* Upload: a third file is the one that meets the late verdict on the first while the second is worked at; one worker that fails
  and one that does not show both kinds; a second cancellation meets nothing that the first does not, as tasks are cancelled one by one.

`CHECK_DEADLOCK FALSE` is set where requests are counted and the system stops after the last one
(ledger, settlements, invoices, portal, billing), where the clock stops (cache) and where no file is left to select (upload). The outbox runs check deadlock.

### Fairness

The liveness properties are checked by `outbox_live`, `outbox_crash_stranded` and `upload`. The first two assume weak fairness of `Tick(t)` (`setInterval`
keeps firing while the interval is armed), of `Handle(t, m)` (a statement or a send settles, in one way or the other; JavaScript
runs its continuation) and of `RetryDue(m)` (time passes). Nothing is assumed about
administrators, the flag, crashes or the success of a send: a message that is always rejected is
settled by cancellation. `EverySettles` and `SettlesUnlessStranded` have the premise that from some time on the worker polls with the flag
on, since the code does not promise anything otherwise. The fault-free setting is part of the
claim: when the statement that records a failure fails itself, the row stays PROCESSING and is stranded as after a restart.

`upload` assumes weak fairness of the page (its event loop handles messages of workers and timers), of each worker's event loop with the
parses in it, and of timers and answers to requests (`Validate \/ Answers`). Nothing is assumed of the user, of cancellations, or of
a worker that did not load.

### Properties worth a remark

* `RetryNeverOvercounts` is an inequality for a reason: two overlapping `markAsFailed` calls read the same
  count and record one failure of two. A row is then retried more often than configured.
* `CacheNeverAhead` holds because the recompute reads committed rows before COMMIT: the cache lags
  behind by the rows of its own transaction, whatever rolls back. Manual allocations do not recompute it at all.
* `StalenessBounded`: the comment at `unified-financial-engine.ts:206` says invalidated entries are not
  used, lines 229-232 serve them for `SOFT_TTL`; with re-stamping the bound is the sum of both TTLs.
* `TableCurrent` holds for one updating request at a time. With two, the one that calculated first may write
  last and leave an older debt; nothing serialises them.
* `SettlementsNotLost` allows more than was acknowledged: a settlement whose recalculation or log
  fails is repeated from the start and settles twice.
* `StatusAfterCheck` and `DebtAfterRequest` are about repair: PUT stores any status, a failed update leaves
  an old debt, an edit with vanished invoice goes on; the next undisturbed request sets both right.

* Some properties name a race as their exception, since nothing in the code prevents it and the property shows that it is the only way:
  `raced` of `StoppedIsQuiet` (a stop meets a start that waits), `moved` of `AllocatedWithinPayment` (the amount was changed, or a manual
  allocation met a backfill or another manual allocation of the same payment), `lost` of `EventsOnce` (the INSERT of a batch failed), `mixed` of `UploadsWhatWasValidated` (a file
  was selected within the pause of 300 ms before a validation, or while a large file was parsed, or the previous subscription stays because a large file gets none).
* `EventsOnce` says more than its name: the rows are in the order of the events, although requests record during an INSERT and two causes
  start flushes; `flushing` is what keeps two batches from being stored at once and so in any order.
* `SettlesUnlessStranded` is the complement of the finding: rows the restart finds PENDING or FAILED are settled although the flag was off for a while.
* `CacheCurrent` and `StatusTellsDraft` need `~raced` only, not the absence of faults: a refused publication
  leaves everything as it was, a save invalidates the cache, a restart empties it. A publication that was made and yet answered with
  500 (`lost`) leaves the previous document in the cache until the next save, publication or restart.
* `DebtAfterRepair` is what the four repairs have in common: the debt of a representative that nobody else
  touched meanwhile is right within the tolerance of the correction. The rollback writes projections that may be wrong, since a refused
  deletion does not change them; it holds for active representatives because the correction at its end calculates again, the entries having been
  invalidated. It is not claimed for inactive ones, which keep the projection (`RollbackWrite` unsettles).
* `AdjustWithinLimit` holds between the selection and the adjustment only if nobody wrote the debt in between;
  the action writes the absolute value of the plan.
* `BatchCountsInvoices` is an inequality in general: an invoice whose first update of the debt failed exists, and
  is not counted.

### Divergences shown by runs

The three runs marked **violated** are findings in `PROJECT.json`, each with the comment of the
repository it contradicts: rows stranded in PROCESSING, over-allocation under enforced guards,
and the deletion that is not finished when it says so.

## 4. Proofs

Every invariant and every action property that a passing run checks is also a theorem; liveness is not
(last paragraph). A theorem speaks of any values of the constants, within the assumptions of its module (`...Assumption`) and those
of this table.

| Module | Theorem | States | Assumed besides |
|---|---|---|---|
| `OutboxProofs` | `OutboxSafety` | `TypeOK`, `SentMeansDelivered`, `GivenUpOnlyWhenExhausted`, `RetryNeverOvercounts` | no send is swallowed |
| | `NeverOvercounts` | `RetryNeverOvercounts` | |
| | `CountExact` | `RetryCountExact` | ticks do not overlap, no statement fails |
| | `OutboxImplementsDelivery` | `ImplementsDelivery` | ticks do not overlap, no acknowledgement is lost, no send is swallowed |
| | `TimersImplementOutbox`, `TimersQuiet` | `ImplementsOutbox`, `StoppedIsQuiet` of the worker with its intervals | |
| | `TimersSafety` | `SentMeansDelivered`, `GivenUpOnlyWhenExhausted` of the same | no send is swallowed |
| `LedgerProofs` | `CacheSafety`, `LedgerTypes` | `CacheNeverAhead`, `TypeOK` | |
| | `PaymentSafety` | `PaymentNotOverAllocated` | one request at a time, guards enforced |
| | `InvoiceSafety` | `InvoiceNotOverAllocated` | the same, and no manual allocation |
| | `GuardedImplementsLedger`, `EventsSafety` | `ImplementsLedger`, `EventsOnce` with the guard metrics | |
| `CacheProofs` | `AgeSafety`, `CacheTypes` | `StalenessBounded`, `TypeOK` | |
| | `TableSafety` | `TableCurrent` | one updating request at a time |
| `SettlementProofs` | `TotalSafety`, `SettlementTypes` | `TotalAfterSuccess`, `TypeOK` | |
| | `SettlementSafety`, `StatusSafety`, `NeverOver` | `SettlementsNotLost`, `StatusFinal`, `NeverOverSettled` | one actor creates, changes and settles |
| `InvoiceProofs` | `RepairSafety`, `StatusRepaired` | `StatusAfterCheck`, `DebtAfterRequest` | |
| | `AllocatedSafety`, `InvoiceTypes` | `AllocatedWithinPayment`, `TypeOK` | |
| `PortalProofs` | `MediaSafety`, `PortalFiles` | `NoDanglingPath`, of the files alone and of the portal | |
| | `PortalSafety`, `StatusTells`, `DiffTells` | `StatusTellsDraft`, `CacheCurrent`, `DiffExact` | |
| | `PortalTypes` | `TypeOK` | |
| `BillingProofs` | `RepairExact`, `AdjustLimited` | `DebtAfterRepair`, `AdjustWithinLimit` | |
| | `ProcessingSafety`, `BatchSafety`, `BillingTypes` | `ProcessingIsWorkedAt`, `BatchCountsInvoices`, `TypeOK` | |
| `UploadProofs` | `UploadSafety`, `PoolNeverIdles`, `ResultsFinal`, `UploadTypes` | `UploadsWhatWasValidated`, `NoIdleWorker`, `CompletedIsFinal`, `TypeOK` | |

What is assumed besides is where the code is exposed: with two writers, two updating requests, overlapping ticks or overlapping
allocations the property is false, and section 5 or a finding says so. It is narrower than the run in one place: `ledger_requests` also lets a second request
repeat the lines of the one in progress.

### Outbox

`OutboxSafety`: the three properties are not inductive: a handler about to execute
`markAsSent` may break the first, one about to write a retry count the second and third. `HandlerInv` says what
holds between statements: `markSent` is reached only by delivered messages, and the count a handler
has read is smaller than the number of recorded failures, which never decreases. `NeverOvercounts` needs only the part about the counts (`CountInv`), hence no
assumption about the transport.

`OutboxImplementsDelivery`: the invariant `RInv == TypeOK /\ Owned` says who owns a row (a handler's stage and the status of its row go together), that the count a handler has read is still
the row's, and that a row is past a stage only if what the stage needs has happened. `PhaseOfOne` and `Phases` give the refinement mapping's value row
by row; `RefineNext` maps each action to an attempt, a failure, a completion or a stutter. `CountExact` adds `Exact` to `RInv`: the count of a row is its
number of failures, less the one that is being recorded.

`TimersImplementOutbox`: each step of `OutboxTimers` is a step of `Outbox` or leaves its variables alone. The invariant
it needs, `PollsWhenArmed`, is what makes `Halt` a `StopWorker`. `TimersQuiet` proves `StoppedIsQuiet` from `TInv`, which adds the shape of the state and
`OneInterval`: without the race there is at most one `start()` at a time, and no interval is armed while it waits. `TimersSafety` carries the safety of the table over through the refinement.

### Ledger and guard metrics

`CacheSafety`: `CacheNeverAhead` is
not inductive because a recompute writes an aggregate it read earlier. `SeenCovered` adds that
what it has read is still covered by the ledger, which holds because committed sums only grow (lemma `LedgerGrows`: allocations are
never deleted in this model; `InvoiceLifecycle` has the deletion that cascades to them). `NextType` is type correctness action by
action; `NoCacheWrite` handles, once for all, the actions that leave the cache alone.

`PaymentSafety`: `SerialInv` says that one transaction is open at a time and that a request without one has nothing pending, so that what a guard has seen is still so when
its rows are inserted and committed. `PayGuard` says at each statement what its request's check still tells. The guard of `allocatePartial` is evaluated once, on the
sum of all lines, and the lines are inserted one by one, some of them left out: `RestFits` compares the lines still to come with what is left, as the difference of two prefix sums (`P`), which
needs no expansion of the sum, only that it grows. `InvoiceSafety` needs no sums, since each line is compared with the rows its own transaction sees (`SeenInv`).

`GuardedImplementsLedger`: the events are recorded in steps of the ledger and stored beside it, so the ledger's theorems carry over.
`EventsSafety`: `QueueInv` adds to `EventsOnce` that a batch exists
only while it is being stored, without which a second flush would drop one. `Parts` says when a concatenation rises and what is in it; `FlushMoves`, `Numbered`, `RecordInv`
and `FlushEndInv` are the kinds of steps. That a validation reports a natural number of violations (`ViolationsType`) needs the type correctness of the ledger.

### Cache and settlements

`AgeSafety`: `AgeInv` says that a calculation without a change began before the invalidation that followed it (`OldReads`), that an entry without it
was stamped at most `SoftTTL` after that invalidation and which refreshes may stamp it again (`OldEntry`), and that calculations and refreshes are in time (`InTime`).
The proof found the assumption too weak as it was first written, with a bound for `FillTime` and `RefreshDelay` separately; TLC confirmed the counterexample with larger values.

`TotalSafety`: a request that is alone has recalculated from the rows as they are; the sum stays closed. For `SettlementSafety` and `StatusSafety`, `RowInv` says that the row a writer holds is still the row of
the table, or that the payment is gone, which is where two writers differ. `SettlementTypes` adds to the types that a request stands at a statement of its operation (`Placed`).

### Invoices, payments and the backfill

`RepairSafety` is about `LedgerBackfill`, that is the requests about invoices and payments with
any number of them in progress, detached deletions, process exits and the backfill. `InvoiceInv` has five parts: `Alone` (an undisturbed request is the only one in progress), `InPlace` (which requests reach a
statement), `Known` (what an undisturbed request has read is still so, and what it has written is right), `LastRight` (the same of the request that
ended last) and the shape of the state. Most steps lead to a statement of which nothing has to be known yet (`QuietMoves`) or leave the request disturbed (`DisturbedMoves`); the rest are
the readings and writings of the status (`StatusSteps`) and of the debt (`SyncSteps`). The sums over the ledger stay closed, since what matters is when they are taken.

`AllocatedSafety` opens them. `AllocInv` says that whoever is about to write a row of a payment (a `Claim`: a manual allocation after its check, or the backfill
with what is left of a payment it has selected) has room for it beside the rows that are there, unless the payment was moved or is gone (`Covered`), and that the backfill
has selected a payment once (`OneEach`). A step either eases a payment, so that its claims stay covered (`Easing`), or makes a claim from what it reads (`ReadClaims`,
`SelectClaims`, `NextClaims`), or turns one into a row (`InsertClaims`, `ActiveClaims`, `OrphanClaims`). TLC checked `AllocInv` with two requests in progress first,
which showed that two manual allocations of one payment are a race too: `moved` counts them since. The lemmas on sums (`SumAdds`, `SumType`, `SumZero` and those that
compare the sums of two functions) are described below.

### Portal

`MediaSafety`: `NoDanglingPath` alone is not inductive: a request that is going to write its own file must still have it. `MediaInv == MediaTypeOK /\ MediaBounds /\ OwnFile /\ OneSlot /\ NoDanglingPath` adds that
file numbers are not used twice, that a pending update's file exists, and that no two requests own the same file. `PortalFiles` carries the
result to the composed `Spec`, whose other steps leave the files alone.

`PortalSafety`: `DocInv == MediaInv /\ DocTypes /\ InHand /\ (raced \/ (Fresh /\ RowInv /\ CacheInv))` says, while nothing raced, that a request about to write has read the row as it is
now, that what a publication is going to cache is what it published, and that a viewer about to fill the cache has read the published document. The cases with
something raced are trivial, but every step has to preserve that `raced` is stable; `RestInv` handles the ends of
requests once for all, `SaveWriteInv`, `PublishWriteInv` and `CacheSetInv` the three kinds of writes. `PortalTypes` bounds the version numbers, which requests increment from what they have read: there are two
numbers which no version in the row or in any request's hands exceeds, and which add up to at most the requests that are not pending (`VersionInv`).

### Billing

`RepairExact` and `AdjustLimited`: `DebtInv` says of each request what it may be at (`Placed`) and what it knows of the representatives nobody else has touched (`Knows`): what
it has read is the sum, what it is about to write the debt, what is cached after its own invalidation the debt as well, and a plan differs from the stored debt by at most the limit.
`Disturbed`, `Moves` and `Quiet` say, for all requests at once, what the steps of the others leave of it.

`ProcessingSafety` and `BatchSafety`: `BatchInv` says where a request that has a batch stands (`Working`), that its count is the number of invoices issued to it while the batch is not in
doubt (`Counting`), and the same of batches between requests (`Grouping`). The repairs and the batches meet only in the deletion of invoices.

### Upload

`FlowInv` contains the invariant of the pool, `PoolInv`: a task that was given to a worker is in one place, the channel to it, its parses, or the channel back (`Places`), with at most one verdict that is not a
cancellation and nothing of the task after it; the queue is what is pending, in order (`Waiting`); and a worker that is free while tasks wait would be given one in the same step (`Dispatch`, `Dispatched`), or some worker could not be
loaded. `VerdictKeeps`, `StartKeeps`, `PostKeeps`, `CancelKeeps` and `DropKeeps` are what the messages do to the places. `CompletedIsFinal` follows because nothing is left that could restart
a completed task. For the flow, `FlowInv` adds that nothing but the file selected last is debounced, parsed or subscribed to while nothing is mixed.

### Sums, and what is only model-checked

The sums of the code (rows of a payment, invoices of a representative, payments of a partner) are folds over finite sets, defined by `CHOOSE` of a function that satisfies the recursion. The proofs need no
induction theorem: a smallest set for which the recursion had no solution, or for which the sum were no number, is contradicted (`WFMin` on `<`, lemmas `LeastNatural`, `AddsExists`, `FoldExists`). What an increase of one summand
does to the sum follows in the same way.

Only model-checked: the liveness properties `SettlesUnlessStranded` and `ValidationEnds`, as the prover does not reason about fairness (`ENABLED`). The three findings are counterexamples
of TLC and need no proof. What a recursive definition computes for every input (that the fold is the mathematical sum) is not stated, only what the properties need of it.

## 5. Observed in the code, not expressed by a run

* `index.ts:241` gives the worker a transport that does nothing (see Outbox).
* `stop()` between `start()`'s await and its `setInterval` leaves the interval armed, and a further `start()` leaves it armed for good
  (`OutboxTimers`, the exception of `StoppedIsQuiet`). The worker's start at boot and the `OutboxMonitor` never happen: their flags are kept in memory and are off at boot.
* A manual allocation whose activity log fails is recorded as failed although its row exists.
* Two overlapping `syncRepresentativeDebt` calls can leave the older result in `total_debt`.
* A commission payment is created twice when its recalculation fails and the operation is retried.
* `POST /api/payments` may answer 500 although the payment exists (`routes.ts:1595`), so that repeating it creates the payment twice.
* `PUT /api/payments/:id` may lower an amount below what is allocated, contrary to I1 of `ledger-invariants-basic.spec.ts:26`; `amount_dec` is never written.
* `applyPartialSettlement` (`storage.ts:682`) writes what it computed from an old row, so that with two settlements at a time a paid payment can become pending
  again, contrary to `sales-partners-routes.ts:273`.
* Two runs of `distributePartialOrphans` at a time would allocate a payment twice: their keys differ when they reach different invoices.
* The overdue job compares a Persian text date with `CURRENT_DATE` and sets a column that does not exist.
* A deletion blocked by the foreign key of `payments.invoice_id` ends the process through the handler of
  unhandled rejections (`index.ts:423`).
* `rollbackTransaction` restores amount and debt unconditionally; the batch rollback writes
  projected debts even when deletions failed; `executeAtomicInvoiceEdit` has no route.
* Reconciliation plans are applied without reading the debts again; `getReconciliationStatus` uses
  columns that are absent or never written.
* `completeBatch` is not awaited (`storage.ts:809`); a generated batch is completed despite failed invoices.
* Guard metrics taken from the queue are lost when their insert fails (the exception of `EventsOnce`). Some event types carry amounts
  (`PAYMENT_OVERFLOW requested=...`), so counts by type stay small and the thresholds by type of `guard-metrics-thresholds.ts` do not match them.
* `README.md:255` of the repository describes `outbox_enabled` as off/shadow/active; the code knows off and on.
* `/api/outbox/status` reports an id as a count.
* Saving a draft and publishing are each a read and a later write of one row, so a draft saved in between
  ends up marked `published`, while
  `docs/portal-content/unified-architecture.md` asks for drafts that do not interfere with a publication.
* A publication mirrors announcements that have expired, while the legacy fallback of the public endpoint
  compares `expires_at` with NULL by `eq`, which is never true. An upload deletes the file it replaces although a published document may still name it. The legacy
  `PUT /settings` can answer 400 after some blocks were written, and then does not invalidate the cache.
* An `ADJUST_DEBT` of a reconciliation overwrites whatever was written after the plan; then the "safety limit" of
  `MAX_ADJUSTMENT_AMOUNT` does not bound the change. `getReconciliationStatus` and the cancellation look for a status RUNNING
  that the run never stores.
* A system correction may compare with an outdated cached calculation, and then writes it. `performMonitoringCheck` corrects twice. An inactive
  representative keeps the projection of a rollback even if the deletion was refused.
* The stream of dashboard events is fed by `POST /api/payments` and the overdue job only, although its header promises an event after every financial change.
* Client: `jobCodeRef` is set before the job exists, so the monitor hides the error panel when `createImportJob` fails. A worker that failed to load stays in the
  pool and its tasks stay in progress for ever; `handleWorkerError` marks the tasks of the other workers as errors too, which may later become completed,
  and does not look at the queue. If `new Worker` throws for one index, the following ones are shifted and their flags are never cleared.
  `cancelTask` has no caller in the pages; a cancelled task keeps being parsed and may become completed.
* `syncAllRepresentativesDebt` runs ten synchronisations at a time; the model has them as independent requests.

## 6. Plan

In this order; the existing runs are to be extended rather than joined by further ones.

1. `FinancialCache` with the query cache of the pages over it (`queryClient.ts`, `invalidateFinancialCaches.ts`): how old can a figure on the screen be. The stream of
   dashboard events is not part of this: at this commit `GET /api/dashboard` answers without figures and no page shows those of an event.
2. Theorems beyond the runs: `PaymentSafety` when the requests in progress repeat each other's lines, as `ledger_requests` lets them; the retries of
   `DebtRepair` as a refinement of one abstract repair, which its four variants would implement.
3. `IngestionState` (`state-manager.ts`): checkpoints and resumption after a restart. Only the script `validate-phase-c.ts` calls it today.
4. The overdue job and `rollbackTransaction` as disturbances of `LedgerBackfill`; two payments there, once the state space allows it.

## 7. Not modelled, and why

Parsing and summing of usage records, report arithmetic, statistics and listings are sequential and
pure. The Python service repeats the engine's arithmetic. Sessions and roles hold no state the properties
are about. Formatting of dates and messages, logging and the wording of errors are left out,
except where a conversion changes a decision: the due date read with the wrong calendar (`Late`) and the amount that is
NaN. The connection pool, delays between retries and the classification of errors in `executeWithRetry` are abstracted to "a
failed statement may be repeated". A backup reads the tables one after the other and is no snapshot by
construction. The pages of the web client other than the upload keep no authoritative state. `PROJECT.json` has the reason
for each component.
