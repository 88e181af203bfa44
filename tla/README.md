# A TLA+ model of Recollect Flow

Recollect Flow captures notes, links and files, processes them in the background, mirrors them to
Notion and lets their owner delete them for good. It runs as one Cloudflare Worker
(`apps/worker-api`) over a D1 database (SQLite) and an R2 bucket. There is no lock and no
long-lived process: HTTP requests and cron invocations run side by side, each statement or `batch`
of D1 is atomic, and everything between two awaits of a request may be overtaken or lost. The
correctness of the system lies in the `WHERE` clauses, the unique indexes, the foreign keys and
the triggers. That is what these modules model and what they are checked for.

Paths below are relative to the repository's root; `W/` stands for `apps/worker-api/src/`.

## The system

| Component | State | Operations | What makes it correct |
|---|---|---|---|
| Job queue (`W/jobs/job.service.ts`, `job.admin.service.ts`, `capacity-job.service.ts`) | `processing_jobs`, `processing_job_results` | enqueue, lease, heartbeat, complete, submit result, fail, defer, release, retry by hand | one holder at a time; no work on an outdated item; a result stored once and never changed; bounded retries; no stranded job |
| Generation trigger (`migrations/0023`) | `items.processing_generation` | fires on every source, privacy or deletion change | supersedes the active jobs of the old generation in the same transaction |
| Capture (`W/captures`) | `items`, `processing_jobs` | create, schedule processing | an item gets its first jobs, or stays without if scheduling fails |
| URL acquisition (`W/jobs/extraction/source-acquisition.*`) | evidence rows, jobs | fetch, store outcome, chain an enrichment | outcome of the current source only; one enrichment |
| File extraction (`W/jobs/extraction/extraction.*`, `submitExtractionResults`) | extraction records, jobs | extract, submit, chain | as above, with several batches |
| Enrichment (`W/jobs/enrich.*`) | derived fields of `items`, jobs | call a provider, write fields, complete | owner's overrides and newer generations win |
| Source evidence and recovery (`source-evidence.service.ts`, `source-recovery.service.ts`) | `items`, jobs | supply text, replace URL, retry the source | the losing one of two edits does not change the item (it may end its acquisition, see `ReplaceUrlLoses`) |
| Privacy and policy (`W/policy`) | `items.privacy_level`, jobs | change the level, drop derived data, reprocess | nothing of the old level is processed any more |
| Item routes (`W/items`) | `items` | edit, delete, restore | versioned |
| Permanent purge (`W/recovery/purge*`, `canonical-purge.service.ts`) | `purge_workflows`, `purge_steps`, `purge_receipts`, mirror in R2 | request, confirm, run the five steps | steps in order, resumable, a receipt for all that is gone |
| Notion sync (`W/sync`) | `sync_attempts`, the item's page | lease, create or update a page, complete | one page per item; none after a purge |
| Attachments (`W/attachments`) | `attachments`, R2 objects | upload, link, clean up, delete | no row without object, no object nobody finds |
| Aggregate status (`W/jobs/aggregate-processing-state.ts`, migration 0024) | `items.processing_status` | derive, reconcile | a function of the current generation's jobs |
| AI capacity and circuit breaker (`W/jobs/ai`) | windows, reservations, breakers | reserve, settle, trip, probe | no window overdrawn; one probe at a time |
| Digests (`W/digests`) | runs, deliveries | build, lease, send, reconcile | no message twice without the owner's word |
| Backup, restore, integrity, export (`W/recovery`) | artifacts, restore runs | back up, restore, verify | a purged item never comes back |
| Search, login limiter, shortcut, web client, contracts, scripts | - | - | queries, front ends, tools |

How they interact: capture, source edits and privacy changes insert jobs; workers lease them from the
background cron (`W/scheduled-handler.ts`), one invocation for all workers, each with a fresh owner
id; URL acquisition and extraction chain the enrichment; the enrichment reserves AI capacity before it
calls a provider; every change of an item's source, level or deletion supersedes its jobs through the
trigger, and every change of a projected column enqueues a Notion sync through another; triggers on items and jobs keep the
aggregate status; a digest is rendered from the items and delivered later; a purge freezes, then removes,
what the others wrote; its receipts keep restores from bringing an item back.

What is hard: reads followed by an await and a write that may no longer be right; leases that expire under a
worker that still runs; answers of a `batch`, of Notion or of Telegram that get lost after the effect; batches whose
statements are not all guarded; five-step workflows that die anywhere; an export of thirteen SELECTs without a snapshot;
requests that the owner makes while a worker or a purge is under way. `PROJECT.json` lists these hazards at their lines, with the properties that
cover them or the reason why none does.

## The modules

| Module | What it models | Proofs | Instance |
|---|---|---|---|
| `LeasedWork` | abstract specification: what the queue promises about a piece of work | | |
| `ProcessingJobs` | the two job tables with all their writers | `ProcessingJobsProofs` | `MCProcessingJobs` |
| `Purge` | the permanent purge | `PurgeProofs` | `MCPurge` |
| `Pipeline` | acquisition, extraction and enrichment of one item, its status, the owner's edits | `PipelineProofs` | `MCPipeline` |
| `Capture` | saving text and files from the web client and the Shortcut; attachments | `CaptureProofs` | `MCCapture` |
| `NotionSync` | the projection of items into Notion | `NotionSyncProofs` | `MCNotionSync` |
| `AiCapacity` | quota windows, reservations and circuit breaker of an AI provider | `AiCapacityProofs` | `MCAiCapacity` |
| `DigestDelivery` | generation, delivery and review of digests | `DigestDeliveryProofs` | `MCDigestDelivery` |
| `BackupRestore` | hosted backups, their retention, and restores against purge receipts | `BackupRestoreProofs` | `MCBackupRestore` |

The modules share no variable: they meet in D1, and each has the effects of the others' statements on the
rows it models. The five steps of a purge are in `Purge`; what they do to jobs, pages, digests and backups is
in the module of each, in the order that `Purge` shows they keep. Where two statements of
different components race on the same rows (a privacy change and a lease, a purge and a sync) both are actions of one module.

An action is one statement, one `batch` or one external request, with the code around it up to the next await. Reads are actions of their own where
something can change before the write that relies on them; where the write's `WHERE` repeats what was read,
read and write are one action. An invocation is a record at a point between two awaits; it may die at any of them. Ids are never
used twice, as UUIDs are not, so "any unused one" is a `CHOOSE` where ids are interchangeable. Operators marked
"Faulty variant" are not part of any specification: each is what a plausible bug would make of the definition after it,
and the property it is paired with in `PROJECT.json` fails with it.

### ProcessingJobs

State: `items` has the columns the guards read (generation, privacy level, deletion), where the
item's purge stands and whether a capture request has yet to schedule its processing; `jobs` is `processing_jobs`;
`results` is `processing_job_results` (at most one payload per job); `calls` are the
`submitProcessingResult` calls between two awaits.

Time. The code takes `now` once per operation and uses it in a later statement, so a guard such as
`lease_expires_at > ?now` may be evaluated late. A job keeps the ticks until it is available (`wait`) and
until its lease ends (`lease`); a statement runs with an `age`, the ticks since its `now` was taken, of at most
`Skew`. `Skew` stands for the time after which the platform has killed an invocation, and
`NumbersAssumption` asks that a lease be longer than that.

Actions, one per operation. Where the code reads and then makes a guarded write that repeats what was read (failJob, the manual retry), it is one action; where
the write does not repeat it, two.

| Action | Code |
|---|---|
| `EnqueueProcessingJob` | `enqueueProcessingJob` (an operation of the service; production code inserts by the next ones) |
| `ScheduleProcessing`, `ScheduleProcessingFails` | `scheduleProcessing`, unguarded, and the catch that swallows its failure |
| `RetrySource` | `SourceRecoveryService.retry` |
| `LeaseProcessingJob` | one row of `leaseProcessingJobs`; its order and limit are left open |
| `HeartbeatProcessingJob`, `CompleteProcessingJob`, `ReleaseProcessingJob`, `DeferProcessingJob`, `FailProcessingJob` | the worker's guarded UPDATEs. The completion of an enrichment (`enrich.service.ts:265`) has the guard of `CompleteProcessingJob` |
| `SubmitExtractionResults`, `PersistOutcome` | the batches that end an extraction or an acquisition and may chain an enrichment |
| `SubmitCheck`, `SubmitStore`, `SubmitNothing`, `SubmitReread`, `Return` | `submitProcessingResult`: its reads, its batch with and without effect, the re-read after an error, the end of the call |
| `ManuallyRetryProcessingJob` | the owner's retry; it does not look at the purge |
| `SupplyText`, `ReplaceUrl`, `ReplaceUrlLoses` | the source edits, and a lost `replaceUrl`, whose retirement is not guarded |
| `DeleteItem`, `RestoreItem`, `ChangePrivacy`, `ChangePrivacyLoses` | item routes and `changePrivacy`, and a lost one, whose DELETE is not guarded |
| `CheckPurge` to `PurgeItem` | as much of the purge as the job guards see |
| `Tick` | time |

Abstracted: input hashes (jobs of another source revision are of another generation), policy
columns, priority, the pause flag, usable text and provider eligibility (`enrich` and the chained INSERT
are nondeterministic), the reads of `RetrySource` that only refuse. A lost `replaceUrl` retires more than
the code does, which spares a job whose hash matches. A payload is a model value that stands
for its whole content with its submission id. Rows imported by a restore have no generation, are never
current, and are left out. Ids are never used twice, as UUIDs are not.

### Purge

State: `items` (existence, deletion, version, R2 objects), `workflows` with the requests about to write them,
`steps`, `runs` (one `runWorkflow` call each, at a point between two awaits), `receipts`, `mirror`.

An action is one statement or one external call of `runWorkflow`; the requests of
`PurgeService` are split where the item may change between a read and a write. There is no clock: a confirmation
may expire and a lease may lapse at any time. A run's slot is used again after it died; the owner
id is fresh in the code, and `Working` tells the two apart. `StepThrows` is an error inside
the `try` block, `CompleteStepThrows` one where `completeStep` has written its row, `RunDies` the end of
the invocation. `faults` bounds these and the lapses of a lease whose owner still works. `Survivors` are workflows that may be
an earlier purge, complete when the model starts, that its item survived because it was restored meanwhile.

The freeze and archive steps act on state of other modules and here only succeed, are skipped or fail.
The other rows of the canonical batch and the retention date of a receipt are left out. The deletion of
an object and the mark on its row are one action: a crash between them only deletes the object
a second time.

### Pipeline

State: the `item` (source, level, deletion, one derived field with its override, the materialised status), the `jobs` of the current
generation, its `extraction` record, the `evidence` of its URL, and `calls`, what each worker
call has read and not used yet. `jobs` has the latest row of each stage, which the status is made of, and one row, `older`, for all enrichments before the latest: failed if one of
them is, pending or processing while the owner has one retried, at most one at a time because of the unique index. Acquisitions before the latest cannot be
retried by hand, and a generation has one extraction per file. `unread` and `missed` are history: evidence no completed enrichment has read, and whether some of it was left to an enrichment at work, or to an older one that was retried.

| Action | Code |
|---|---|
| `LeaseProcessingJob`, `LeaseExpires`, `FailProcessingJob`, `GivesUp` | the queue, by status only; a call that gives up keeps its lease |
| `PersistOutcome` | the batch that ends an acquisition (`source-acquisition.service.ts`) and may chain the enrichment |
| `SubmitExtractionResults` | the batches that end an extraction and may chain it |
| `ReadItem`, `ReadExtractions`, `ReadOverrides`, `CompleteEnrichment` | `enrich.service.ts`: its three reads and its guarded batch |
| `EditField`, `ResetOverrides`, `DeleteItem`, `RestoreItem` | item routes |
| `SupplyText`, `ReplaceUrl`, `LostReplaceUrl`, `RetrySource` | source edits and recovery; a lost `replaceUrl` still retires the acquisition |
| `ManuallyRetryProcessingJob` | `manuallyRetryProcessingJob` and its UPDATE in `retry` (`job.admin.service.ts`), of any failed row |
| `ChangePrivacy`, `LostChangePrivacy` | `policy.repository.ts`; a lost one still deletes the jobs |
| `Reconcile` | the scheduled reconciliation of the status |

The triggers of migration 0024 are the operator `Store`, through which every write of a row they watch goes; `Decided` is a second,
independent translation, of `aggregate-processing-state.ts`.

Abstracted: three levels (`unknown` behaves as `personal`), one attachment, one derived field (`summary`), attempts
and back-off (in `ProcessingJobs`), the pause flag and whether an enrichment finds usable text (nondeterministic), the purge, races of
scheduling with a privacy change and the foreign key that makes `changePrivacy` abort (both in `ProcessingJobs`).

### Capture

State: `kind` of each submission, `clients` (the form or the Shortcut that holds a submission until it is confirmed), `requests` being
served, `events` (`capture_events` by idempotency key), `holder` (`item_deduplication_keys`), `jobs` scheduled, attachment `rows`, R2
`objects`, `expired` reservations, the `cleaner`, and the attachments an operator has `removed`.

The client's actions are the write-ahead of the operation, each request of the upload, the loss of its answer, the status check
after it, retry, restart and discard (`CaptureForm.tsx`, `FileCaptureForm.tsx`, `file-upload.ts`, `capture-recovery.ts`). The server's are the steps of
the init, PUT, finalize, capture and Shortcut handlers, one for each await that touches D1 or R2, with the batch that fails, and the batch that commits
and loses its answer. The cleanup lists, deletes and marks, and dies in between; so does the operator's
`DELETE` of an attachment (`DeleteAttachment`, `MarkDeleted`), which does not look at its status.

Abstracted: URL normalisation and hashes (the model's texts are all duplicates, its files never), the status GET and the init as one step each,
steps of finalize and of the Shortcut that nothing can come between, the cleanup one row at a time, the pause before a retry, the
browser's limit of stored operations. The follow-up form is left out.

### NotionSync

State: the `items` columns the projection uses (version, synced, page, missing, deletion, how far a purge is), `attempts`
(`sync_attempts`), `runs` (iterations of the worker's loop), the `pages` in Notion. Notion is external: a
request has its effect before the client gives up on it or not at all, and a query sees every page.

Actions: `ScheduleSync`, `ChangeProjection` (the projection trigger), `SetDeleted`, `CheckRetry` and `ManuallyRetrySync` (the checks, then the UPDATE, which
looks at the attempt alone), `CheckRecreation` and `ApproveRecreation`; of a run `LeaseSyncAttempt`, `ReadItem`, `QueryPages`, `UpdatePage`, `CreatePage`, `PersistPage`,
`CompleteSyncAttempt`, `RequeueSync`, `MarkMissing`, `FailSyncAttempt`, `RunThrows`, `RunDies`; leases that lapse; `DeletePage`, by hand; of a
purge `FreezeItemWork`, `ArchiveProjection`, `PurgeItem`.

Abstracted: the 25 items of a batch are independent runs; a restore during a purge is in `Purge`; nobody restores a deleted page by
hand. `heartbeat`, `release` and `enqueueSyncAttempt` have no caller in production.

### AiCapacity

State: `windows` (reserved, consumed), `reservations`, the `breaker`, and where each of the `calls` stands. A call is admitted by the breaker, perhaps as
its half-open probe, writes a reservation intent, applies it to every window in one statement, sends one request and perhaps a repair, reconciles, and tells the breaker
in one statement (success) or two (`CountFailure`, `OpenBreaker`). Each of these is an action, as are their failures (`AdmissionThrows`, `ReconcileThrows`,
`RecordSuccessThrows`), the cleanup of expired reservations, the end of a probe's lease, the end of windows and the death of a call. `sent` and `uncharged` are history.

Abstracted: quota is counted in requests, the other three units take the same path; one provider and operation, since a
plan never holds more than one; a window stands for its current row, since past rows are not read again.

### DigestDelivery

State: `items` as far as a digest speaks of them, their `purges`, `digests` (`digest_runs`), `deliveries`, `runs` (an invocation that generates,
queues, leases, renders, sends), the `chat`. Telegram is external: its answer may say that the message arrived, that it did not, or nothing.

Actions: `GenerateDigest`, `RegenerateDigest`, `InsertRun`, `QueueTelegramDelivery`, `LeaseTelegramDeliveries`, `DeliveryText`, `SendMessage`,
`MarkDeliverySent`, `MarkDeliverySkipped`, `MarkDeliveryFailure`; the operator's `MarkReviewed`, `DeliverReviewed`, `RetryFailedDelivery`,
`ReconcileUnknownDelivery`, `CancelDelivery`; `ChangeItem`, `PurgeDigestReferences`, `PurgeItem`; leases that lapse, runs that die or throw.

Abstracted: wording and sections; a digest is taken to have wording of an AI provider; lookup, selection and first rendering are one
step; the crons of other periods are idle runs.

### BackupRestore

State: `rows` of D1 by item, `bytes` in the bucket, the attachments marked `deleted`, `receipts` in D1 and their `ledger` in the bucket, `purges`, `backups` with the calls that make
them, their objects (`stored`) and downloads (`kept`), the retention `horizon` and the cleanup, `restores`, `losses` of the database.

Actions: `Capture`; of a purge `DeleteBytes`, `MarkDeleted`, `PurgeItem`, `MirrorPurgeReceipt`; of a backup `CreateHostedBackup`, `ReadTable` (one SELECT at a time, in any order), `PutBackup`,
`MarkVerifying`, `MarkComplete`, `BackupThrows`, `MarkFailed`, `DeleteFailed`, `BackupDies`, `ReadHostedBackup`; of the cleanup `FindExpired`, `DeleteExpired`,
`MarkExpired`, `CleanupThrows`; of a restore `BeginRestore`, `ReadReceipts` (those of D1), `Plan` (with the bucket's ledger), `CheckTarget`, `RestoreReceipts`, `RestoreItemShell`, `RestoreItemChildren`,
`RestoreDeferredReferences`, `VerifyRestoredState`, `CompleteRestore`, `RestoreStops`; `Lapse` of a retention and `LoseDatabase`. After `MarkComplete` the call
ends, or throws and goes on to `MarkFailed`, which finds nothing to fail, and `DeleteFailed`.

Abstracted: an item is a file capture with four kinds of rows; the other child tables follow the attachment's path. Duplicate references, the freeze step of a
purge and the weekly claim of `backup-schedule.ts` are left out, and a purge begins only of an item whose rows are all there.

## What the runs check

| Run | Instance | Properties |
|---|---|---|
| `jobs_owner_edits` | one URL item, two rows, two workers, two levels, three generations, one submission | `TypeOK`, `HeldJobIsCurrent`, `ResultOnlyOfComplete`, `FrozenItemIsIdle`, `KeepsPromise` |
| `jobs_submissions` | one job of an item with an attachment, two workers, two payloads, two calls, three generations, fair | `AcceptedIsStored`, `AttemptsBounded`, `OnlyHolderDelivers`, `NoStrandedJob` |
| `purge_steps` | one item with one object, two workflows (one may be an earlier purge), two runs, one fault, fair | `TypeOK`, `StepsInOrder`, `GoneIsAccountedFor`, `CompleteIsMirrored`, `DoneIsFinal`, `ConfirmedPurgeEnds` |
| `pipeline` | a URL; a URL with file and text; a file with a note; a text. Two calls, two edits | `OverrideKept`, `StatusIsContract`, `CompleteIsEnriched`, `PendingIsMoving` |
| `capture` | two texts, or one file, or one Shortcut file; two requests, two reservations, one of which an operator deletes | `SavedIsKept`, `OneOriginal`, `NoStrandedObject` |
| `notion_sync` | one item, three attempts, two runs, two pages, one fault | `OnePage`, `NoUpdateLost`, `SyncedIsShown`, `MissingIsGone` |
| `ai_capacity` | two calls, a minute of two requests, a day of three | `NotOverdrawn`, `HeldIsReserved`, `ChargedExactlyOnce`, `OneProbe`, `OpensAtThreshold` |
| `digest_delivery` | one item, one period, two digests, two runs, one fault | `OneMessage`, `OutcomeIsTrue`, `CurrentAtSend` |
| `backup_restore` | two items, of which one is purged, one backup, two restores, two lost databases | `NoResurrection`, `ForgottenByNobody`, `RestoreIsExact` |
| `jobs_idempotence`, `purge_completed`, `purge_confirmed` | see Findings | violated |

`OverrideKept`, `SavedIsKept`, `OnePage`, `NotOverdrawn`, `OneMessage` and `NoResurrection` have the type invariant of their module as first conjunct.

What they show:

- `HeldJobIsCurrent`: no edit, deletion or privacy change leaves a worker with a job of the item as it was. The
  generation trigger and the DELETE of `changePrivacy` see to it, not the worker's checks. A job may be held while a
  purge is queued, up to its freeze step; the guards then refuse its result.
- `FrozenItemIsIdle`: after the freeze step jobs do get inserted (captures, manual retries and chained enrichments
  do not look at the purge) but the lease guard keeps every one of them from being worked on.
- `ResultOnlyOfComplete`: the foreign key from results to jobs makes `changePrivacy` abort on an item with a result; without it
  a result could survive its job.
- `AcceptedIsStored`, `OnlyHolderDelivers`: what a caller is told holds in spite of lost answers and takeovers.
- `KeepsPromise`: the queue refines `LeasedWork`: a hold ends by its holder, by the owner or the purge, or by another worker once
  it has lapsed; an output is delivered once, from a hold, and never changes until the work is erased.
- `NoStrandedJob`: a waiting, deferred or abandoned job is leased again unless the item moves on.
- `StepsInOrder`, `DoneIsFinal`: two runs of one workflow, with stalls and takeovers, neither skip a step nor undo one.
- `GoneIsAccountedFor`, `CompleteIsMirrored`: no crash separates a deletion from its receipt or a completion from the mirrored receipt.
- `ConfirmedPurgeEnds`: a confirmed purge ends once faults stop, unless an earlier purge of the same item, from which it was
  restored, left a receipt. That purge never ends: each run fails with `PURGE_RECEIPT_MISSING`.
- `OverrideKept`: the owner's words stay in a field whatever enrichments, retries and privacy changes do, except when the override is
  written between the enrichment's read of the overrides and its batch, which checks none.
- `StatusIsContract`: the status the triggers of migration 0024 keep agrees with the contract the TypeScript decides, after any sequence of writes, except in the
  two cases it names: an item without current jobs, and a lease that expired, which no trigger notices.
- `CompleteIsEnriched`, `PendingIsMoving`: acquisition and extraction end in any order and none leaves the enrichment to a stage that has already gone. Any failed
  row of the generation may be retried meanwhile. What arrives while an
  enrichment is at work, or is handed over while an older enrichment has been retried, is chained by nobody (`missed`): if the older one fails again, the latest is complete, and so is the item. And a generation that begins without a job it needs stays pending (`MissingStage`): after a restore, a supplied text or a privacy change of an item with a file.
- `SavedIsKept`: a client that lets go of its copy has its item, linked to its bytes. Excused are a link made after the
  reservation expired, a Shortcut request that discards what its own batch has linked, and a file the operator deleted.
- `OneOriginal`: racing captures of one text make one item, with one processing.
- `NoStrandedObject`: an object does not outlive its row, except when its PUT ends after the expiry or the deletion, or the delete fails.
- `OnePage`, `NoUpdateLost`, `SyncedIsShown`, `MissingIsGone`: with lost answers, pages deleted by hand and approved recreations, an item has one page, which shows its row or has work in sight, and none once it is purged.
  They hold as long as no run goes on after it has lost its attempt (`overtaken`: no write but those of the attempt repeats the lease), `OnePage` except for pages whose link a purge found not stored (`unseen`), and `NoUpdateLost` as long as
  no run dies before it re-enqueues (`dropped`; the comment at `W/sync/sync.worker.ts:178` does not except that).
- `NotOverdrawn`, `HeldIsReserved`: reserving in all windows at once is atomic, and giving back never takes from another call.
- `ChargedExactlyOnce`: each request is charged once, unless its reservation ran out first (`uncharged`; ADR text at `docs/DECISIONS.md:100` promises more).
- `OneProbe`, `OpensAtThreshold`: the two statements that count a failure and open the breaker may interleave in any way.
- `OneMessage`, `OutcomeIsTrue`: a period gets one message and its recorded outcome is true, except after a 5xx for a message that arrived, a message sent
  without the lease, or a purge of the record.
- `CurrentAtSend`: no title of an item made private or deleted, and no AI wording about other facts, goes out because of a change made before the rendering.
- `NoResurrection`: no backup, restored at any time, brings a purged item back, unless the database is lost before the receipt is mirrored or a purge overtakes a restore that has read the receipts of D1.
- `RestoreIsExact`: what a restore verified is its plan. `ForgottenByNobody`: an expired copy is listed by the cleanup or reported by an integrity run.

The names in parentheses are history variables: they mark the cases that the code does not handle, and each property says of which
it is excused. Without its excuse the property is false.

Every property has a mutant in `PROJECT.json` with which it fails.

Bounds, and why they suffice. Two workers, runs, calls or requests, because a takeover or a race needs two; two rows, because a chained or
superseding job needs a row beside the old one; one item, because no statement of the queue, the sync or the pipeline relates two items except through unique
ids (two in `backup_restore`, one of which, in `Purged`, may be purged and the other not); three generations, for a deletion and a restore in the middle of a purge; `Skew` 1 and
`LeaseTicks` 2, the smallest with a late statement inside a lease; `MaxAttempts` 2 and `MaxManualRetries` 1, for a retry, a last attempt and
a retry by hand (the code has 5 and 3); edits up to 2 or 3, for a deletion and a restore, or two edits that race; one fault, for a takeover; three sync attempts, for one
that is superseded, one that fails and one that is re-enqueued; two pages, for a second page; two digests, for the cron's and the operator's version of a period;
a threshold of 2 with up to 3 failures (the code has 3), for a failure counted past the threshold; limits of 2 and 3 requests, so that each window refuses a call the other would admit; two databases lost, for
a restore into a replacement of a replacement. The proofs do away with all of them for every safety property. Symmetry is used only in
runs without liveness. Deadlock is checked for the queue, the pipeline, the AI capacity and the digests. Elsewhere it is switched off: with ids, versions and faults used up nothing is left to do.

Fairness. `jobs_submissions`: time passes, and a job that stays ready is leased. The cron fires for ever and
orders by priority and then by `available_at`, so a ready job is passed over only for as long as older ones are
there. Nothing is asked of the worker after that. `purge_steps`: the cron starts a run of every runnable workflow, a run that has not died goes on, a dead run's lease expires. No fairness for the owner.
The other modules state no liveness: their progress hangs on external services, or on the queue whose liveness is checked.

## Findings

1. `jobs_idempotence`: of two concurrent deliveries of the same payload, both past the first reads, the slower one gets
   `{accepted: false, replayed: false}` though its payload is the stored one (`W/jobs/job.service.ts:528`); `docs/OPERATIONS_RUNBOOK.md:80` calls
   submission idempotent. The same call made a moment later is answered as a replay.
2. `purge_completed`: an item restored after the confirmation keeps its row, loses all else, and gets a receipt that bars it from every
   restore (`W/recovery/canonical-purge.service.ts:126`); the workflow reports completion, which `docs/tickets/OPE-228.md:148` says removes the
   item. The check for this in `W/recovery/purge.worker.ts:91` asks for a missing receipt, and the receipt was inserted in the same batch.
3. `purge_confirmed`: the UPDATE that queues a purge does not repeat the checks of the item (`W/recovery/purge.repository.ts:199`), which
   `docs/API.md:60` promises.

Met on the way, without a run of their own:

- An acquisition that ends with text leaves the enrichment to an extraction still at work; when that ends without text, nothing chains it, the item is shown as failed and
  its acquired text is never enriched (`docs/URL_ACQUISITION_CONTRACT.md:440`).
- A backup whose SELECTs straddle a capture verifies, and every restore of it is refused with `RESTORE_REFERENCE_INVALID`; one that read an attachment's row between
  the deletion of its object and the mark on the row (`W/attachments/attachment.service.ts:26`), or where a purge died between the two, is
  refused with `RESTORE_ATTACHMENTS_UNAVAILABLE`. Once the row is marked the backup is restored, with the attachment marked deleted and without its bytes.
- A backup call that throws after its row is complete (`find` at `W/recovery/backup.service.ts:70`) deletes the object of a complete backup: `markFailed` matches no row, and the delete
  follows all the same. The row says complete until the retention ends, and a download of it fails.
- An enrichment that failed and is no longer the latest can be retried by hand, and while it waits it keeps a hand-over from chaining a new one (`W/jobs/extraction/source-acquisition.service.ts:305`). If it
  fails again, the item is complete and the text that was handed over has been read by nobody.
- A backup call that dies after its PUT leaves a copy the retention never deletes (`docs/DECISIONS.md:120` bounds it to 30 days); an integrity run does report it.
- A sync that read its item before a purge, and creates the page before or after the archive step, leaves a page that no row names: the freeze fails the attempt but
  does not stop the run, and the archive step finds no link. So does a creation whose answer was lost. `docs/DECISIONS.md:122` says that a confirmed purge removes the item from Notion; `OnePage` excuses
  these pages (`overtaken`, `unseen`) and is violated without either excuse.
- A digest generation in flight during a purge stores what it read (`docs/DATA_MODEL.md:139`).
- A file form whose expired upload is collected before its page says so offers no restart (`apps/web/src/FileCaptureForm.tsx:584`).

## What is proved

Checked by TLAPS, for all values of the constants.

| Module | Assumptions | Theorems |
|---|---|---|
| `ProcessingJobsProofs` | `SetsAssumption` (the item kinds are sets of items, `None` is none of the values), `NumbersAssumption` (a lease is longer than `Skew`, the bounds are positive) | `TypeCorrect`, `Invariance`, `HeldIsCurrent`, `FrozenIsIdle`, `ResultIsFinal`, `AcceptedStored`, `AttemptsAreBounded`, `HolderDelivers`, `Refinement` (`Spec => KeepsPromise`) |
| `PurgeProofs` | `PurgeAssumption` | `TypeCorrect`, `Invariance`, `OrderedSteps`, `GoneAccountedFor`, `CompletionIsMirrored`, `DoneStays` |
| `PipelineProofs` | `PipelineAssumption` | `Invariance`, `TypeCorrect`, `OwnersWordsStay`, `ContractIsKept`, `CompleteIsRead`, `PendingMoves` |
| `CaptureProofs` | `CaptureAssumption` (`None` is no key, attachment or request) | `Invariance`, `TypeCorrect`, `SavedMeansKept`, `OneOriginalEach`, `NothingStranded` |
| `NotionSyncProofs` | `SyncAssumption` (`None` is none of the values, at least one attempt is allowed) | `Invariance`, `TypeCorrect`, `OnePageEach`, `NothingIsForgotten`, `HashIsTrue`, `MissingIsTrue` |
| `AiCapacityProofs` | `CapacityAssumption` (finitely many calls, a positive reserve and threshold) | `Invariance`, `NeverOverdrawn`, `ReservedCoversHeld`, `EachChargedOnce`, `OneProbeAtATime`, `FailuresOpenBreaker` |
| `DigestDeliveryProofs` | `DigestAssumption` (finitely many digests) | `Invariance`, `OneMessagePerPeriod`, `OutcomesAreTrue`, `SendsWhatIsCurrent` |
| `BackupRestoreProofs` | `BackupAssumption` (finitely many items) | `Invariance`, `TypeCorrect`, `PurgedStaysGone`, `CopiesAreFound`, `ExactRestore` |

None of the properties is inductive alone. Each `Invariance` is `Spec => []IInv` for a strengthening `IInv`, and all proofs have
one shape: the many actions are shown to move each row, window or run by one of a few relations, and the
invariant is shown for the relations.

- Queue. `HeldJobIsCurrent` needs to know that the active
  jobs of an item are of its generation, or the trigger, which only supersedes those of the old one, would miss some (`ActiveIsCurrentGeneration`), and that every row
  belongs to an item (`JobsArePlaced`). `AttemptsBounded` needs that an active job has an attempt left (`AttemptsLeft`). `AcceptedIsStored` needs `ResultOnlyOfComplete`, so that a stored result is
  not overwritten. The lemma `RowSteps` shows that each action moves each row by a `RowStep`: kept, inserted, taken, given back, ended, revived, deleted.
  For the refinement each of these is a `WorkStep` of `LeasedWork`; that a hold taken over has lapsed is the comparison of `lease` with the age of `now`.
- Purge. Before the first run no step is touched, after the last all are done (`FlowsPlaced`); a run is past steps that are done
  (`RunsPlaced`), and what a done step leaves behind is there (`DoneIsEvident`): no object after the second, receipt and mirror after the fifth.
  That evidence is stable, since a receipt is only ever added and objects only ever removed.
- AI capacity. Each action moves each window by a `WindowStep`: kept, begins, releases, reserves, charges. `NotOverdrawn` needs
  `HeldIsReserved`, and that a call is charged no more than it reserved (`RequestsCounted`); `OneProbe` that a probe on time is the one of the lease (`ProbeIsLeased`).
  For `ChargedExactlyOnce` each action moves the requests in flight of a window by a `FlightStep`: they stay, begin anew, one goes out, those of one call land, or the window is
  excused; it needs that a reservation has used what its call has sent (`UsedIsSent`).
- Digests. Every step but a lease and a message is a "move" of a digest, a delivery and a run (`MovesAreSafe`); a lease gives a delivery to one run
  (`LeaseIsSafe`); a message needs that no version of the period has been sent or may have been (`MessageIsSafe`): deliveries of a period are one
  (`OneLive`), their states tell the truth (`Truths`), and a run knows what it rendered (`Knowledge`).
- Pipeline. `StatusIsContract` follows from `StatusIsShown`: in a live item the status is the snapshot the triggers compute from its jobs, since every statement that touches them is followed by
  a trigger. `CompleteIsEnriched` and `PendingIsMoving` need to know which stage is to chain the enrichment at each moment (`EnrichmentIsChained`, `UnreadIsChained`) and that an
  enrichment at work has read what is there, unless something came since (`ReadIsUnread`); and that enrichments before the latest exist only beside a latest one (`OlderIsOlder`). One lemma per hand-over: acquisition, extraction, enrichment.
- Capture. Each part of the invariant speaks of one client, request, event, row or of the cleanup, and relates it to the others: a client waits for a request of its own (`ClientKnown`), a request has found what
  it relies on and it still holds (`RequestKnown`), an event names a linked row whose bytes are there or excused (`EventKnown`), a status says what became of the bytes as long as anybody may ask (`RowKnown`),
  and the cleanup holds expired rows only (`CleanerKnown`). `OneOriginal` needs that one request alone is about to schedule a capture (`OneSchedules`); the discard of a Shortcut request, that nobody else has its row (`OwnAttachment`).
- Notion. The state is taken apart item by item, as a step concerns one item and leaves the others as they are (`OthersStay`). While no run has gone on without its attempt, each item is `Undisturbed`: the run that owns its attempt can rely on what it
  read (`Reliable`), a run about to re-enqueue has left an older version behind (`Requeues`), and pages, hash and sight of an attempt are as the properties say. `OneActive` is the unique index. The parts of `Base` hold in any case.
- Backups and restores. A purge is remembered in the database, the bucket or the excuse (`ErasedIsKnown`), and each restore works off its plan pass by pass (`RestoresPlaced`), with no
  purged item in it: a plan is made of two reads, and what is purged between them is excused, or has its receipt in the ledger. `ForgottenByNobody` follows from where an object's row stands while its call is at work (`BackupsPlaced`). `ExactRestore` is an action property: the step that verifies a restore comes after all passes, when every planned item is there,
  and the counts it compares leave room for no other row.

Each `IInv` was checked by TLC on the instance of its run before it was proved. Sets that a property counts are defined without recursion, as the provers have no induction over data:
`ChargedExactlyOnce` counts the requests in flight as a set (`InFlight`) and does not sum them.

Only model-checked: `NoStrandedJob` and `ConfirmedPurgeEnds`, as liveness under fairness is out of the prover's reach. Every other property of a passing run is a theorem.

## Not modelled

- Search (`W/search`): read-only queries over an index that triggers keep; no state of its own to get out of step.
- Login abuse limiter: counters of login attempts, apart from everything else.
- The staging entry and the contracts and scripts: a rehearsal build, shared schemas, build and release scripts.
- Of modelled components: the weekly claim of `backup-schedule.ts`; the report an integrity run writes and the CSV export; downloads and usage pages; lifecycle status, duplicate marks and feedback of items; prompts, schemas and the mock adapter of the AI providers; the fetcher's and the parsers' work on documents,
  which `Pipeline` has by the outcomes the workers tell apart; lists, review pages and the follow-up form of the web client.

## What is left

1. The weekly backup claim (`backup-schedule.ts`).
2. An abstract specification of captures or of the Notion projection, and the proof that the module implements it, as `LeasedWork` is for the queue.

## Running

`tlc -config JobsOwnerEdits.cfg MCProcessingJobs`, and likewise for the other configurations; `tlapm ProcessingJobsProofs.tla` for the proofs. The largest runs are `notion_sync`, with about 6 million distinct states, `capture` and `ai_capacity`
with 4, `backup_restore` with 3.4, `pipeline` with 2.6, and `purge_steps`, with 0.6 million and liveness; each takes one and a half to three minutes on two cores.
