---- MODULE ProcessingJobs ----
(***************************************************************************)
(* The processing_jobs table: the operations of JobService and             *)
(* CapacityJobService on it, and the writers outside them that insert,     *)
(* complete, retire or delete its rows (capture, URL acquisition, source   *)
(* recovery, owner edits, privacy changes, purge).                         *)
(*                                                                         *)
(* Time.  Every operation of the code captures `now` when it is called and *)
(* uses it in a statement that runs later.  The model has no clock: a job  *)
(* keeps the number of ticks until it is available (wait) and until its    *)
(* lease expires (lease), and a statement is run with the age, in ticks,   *)
(* of its captured `now`.  Skew bounds that age: a Worker that takes       *)
(* longer has been killed by the platform.                                 *)
(***************************************************************************)
EXTENDS Integers

CONSTANTS
  Items,            \* rows of items
  UrlItems,         \* those whose source_type is 'url'
  AttachmentItems,  \* those captured with an attachment
  Jobs,             \* ids a row of processing_jobs can get
  EnqueuedTypes,    \* the job types the generic enqueue is called with
  Owners,           \* lease owners
  Levels,           \* privacy levels
  Public,           \* the level whose URLs are fetched
  Submissions,      \* result payloads, each with its own submission_id
  Calls,            \* submitProcessingResult calls in flight
  LeaseTicks,       \* ticks of a fresh lease
  BackoffTicks,     \* bound of the ticks a retry or deferral waits
  Skew,             \* bound of the age of a captured now
  MaxAttempts,      \* MAX_ATTEMPTS, the largest maxAttempts a caller may give
  MaxManualRetries, \* MAX_MANUAL_RETRIES
  MaxGeneration,    \* bound of items.processing_generation
  None

Types == {"acquire_url", "extract", "enrich"}

ASSUME SetsAssumption ==
  /\ UrlItems \subseteq Items /\ AttachmentItems \subseteq Items
  /\ EnqueuedTypes \subseteq Types /\ Public \in Levels
  /\ None \notin Items \cup Owners \cup Levels \cup Submissions \cup Jobs
ASSUME NumbersAssumption ==
  /\ Skew \in Nat /\ LeaseTicks \in Nat /\ LeaseTicks > Skew
  /\ BackoffTicks \in Nat \ {0} /\ MaxAttempts \in Nat \ {0}
  /\ MaxManualRetries \in Nat \ {0} /\ MaxGeneration \in Nat \ {0}

VARIABLES
  items,    \* the columns of items, and its purge workflow, the job guards read
  jobs,     \* processing_jobs
  results,  \* processing_job_results: the payload stored for a job
  calls     \* submitProcessingResult calls between two awaits

vars == <<items, jobs, results, calls>>

Ages == 0 .. Skew

\* purge: no live workflow, confirmPurge between its reads and its UPDATE, state
\* 'queued' before and after the freeze step, the row purged.
\* scheduling: the privacy level a capture request that has not scheduled its
\* processing yet carries, or None.
ItemRecord ==
  [generation : 1 .. MaxGeneration, privacy : Levels, deleted : BOOLEAN,
   purge : {"none", "checked", "queued", "frozen", "gone"},
   scheduling : Levels \cup {None}]

Statuses == {"absent", "pending", "processing", "complete", "failed", "deleted"}

JobRecord ==
  [item : Items \cup {None}, type : Types, status : Statuses,
   generation : 1 .. MaxGeneration, privacy : Levels \cup {None},
   attempts : Nat, retries : Nat,
   wait : -Skew .. BackoffTicks, owner : Owners \cup {None},
   lease : -Skew .. LeaseTicks]

\* Exactly the leased rows have an owner.
JobRow ==
  {job \in JobRecord :
     IF job.status = "processing" THEN job.owner # None
     ELSE job.owner = None /\ job.lease = 0}

AbsentJob ==
  [item |-> None, type |-> "enrich", status |-> "absent", generation |-> 1,
   privacy |-> None, attempts |-> 0, retries |-> 0,
   wait |-> 0, owner |-> None, lease |-> 0]

\* A deleted row's id is never used again: ids are random UUIDs.
DeletedJob == [AbsentJob EXCEPT !.status = "deleted"]

CallRecord ==
  [phase : {"idle", "checked", "unsure", "answered"}, job : Jobs \cup {None},
   owner : Owners \cup {None}, submission : Submissions \cup {None},
   age : Ages, reply : {"none", "accepted", "refused", "error"}]

\* A call past its first step is about a job and a payload.
CallRow ==
  {call \in CallRecord : call.phase # "idle" => call.job # None /\ call.submission # None}

Call(phase, j, o, s, reply) ==
  [phase |-> phase, job |-> j, owner |-> o, submission |-> s, age |-> 0, reply |-> reply]

IdleCall == Call("idle", None, None, None, "none")

\* Every row and every call is well formed.
TypeOK ==
  /\ items \in [Items -> ItemRecord]
  /\ jobs \in [Jobs -> JobRow]
  /\ results \in [Jobs -> Submissions \cup {None}]
  /\ calls \in [Calls -> CallRow]

\* Every item has just been captured and its processing is about to be scheduled.
Init ==
  /\ \E level \in [Items -> Levels] :
       items = [i \in Items |->
                  [generation |-> 1, privacy |-> level[i], deleted |-> FALSE,
                   purge |-> "none", scheduling |-> level[i]]]
  /\ jobs = [j \in Jobs |-> AbsentJob]
  /\ results = [j \in Jobs |-> None]
  /\ calls = [c \in Calls |-> IdleCall]

-----------------------------------------------------------------------------
(* Guards shared by the statements.                                        *)

Exists(i) == items[i].purge # "gone"

\* A purge workflow in state queued, processing or partial.
PurgeLive(i) == items[i].purge \in {"queued", "frozen"}

Active(j) == jobs[j].status \in {"pending", "processing"}

\* The job was made for the item as it is: same generation, same privacy level.
SameEpoch(j) ==
  \E i \in Items :
    /\ i = jobs[j].item
    /\ Exists(i) /\ ~items[i].deleted
    /\ items[i].generation = jobs[j].generation
    /\ items[i].privacy = jobs[j].privacy

\* currentJobGuard
Current(j) == SameEpoch(j) /\ ~PurgeLive(jobs[j].item)

\* Faulty variant: any live lease is good enough.
HoldsByAnyone(j, o, age) ==
  jobs[j].status = "processing" /\ jobs[j].lease + age > 0

\* The WHERE clause of every worker write: a live lease of this owner.
Holds(j, o, age) ==
  /\ jobs[j].status = "processing"
  /\ jobs[j].owner = o
  /\ jobs[j].lease + age > 0

\* idx_processing_jobs_active_unique
SlotFree(i, t) == \A j \in Jobs : ~(Active(j) /\ jobs[j].item = i /\ jobs[j].type = t)

\* The row an INSERT leaves after the trigger stamped the item's generation.
NewJob(i, t, generation, level, age) ==
  [item |-> i, type |-> t, status |-> "pending", generation |-> generation,
   privacy |-> level, attempts |-> 0, retries |-> 0,
   wait |-> -age, owner |-> None, lease |-> 0]

\* manual_retry_count + 1
Retry(job) == [job EXCEPT !.retries = @ + 1]

\* Rows that leave 'processing' lose their owner and lease.
Unleased(job, status, wait) ==
  [job EXCEPT !.status = status, !.wait = wait, !.owner = None, !.lease = 0]

AttemptFailed(job, status, wait) ==
  [Unleased(job, status, wait) EXCEPT !.attempts = @ + 1]

RetriedByHand(job, wait) == Retry(Unleased(job, "pending", wait))

Leased(job, o, lease) ==
  [job EXCEPT !.status = "processing", !.owner = o, !.lease = lease, !.wait = 0]

\* Faulty variant: jobs already leased are left alone.
SupersededPendingOnly(i) ==
  [j \in Jobs |->
     IF jobs[j].status = "pending" /\ jobs[j].item = i
        /\ jobs[j].generation = items[i].generation
       THEN Unleased(jobs[j], "failed", 0) ELSE jobs[j]]

\* The jobs of i as the generation trigger leaves them: the active ones of the
\* old generation fail with PROCESSING_SUPERSEDED.
Superseded(i) ==
  [j \in Jobs |->
     IF Active(j) /\ jobs[j].item = i /\ jobs[j].generation = items[i].generation
       THEN Unleased(jobs[j], "failed", 0) ELSE jobs[j]]

-----------------------------------------------------------------------------
(* Writers that insert jobs.                                               *)

EnqueueProcessingJob(i, t, age) ==
  /\ Exists(i) /\ ~items[i].deleted /\ ~PurgeLive(i)
  /\ SlotFree(i, t)
  /\ \E j \in Jobs :
       /\ jobs[j].status = "absent"
       /\ jobs' = [jobs EXCEPT ![j] =
                     NewJob(i, t, items[i].generation, items[i].privacy, age)]
  /\ UNCHANGED <<items, results, calls>>

CaptureTypes(i) ==
  (IF i \in UrlItems THEN {"acquire_url"} ELSE {})
  \cup (IF i \in AttachmentItems THEN {"extract"}
        ELSE IF i \in UrlItems THEN {} ELSE {"enrich"})

\* scheduleProcessing inserts without a guard: the level is the one the capture
\* request read, a row of the item must exist (foreign key) and a busy slot
\* aborts the whole batch (unique index).
ScheduleProcessing(i, age) ==
  /\ items[i].scheduling # None
  /\ Exists(i)
  /\ \A t \in CaptureTypes(i) : SlotFree(i, t)
  /\ \E slot \in [CaptureTypes(i) -> {j \in Jobs : jobs[j].status = "absent"}] :
       /\ \A t, u \in CaptureTypes(i) : slot[t] = slot[u] => t = u
       /\ jobs' = [j \in Jobs |->
                     IF \E t \in CaptureTypes(i) : slot[t] = j
                       THEN NewJob(i, CHOOSE t \in CaptureTypes(i) : slot[t] = j,
                                   items[i].generation, items[i].scheduling, age)
                       ELSE jobs[j]]
  /\ items' = [items EXCEPT ![i].scheduling = None]
  /\ UNCHANGED <<results, calls>>

\* The batch aborts, or the request dies before it; save() swallows the error.
ScheduleProcessingFails(i) ==
  /\ items[i].scheduling # None
  /\ items' = [items EXCEPT ![i].scheduling = None]
  /\ UNCHANGED <<jobs, results, calls>>

\* SourceRecoveryService.retry: a new acquisition that counts as a manual retry.
\* What it reads before, the last outcome and the number of retries, only refuses.
RetrySource(i, age) ==
  /\ i \in UrlItems
  /\ Exists(i) /\ ~items[i].deleted /\ ~PurgeLive(i)
  /\ items[i].privacy = Public
  /\ SlotFree(i, "acquire_url")
  /\ \E j \in Jobs :
       /\ jobs[j].status = "absent"
       /\ jobs' = [jobs EXCEPT ![j] =
            Retry(NewJob(i, "acquire_url", items[i].generation, Public, age))]
  /\ UNCHANGED <<items, results, calls>>

-----------------------------------------------------------------------------
(* The worker's operations.                                                *)

\* Faulty variant: a leased job is taken before its lease expires.
LeaseWithoutExpiry(j, o, age) ==
  /\ \/ jobs[j].status = "pending" /\ jobs[j].wait <= -age
     \/ jobs[j].status = "processing"
  /\ Current(j)
  /\ jobs' = [jobs EXCEPT ![j] = Leased(@, o, LeaseTicks - age)]
  /\ UNCHANGED <<items, results, calls>>

\* Faulty variant: expired leases are not recovered.
LeasePendingOnly(j, o, age) ==
  /\ jobs[j].status = "pending" /\ jobs[j].wait <= -age
  /\ Current(j)
  /\ jobs' = [jobs EXCEPT ![j] = Leased(@, o, LeaseTicks - age)]
  /\ UNCHANGED <<items, results, calls>>

\* One row of the statement: a pending job whose turn has come or one whose lease
\* expired, current in either case.
LeaseProcessingJob(j, o, age) ==
  /\ \/ jobs[j].status = "pending" /\ jobs[j].wait <= -age
     \/ jobs[j].status = "processing" /\ jobs[j].lease <= -age
  /\ Current(j)
  /\ jobs' = [jobs EXCEPT ![j] = Leased(@, o, LeaseTicks - age)]
  /\ UNCHANGED <<items, results, calls>>

HeartbeatProcessingJob(j, o, age) ==
  /\ Holds(j, o, age) /\ Current(j)
  /\ jobs' = [jobs EXCEPT ![j].lease = LeaseTicks - age]
  /\ UNCHANGED <<items, results, calls>>

\* Faulty variant: the row keeps its owner and its lease.
CompleteStillLeased(j, o, age) ==
  /\ Holds(j, o, age) /\ Current(j)
  /\ jobs' = [jobs EXCEPT ![j].status = "complete"]
  /\ UNCHANGED <<items, results, calls>>

CompleteProcessingJob(j, o, age) ==
  /\ Holds(j, o, age) /\ Current(j)
  /\ jobs' = [jobs EXCEPT ![j] = Unleased(@, "complete", 0)]
  /\ UNCHANGED <<items, results, calls>>

ReleaseProcessingJob(j, o, age) ==
  /\ Holds(j, o, age) /\ Current(j)
  /\ jobs' = [jobs EXCEPT ![j] = Unleased(@, "pending", -age)]
  /\ UNCHANGED <<items, results, calls>>

\* A capacity error: attempts are preserved.
DeferProcessingJob(j, o, age) ==
  /\ Holds(j, o, age) /\ Current(j)
  /\ \E delay \in 1 .. BackoffTicks :
       jobs' = [jobs EXCEPT ![j] = Unleased(@, "pending", delay - age)]
  /\ UNCHANGED <<items, results, calls>>

\* Faulty variant: one retry too many.
FailWithOneMoreRetry(j, o, age) ==
  /\ Holds(j, o, age) /\ Current(j)
  /\ IF jobs[j].attempts + 1 <= MaxAttempts
       THEN jobs' = [jobs EXCEPT ![j] = AttemptFailed(@, "pending", 1 - age)]
       ELSE jobs' = [jobs EXCEPT ![j] = AttemptFailed(@, "failed", 0)]
  /\ UNCHANGED <<items, results, calls>>

\* failJob: its SELECT and its UPDATE, which repeats the SELECT's conditions.
FailProcessingJob(j, o, age) ==
  /\ Holds(j, o, age) /\ Current(j)
  /\ \E retryable \in BOOLEAN, maxAttempts \in 1 .. MaxAttempts, delay \in 1 .. BackoffTicks :
       IF retryable /\ jobs[j].attempts + 1 < maxAttempts
         THEN jobs' = [jobs EXCEPT ![j] = AttemptFailed(@, "pending", delay - age)]
         ELSE jobs' = [jobs EXCEPT ![j] = AttemptFailed(@, "failed", 0)]
  /\ UNCHANGED <<items, results, calls>>

\* The batch that ends j as a worker may chain an enrichment to it, unless one of
\* the blocking stages is still to come.
ChainsEnrich(j, ended, blocking, age) ==
  /\ \A t \in blocking \cup {"enrich"} : SlotFree(jobs[j].item, t)
  /\ \E k \in Jobs :
       /\ jobs[k].status = "absent"
       /\ jobs' = [jobs EXCEPT ![j] = ended,
            ![k] = NewJob(jobs[j].item, "enrich", jobs[j].generation, jobs[j].privacy, age)]

\* The completion asks for no live purge, the chained INSERT before it does not.
SubmitExtractionResults(j, o, age) ==
  /\ jobs[j].type = "extract"
  /\ Holds(j, o, age)
  /\ LET ended == IF Current(j) THEN Unleased(jobs[j], "complete", 0) ELSE jobs[j]
     IN \/ jobs' = [jobs EXCEPT ![j] = ended]
        \/ SameEpoch(j) /\ ChainsEnrich(j, ended, {"acquire_url"}, age)
  /\ UNCHANGED <<items, results, calls>>

\* A fetch that has run out of automatic attempts fails the job, any other outcome
\* completes it.  Without its evidence row, which is guarded, nothing is written.
PersistOutcome(j, o, age) ==
  /\ jobs[j].type = "acquire_url"
  /\ Holds(j, o, age) /\ Current(j)
  /\ \E ended \in {Unleased(jobs[j], "complete", 0), AttemptFailed(jobs[j], "failed", 0)} :
       \/ jobs' = [jobs EXCEPT ![j] = ended]
       \/ ChainsEnrich(j, ended, {"extract"}, age)
  /\ UNCHANGED <<items, results, calls>>

-----------------------------------------------------------------------------
(* submitProcessingResult, one action per await.                           *)

\* The read of a stored result answers at once, a replay of it is accepted when
\* the job still is the item's completed current one; otherwise the SELECT of
\* the lease refuses the call or lets it go on to its batch.
SubmitCheck(c, j, o, s) ==
  /\ calls[c].phase = "idle"
  /\ jobs[j].status # "absent"
  /\ calls' = [calls EXCEPT ![c] =
       IF results[j] = s /\ jobs[j].status = "complete" /\ Current(j)
         THEN Call("answered", j, None, s, "accepted")
       ELSE IF results[j] = None /\ Holds(j, o, 0) /\ Current(j)
         THEN Call("checked", j, o, s, "none")
       ELSE Call("answered", j, None, s, "refused")]
  /\ UNCHANGED <<items, jobs, results>>

Answered(call, reply) == Call("answered", call.job, None, call.submission, reply)

Unsure(call) == Call("unsure", call.job, None, call.submission, "none")

\* submission_id is UNIQUE: another job's result under this id aborts the batch.
SubmissionTaken(j, s) == \E k \in Jobs : k # j /\ results[k] = s

GuardHolds(c) ==
  Holds(calls[c].job, calls[c].owner, calls[c].age) /\ Current(calls[c].job)

\* The batch repeats the guard in the INSERT and in the UPDATE: both write or
\* neither does.  Its answer may be lost on the way back.
SubmitStore(c) ==
  /\ calls[c].phase = "checked"
  /\ GuardHolds(c)
  /\ ~SubmissionTaken(calls[c].job, calls[c].submission)
  /\ results' = [results EXCEPT ![calls[c].job] = calls[c].submission]
  /\ jobs' = [jobs EXCEPT ![calls[c].job] = Unleased(@, "complete", 0)]
  /\ calls' \in {[calls EXCEPT ![c] = Answered(@, "accepted")],
                 [calls EXCEPT ![c] = Unsure(@)]}
  /\ UNCHANGED items

\* Nothing is written: the guard fails, or an error rolls the batch back.
SubmitNothing(c) ==
  /\ calls[c].phase = "checked"
  /\ \/ ~GuardHolds(c) /\ calls' = [calls EXCEPT ![c] = Answered(@, "refused")]
     \/ calls' = [calls EXCEPT ![c] = Unsure(@)]
  /\ UNCHANGED <<items, jobs, results>>

\* Faulty variant: any stored row counts as a replay.
RereadAnyResult(c) ==
  /\ calls[c].phase = "unsure"
  /\ calls' = [calls EXCEPT ![c] =
       Answered(@, IF results[@.job] # None THEN "accepted" ELSE "error")]
  /\ UNCHANGED <<items, jobs, results>>

\* The catch block: a stored row equal to the input is a replay, any other
\* outcome rethrows.
SubmitReread(c) ==
  /\ calls[c].phase = "unsure"
  /\ calls' = [calls EXCEPT ![c] =
       Answered(@, IF results[@.job] = @.submission THEN "accepted" ELSE "error")]
  /\ UNCHANGED <<items, jobs, results>>

\* The caller reads its answer, or the call dies with its isolate.
Return(c) ==
  /\ calls[c].phase # "idle"
  /\ calls' = [calls EXCEPT ![c] = IdleCall]
  /\ UNCHANGED <<items, jobs, results>>

-----------------------------------------------------------------------------
(* The owner's operations.                                                 *)

\* What manuallyRetryProcessingJob asks of a job, but for what its UPDATE asks
\* again.
MayRetry(j) ==
  /\ jobs[j].status = "failed"
  /\ jobs[j].type # "acquire_url"
  /\ jobs[j].retries < MaxManualRetries

\* The UPDATE of retry, which looks at the item but at no purge workflow.
ManuallyRetryProcessingJob(j, age) ==
  /\ MayRetry(j)
  /\ SlotFree(jobs[j].item, jobs[j].type)
  /\ \E i \in Items :
       /\ i = jobs[j].item
       /\ ~items[i].deleted
       /\ items[i].generation = jobs[j].generation
       /\ items[i].privacy = jobs[j].privacy
  /\ jobs' = [jobs EXCEPT ![j] = RetriedByHand(@, -age)]
  /\ UNCHANGED <<items, results, calls>>

\* An UPDATE of items that changes what the generation trigger watches.
NextGeneration(i) ==
  /\ items[i].generation < MaxGeneration
  /\ Exists(i)

SourceEditable(i) == i \in UrlItems /\ ~items[i].deleted /\ ~PurgeLive(i)

\* supplyText.  An acquisition job of the same privacy level decides whether the
\* text may be enriched; `enrich` stands for its eligibility and the pause flag.
SupplyText(i, enrich, age) ==
  /\ SourceEditable(i) /\ NextGeneration(i)
  /\ items' = [items EXCEPT ![i].generation = @ + 1]
  /\ \/ /\ enrich
        /\ \E j \in Jobs : /\ jobs[j].item = i /\ jobs[j].type = "acquire_url"
                           /\ jobs[j].privacy = items[i].privacy
        /\ \A t \in {"enrich", "acquire_url"}, j \in Jobs :
             ~(Superseded(i)[j].status \in {"pending", "processing"}
               /\ jobs[j].item = i /\ jobs[j].type = t)
        /\ \E j \in Jobs :
             /\ jobs[j].status = "absent"
             /\ jobs' = [Superseded(i) EXCEPT ![j] =
                  NewJob(i, "enrich", items[i].generation + 1, items[i].privacy, age)]
     \/ ~enrich /\ jobs' = Superseded(i)
  /\ UNCHANGED <<results, calls>>

\* The retirement of the acquisition of every other source revision.
AcquisitionRetired(i, table) ==
  [j \in Jobs |->
     IF /\ table[j].status \in {"pending", "processing"}
        /\ table[j].item = i /\ table[j].type = "acquire_url"
       THEN Unleased(table[j], "failed", 0) ELSE table[j]]

ReplaceUrl(i, age) ==
  /\ SourceEditable(i) /\ NextGeneration(i)
  /\ items' = [items EXCEPT ![i].generation = @ + 1]
  /\ \E j \in Jobs :
       /\ jobs[j].status = "absent"
       /\ jobs' = [AcquisitionRetired(i, Superseded(i)) EXCEPT ![j] =
            NewJob(i, "acquire_url", items[i].generation + 1, items[i].privacy, age)]
  /\ UNCHANGED <<results, calls>>

\* Another edit won between replaceUrl's read and its batch: the guarded UPDATE
\* and INSERTs do nothing, the retirement of the acquisition is unguarded.
ReplaceUrlLoses(i) ==
  /\ i \in UrlItems
  /\ jobs' = AcquisitionRetired(i, jobs)
  /\ UNCHANGED <<items, results, calls>>

SetDeleted(i, deleted) ==
  /\ NextGeneration(i)
  /\ items[i].deleted # deleted
  /\ items' = [items EXCEPT ![i].deleted = deleted, ![i].generation = @ + 1]
  /\ jobs' = Superseded(i)
  /\ UNCHANGED <<results, calls>>

DeleteItem(i) == SetDeleted(i, TRUE)

RestoreItem(i) == SetDeleted(i, FALSE)

JobsDeleted(i) == [j \in Jobs |-> IF jobs[j].item = i THEN DeletedJob ELSE jobs[j]]

\* Faulty variant: no foreign key protects the results.
NoForeignKey(i) == TRUE

\* processing_job_results.job_id is ON DELETE RESTRICT.
NoResult(i) == \A j \in Jobs : jobs[j].item = i => results[j] = None

ReprocessType(i) == IF i \in UrlItems THEN "acquire_url" ELSE "enrich"

\* changePrivacy when its version check wins: all jobs of the item are deleted
\* and, for 'reprocess', one is inserted.  The same level starts no generation.
ChangePrivacy(i, level, reprocess, age) ==
  /\ Exists(i) /\ ~items[i].deleted
  /\ NoResult(i)
  /\ level # items[i].privacy => NextGeneration(i)
  /\ items' = [items EXCEPT ![i].privacy = level,
                 ![i].generation = IF level = items[i].privacy THEN @ ELSE @ + 1]
  /\ \/ /\ reprocess
        /\ \E j \in Jobs :
             /\ jobs[j].status = "absent"
             /\ jobs' = [JobsDeleted(i) EXCEPT ![j] =
                  NewJob(i, ReprocessType(i), items'[i].generation, level, age)]
     \/ ~reprocess /\ jobs' = JobsDeleted(i)
  /\ UNCHANGED <<results, calls>>

\* Its batch does not stop when the guarded UPDATE finds another version: the
\* DELETE runs all the same.
ChangePrivacyLoses(i) ==
  /\ NoResult(i)
  /\ jobs' = JobsDeleted(i)
  /\ UNCHANGED <<items, results, calls>>

-----------------------------------------------------------------------------
(* The purge workflow, as far as the job guards see it.                    *)

\* confirmPurge reads a soft-deleted item ...
CheckPurge(i) ==
  /\ items[i].purge = "none" /\ items[i].deleted
  /\ items' = [items EXCEPT ![i].purge = "checked"]
  /\ UNCHANGED <<jobs, results, calls>>

\* ... and queues the workflow without looking at the item again, or fails.
ConfirmPurge(i) ==
  /\ items[i].purge = "checked"
  /\ items' = [items EXCEPT ![i].purge = "queued"]
  /\ UNCHANGED <<jobs, results, calls>>

ConfirmPurgeFails(i) ==
  /\ items[i].purge = "checked"
  /\ items' = [items EXCEPT ![i].purge = "none"]
  /\ UNCHANGED <<jobs, results, calls>>

FreezeItemWork(i) ==
  /\ items[i].purge = "queued"
  /\ items' = [items EXCEPT ![i].purge = "frozen"]
  /\ jobs' = [j \in Jobs |->
                IF Active(j) /\ jobs[j].item = i
                  THEN Unleased(jobs[j], "failed", 0) ELSE jobs[j]]
  /\ UNCHANGED <<results, calls>>

\* purgeItem: an item restored meanwhile keeps its row; the workflow's last step
\* touches no job and is not told apart from its end.
PurgeItem(i) ==
  /\ items[i].purge = "frozen"
  /\ items' = [items EXCEPT ![i].purge = IF items[i].deleted THEN "gone" ELSE "none"]
  /\ jobs' = JobsDeleted(i)
  /\ results' = [j \in Jobs |-> IF jobs[j].item = i THEN None ELSE results[j]]
  /\ UNCHANGED calls

-----------------------------------------------------------------------------
(* Time.                                                                   *)

Countdown(n) == IF n > -Skew THEN n - 1 ELSE n

\* A tick brings availability and expiry nearer and makes every captured now
\* older; a call older than Skew is dead.
Tick ==
  /\ jobs' = [j \in Jobs |->
       IF jobs[j].status = "pending" THEN [jobs[j] EXCEPT !.wait = Countdown(@)]
       ELSE IF jobs[j].status = "processing" THEN [jobs[j] EXCEPT !.lease = Countdown(@)]
       ELSE jobs[j]]
  /\ calls' = [c \in Calls |->
       IF calls[c].phase # "checked" THEN calls[c]
       ELSE IF calls[c].age = Skew THEN IdleCall
       ELSE [calls[c] EXCEPT !.age = @ + 1]]
  /\ UNCHANGED <<items, results>>

-----------------------------------------------------------------------------

WorkerStep ==
  \E j \in Jobs, o \in Owners, age \in Ages :
    \/ LeaseProcessingJob(j, o, age)
    \/ HeartbeatProcessingJob(j, o, age)
    \/ CompleteProcessingJob(j, o, age)
    \/ ReleaseProcessingJob(j, o, age)
    \/ DeferProcessingJob(j, o, age)
    \/ FailProcessingJob(j, o, age)
    \/ SubmitExtractionResults(j, o, age)
    \/ PersistOutcome(j, o, age)

SubmitStep ==
  \E c \in Calls :
    \/ \E j \in Jobs, o \in Owners, s \in Submissions : SubmitCheck(c, j, o, s)
    \/ SubmitStore(c)
    \/ SubmitNothing(c)
    \/ SubmitReread(c)
    \/ Return(c)

InsertStep ==
  \E i \in Items :
    \/ \E t \in EnqueuedTypes, age \in Ages : EnqueueProcessingJob(i, t, age)
    \/ \E age \in Ages : ScheduleProcessing(i, age)
    \/ ScheduleProcessingFails(i)
    \/ \E age \in Ages : RetrySource(i, age)

OwnerStep ==
  \/ \E j \in Jobs, age \in Ages : ManuallyRetryProcessingJob(j, age)
  \/ \E i \in Items :
       \/ \E enrich \in BOOLEAN, age \in Ages : SupplyText(i, enrich, age)
       \/ \E age \in Ages : ReplaceUrl(i, age)
       \/ ReplaceUrlLoses(i)
       \/ DeleteItem(i)
       \/ RestoreItem(i)
       \/ \E level \in Levels, reprocess \in BOOLEAN, age \in Ages :
            ChangePrivacy(i, level, reprocess, age)
       \/ ChangePrivacyLoses(i)

PurgeStep ==
  \E i \in Items :
    \/ CheckPurge(i)
    \/ ConfirmPurge(i)
    \/ ConfirmPurgeFails(i)
    \/ FreezeItemWork(i)
    \/ PurgeItem(i)

Next == WorkerStep \/ SubmitStep \/ InsertStep \/ OwnerStep \/ PurgeStep \/ Tick

Spec == Init /\ [][Next]_vars

\* The cron lease of every job whose turn has come, and the clock.
Fairness ==
  /\ WF_vars(Tick)
  /\ \A j \in Jobs : WF_vars(\E o \in Owners : LeaseProcessingJob(j, o, 0))

FairSpec == Spec /\ Fairness

-----------------------------------------------------------------------------
(* Properties.                                                             *)

\* A leased job is of the item's generation and privacy level, and the item is
\* neither deleted nor purged: whatever the owner changes takes the work away
\* from its worker in the same statement.
HeldJobIsCurrent ==
  \A j \in Jobs : jobs[j].status = "processing" =>
    \E i \in Items :
      /\ i = jobs[j].item
      /\ Exists(i) /\ ~items[i].deleted
      /\ items[i].generation = jobs[j].generation
      /\ items[i].privacy = jobs[j].privacy

\* Retries are bounded: a job is failed at most MaxAttempts times, and once more
\* for each manual retry.
AttemptsBounded ==
  \A j \in Jobs :
    /\ jobs[j].attempts <= MaxAttempts + jobs[j].retries
    /\ jobs[j].retries <= MaxManualRetries

\* A caller told "accepted" can rely on it: its own payload, nobody else's, is the
\* result of the job, until the job itself is deleted.
AcceptedIsStored ==
  \A c \in Calls : calls[c].phase = "answered" /\ calls[c].reply = "accepted" =>
    \/ results[calls[c].job] = calls[c].submission
    \/ jobs[calls[c].job].status = "deleted"

\* A job with a result is complete: nothing the owner, a worker or a purge does
\* makes it work again.
ResultOnlyOfComplete ==
  \A j \in Jobs : results[j] # None => jobs[j].status = "complete"

\* After the freeze step of a purge no worker holds a job of the item, whatever
\* arrived in between: a capture still being scheduled, a restore, a retry.
FrozenItemIsIdle ==
  \A j \in Jobs, i \in Items :
    jobs[j].item = i /\ items[i].purge = "frozen" => jobs[j].status # "processing"

\* A result comes from the worker that holds the job, never from one whose lease
\* was taken over while its submission was in flight.
OnlyHolderDelivers ==
  [][\A j \in Jobs :
       results'[j] # results[j] /\ results'[j] # None =>
         \E c \in Calls :
           /\ calls[c].job = j /\ calls[c].submission = results'[j]
           /\ calls[c].owner = jobs[j].owner /\ jobs[j].status = "processing"]_vars

\* The queue does what LeasedWork promises.
Phase(j) ==
  CASE jobs[j].status = "absent" -> "absent"
    [] jobs[j].status = "pending" -> "ready"
    [] jobs[j].status = "processing" -> "held"
    [] jobs[j].status = "complete" -> "done"
    [] jobs[j].status = "failed" -> "stopped"
    [] jobs[j].status = "deleted" -> "erased"

Lapsed(j) == jobs[j].status = "processing" /\ jobs[j].lease <= 0

Promise == INSTANCE LeasedWork WITH
  Work <- Jobs, Holders <- Owners, Outputs <- Submissions, None <- None,
  phase <- [j \in Jobs |-> Phase(j)],
  holder <- [j \in Jobs |-> jobs[j].owner],
  lapsed <- [j \in Jobs |-> Lapsed(j)],
  output <- results

KeepsPromise == Promise!Spec

\* A job that waits, backs off or was abandoned by its worker is leased in the
\* end, unless the item moves on: no job of a current item is stranded.
NoStrandedJob ==
  \A j \in Jobs :
    (Active(j) /\ Current(j) /\ jobs[j].lease <= 0)
      ~> (jobs[j].lease > 0 \/ ~Active(j) \/ ~Current(j))

\* docs/OPERATIONS_RUNBOOK.md: "Result submission is idempotent".  A call that
\* delivers the very payload that is stored, for a job that still is complete and
\* current, is answered as accepted.
IdempotentSubmission ==
  [][\A c \in Calls :
       /\ calls[c].phase = "checked"
       /\ calls'[c].phase = "answered" /\ calls'[c].reply = "refused"
       => ~(/\ results[calls[c].job] = calls[c].submission
            /\ jobs[calls[c].job].status = "complete"
            /\ Current(calls[c].job))]_vars
====
