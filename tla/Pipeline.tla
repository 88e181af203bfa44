-------------------------------- MODULE Pipeline --------------------------------
(***************************************************************************)
(* What the processing of one item adds up to: URL acquisition, file       *)
(* extraction and enrichment over the jobs of its current generation, the  *)
(* evidence each leaves for the next, the hand-overs between them, the     *)
(* status migration 0024 derives from it all, and the owner's edits,       *)
(* retries and privacy changes, which begin new generations or write the   *)
(* fields that an enrichment writes too.                                   *)
(*                                                                         *)
(* ProcessingJobs has the rows of the queue with time, attempts and the    *)
(* purge.  Here a stage has the latest of its rows in the current          *)
(* generation, the enrichments before the latest have one row between them,*)
(* and a worker's call is what it has read and not yet used.               *)
(***************************************************************************)
EXTENDS Naturals, FiniteSets

CONSTANTS
  Kinds,     \* what captures bring: records [url, file, text, note]
  Calls,     \* worker calls in flight
  MaxEdits,  \* bound of items.edit_version
  None

ASSUME PipelineAssumption ==
  /\ Kinds \subseteq [url : BOOLEAN, file : BOOLEAN, text : BOOLEAN, note : BOOLEAN]
  /\ None \notin Calls
  /\ MaxEdits \in Nat

VARIABLES
  kind,        \* what this item was captured with
  item,        \* its row
  jobs,        \* processing_jobs of the current generation, see Rows
  extraction,  \* its extraction record; old: of an earlier generation, with text
  evidence,    \* the latest acquisition of its URL as a public item
  calls,       \* the worker calls
  unread,      \* evidence that no completed enrichment has read (history)
  missed       \* some of it was left to an enrichment that may not read it (history)

vars == <<kind, item, jobs, extraction, evidence, calls, unread, missed>>

\* unknown is like personal here: never fetched, routed only as the owner asks.
Levels == {"public", "personal", "sensitive"}

Stages == {"acquire_url", "extract", "enrich"}

\* Each stage's latest row, and the enrichments before the latest: failed if one
\* of them is, pending or processing while the owner has one retried.
Enrichments == {"enrich", "older"}
Rows == Stages \cup Enrichments

Active == {"pending", "processing"}
Evidence == {"text", "source", "file"}

JobRecord ==
  [status : {"none", "complete", "failed"} \cup Active, owner : Calls \cup {None},
   lapsed : BOOLEAN]

Job(status) == [status |-> status, owner |-> None, lapsed |-> FALSE]

\* routed: the provider the current jobs carry is not none.  replaced: an
\* override was written over by an enrichment that had not seen it.
ItemRecord ==
  [deleted : BOOLEAN, level : Levels, text : BOOLEAN, routed : BOOLEAN,
   status : {"pending", "processing", "complete", "failed"},
   summary : {"none", "generated", "owner"}, overridden : BOOLEAN, replaced : BOOLEAN,
   edits : 0 .. MaxEdits]

\* read: the evidence an enrichment will use; saw: it found an override.
CallRecord ==
  [stage : Rows, at : {"idle", "work", "rows", "ask", "write"},
   read : SUBSET Evidence, saw : BOOLEAN]

\* What the latest row of url_acquisitions says, of the current URL and level.
Acquisition == {"none", "text", "bare", "transient"}

IdleCall == [stage |-> "enrich", at |-> "idle", read |-> {}, saw |-> FALSE]

TypeOK ==
  /\ kind \in Kinds
  /\ item \in ItemRecord
  /\ jobs \in [Rows -> JobRecord]
  /\ \A s \in Rows : jobs[s].owner # None <=> jobs[s].status = "processing"
  /\ extraction \in {"none", "text", "bad", "old"}
  /\ evidence \in Acquisition
  /\ calls \in [Calls -> CallRecord]
  /\ unread \subseteq Evidence
  /\ missed \in BOOLEAN

-----------------------------------------------------------------------------
(* The status of the item.                                                 *)

IsActive(j, s) == j[s].status \in Active

\* The unique index: an item has at most one active enrichment.
Enriching(j) == \E s \in Enrichments : IsActive(j, s)

\* bg13_current_processing_stages leaves out an enrichment without a provider.
CurrentStages(i, j) == {s \in Stages : j[s].status # "none" /\ (s = "enrich" => i.routed)}

Usable(i, j, x) ==
  \/ j["acquire_url"].status = "complete" /\ i.text
  \/ j["extract"].status = "complete" /\ x = "text"

\* A stage is still missing: one that has not been queued, a record that has
\* not been written, or the enrichment of what the others brought.
Incomplete(i, j, x) ==
  LET current == CurrentStages(i, j)
  IN \/ kind.url /\ "acquire_url" \notin current
     \/ kind.file /\ "extract" \notin current
     \/ j["extract"].status = "complete" /\ x # "text"
     \/ i.routed /\ "enrich" \notin current /\ Usable(i, j, x)

\* Faulty variant: work in progress hides a failure.
FailureComesLast(i, j, x) ==
  LET Some(status) == \E s \in CurrentStages(i, j) : j[s].status = status
  IN IF Some("processing") THEN "processing"
     ELSE IF Some("failed") \/ (kind.file /\ x = "bad") THEN "failed"
     ELSE IF Some("pending") \/ Incomplete(i, j, x) THEN "pending"
     ELSE "complete"

\* bg13_processing_snapshot: a failure comes before a lease, a lease before
\* what waits.  It takes any lease for a live one.
Snapshot(i, j, x) ==
  LET Some(status) == \E s \in CurrentStages(i, j) : j[s].status = status
  IN IF Some("failed") \/ (kind.file /\ x = "bad") THEN "failed"
     ELSE IF Some("processing") THEN "processing"
     ELSE IF Some("pending") \/ Incomplete(i, j, x) THEN "pending"
     ELSE "complete"

HasCurrentJobs(j) == \E s \in Stages : j[s].status # "none"

\* The triggers on processing_jobs and extraction_records.
Materialised(i, j, x) ==
  IF i.deleted \/ ~HasCurrentJobs(j) THEN i.status ELSE Snapshot(i, j, x)

\* A statement on jobs or records, with the triggers it fires.
Store(i, j, x) ==
  /\ item' = [i EXCEPT !.status = Materialised(i, j, x)]
  /\ jobs' = j
  /\ extraction' = x

\* What a new generation could still enrich: extraction records are outdated.
Leftover(i, found) ==
  {e \in {"text", "source"} : IF e = "text" THEN i.text ELSE i.level = "public" /\ found = "text"}

\* PolicyService.route: whether a hosted provider may be had for a level.
Routings(level) == IF level = "sensitive" THEN {FALSE} ELSE BOOLEAN

NoJobs == [s \in Rows |-> Job("none")]

\* bg13_items_generation_au: the jobs of the old generation are over, and
\* inserted has those that the same batch queues for the new one.
BeginsGeneration(i, inserted, found) ==
  /\ Store([i EXCEPT !.status = IF i.deleted THEN @ ELSE "pending"],
           [s \in Rows |-> IF s \in inserted THEN Job("pending") ELSE Job("none")],
           IF extraction \in {"text", "old"} THEN "old" ELSE "none")
  /\ unread' = Leftover(i, found)
  /\ missed' = FALSE

-----------------------------------------------------------------------------
(* The capture.                                                            *)

\* scheduleProcessing; the capture stands without it if the batch fails.
Scheduled ==
  [s \in Rows |->
     IF \/ s = "acquire_url" /\ kind.url
        \/ s = "extract" /\ kind.file
        \/ s = "enrich" /\ ~kind.url /\ ~kind.file
     THEN Job("pending") ELSE Job("none")]

Init ==
  /\ kind \in Kinds
  /\ jobs \in {Scheduled, NoJobs}
  /\ extraction = "none"
  /\ \E level \in Levels : \E routed \in Routings(level) :
       LET new == [deleted |-> FALSE, level |-> level, text |-> kind.text,
                   routed |-> routed /\ jobs = Scheduled, status |-> "pending",
                   summary |-> "none", overridden |-> FALSE, replaced |-> FALSE, edits |-> 0]
       IN item = [new EXCEPT !.status = Materialised(new, jobs, extraction)]
  /\ evidence = "none"
  /\ calls = [c \in Calls |-> IdleCall]
  /\ unread = IF kind.text THEN {"text"} ELSE {}
  /\ missed = FALSE

-----------------------------------------------------------------------------
(* The workers.                                                            *)

Holds(c) ==
  LET j == jobs[calls[c].stage]
  IN calls[c].at # "idle" /\ j.owner = c /\ ~j.lapsed

Ends(c) == calls' = [calls EXCEPT ![c] = IdleCall]

\* leaseProcessingJobs; items that are deleted have no current jobs.
LeaseProcessingJob(c, s) ==
  /\ calls[c].at = "idle"
  /\ jobs[s].status = "pending" \/ (jobs[s].status = "processing" /\ jobs[s].lapsed)
  /\ Store(item, [jobs EXCEPT ![s] = [status |-> "processing", owner |-> c, lapsed |-> FALSE]],
           extraction)
  /\ calls' = [calls EXCEPT ![c] = [IdleCall EXCEPT !.stage = s, !.at = "work"]]
  /\ UNCHANGED <<kind, evidence, unread, missed>>

LeaseExpires(s) ==
  /\ jobs[s].status = "processing" /\ ~jobs[s].lapsed
  /\ jobs' = [jobs EXCEPT ![s].lapsed = TRUE]
  /\ UNCHANGED <<kind, item, extraction, evidence, calls, unread, missed>>

\* The invocation dies, or finds that its job is no longer its own.
GivesUp(c) ==
  /\ calls[c].at # "idle"
  /\ Ends(c)
  /\ UNCHANGED <<kind, item, jobs, extraction, evidence, unread, missed>>

\* failProcessingJob and deferProcessingJob; how often is left to ProcessingJobs.
FailProcessingJob(c) ==
  /\ Holds(c)
  /\ \E status \in {"pending", "failed"} :
       Store(item, [jobs EXCEPT ![calls[c].stage] = Job(status)], extraction)
  /\ Ends(c)
  /\ UNCHANGED <<kind, evidence, unread, missed>>

\* A further enrichment; the one that was the latest can still be retried.
Chained(j) ==
  [j EXCEPT !["enrich"] = Job("pending"),
            !["older"] = IF j["enrich"].status = "failed" THEN Job("failed") ELSE @]

\* The batch that ends the stage of a call and may chain the enrichment.
Finishes(c, status, chained, x) ==
  LET ended == [jobs EXCEPT ![calls[c].stage] = Job(status)]
  IN Store(item, IF chained THEN Chained(ended) ELSE ended, x)

\* What is unread at a hand-over is left to an older enrichment that has been
\* retried, which keeps another from being chained.
LeftToOlder == IsActive(jobs, "older") /\ unread' # {}

\* Evidence e is new: what was read of it before is outdated, and an
\* enrichment that is at work keeps another from being chained.
Arrives(c, e) ==
  /\ unread' = unread \cup {e}
  /\ calls' = [d \in Calls |-> IF d = c THEN IdleCall ELSE [calls[d] EXCEPT !.read = @ \ {e}]]
  /\ missed' = (missed \/ jobs["enrich"].status = "processing" \/ LeftToOlder)

\* Faulty variant: the text that was just acquired is not asked for.
ChainsOwnText(outcome) ==
  /\ item.routed
  /\ ~IsActive(jobs, "extract") /\ ~Enriching(jobs)
  /\ item.text \/ extraction \in {"text", "old"}

\* The conditions of the chained INSERT of persistOutcome; a record of an
\* earlier generation counts as text.
ChainsAfterUrl(outcome) ==
  /\ item.routed
  /\ ~IsActive(jobs, "extract") /\ ~Enriching(jobs)
  /\ item.text \/ extraction \in {"text", "old"} \/ outcome = "text"

\* A status other than success: 429 and 5xx are worth another try, the others
\* are an acquisition without text.
Classified == {"bare", "transient"}

\* A document that was read to its end has text, or it has none to offer.
Parsed == {"text", "bare"}

\* SourceFetcher.fetch never throws: a destination that is blocked, a timeout, a
\* refusal, or the document.
Fetched == Classified \cup Parsed

\* Of an item that is not public nothing is fetched.
Outcomes(level) == IF level = "public" THEN Fetched ELSE {"bare"}

\* persistOutcome.  A transient outcome is stored with the last attempt and
\* fails the job.
PersistOutcome(c) ==
  /\ calls[c].stage = "acquire_url" /\ Holds(c)
  /\ \E outcome \in Outcomes(item.level) :
       /\ Finishes(c, IF outcome = "transient" THEN "failed" ELSE "complete",
                   ChainsAfterUrl(outcome), extraction)
       /\ evidence' = IF item.level = "public" THEN outcome ELSE evidence
       /\ IF outcome = "text" THEN Arrives(c, "source")
          ELSE /\ unread' = unread \ {"source"} /\ Ends(c)
               /\ missed' = (missed \/ LeftToOlder)
  /\ UNCHANGED kind

\* Faulty variant: an acquisition that is over counts as one that will chain.
ChainsWithoutUrl(x) ==
  /\ x = "text" /\ item.routed
  /\ ~Enriching(jobs) /\ jobs["acquire_url"].status = "none"

ChainsAfterFile(x) ==
  /\ x = "text" /\ item.routed
  /\ ~Enriching(jobs) /\ ~IsActive(jobs, "acquire_url")

\* ExtractionService.extract never throws: text, or a record of why there is none.
Extracted == {"text", "bad"}

\* submitExtractionResults, with or without usable text.
SubmitExtractionResults(c) ==
  /\ calls[c].stage = "extract" /\ Holds(c)
  /\ \E x \in Extracted :
       /\ Finishes(c, "complete", ChainsAfterFile(x), x)
       /\ IF x = "text" THEN Arrives(c, "file") ELSE Ends(c) /\ UNCHANGED <<unread, missed>>
  /\ UNCHANGED <<kind, evidence>>

Step(c, at, read, saw) ==
  calls' = [calls EXCEPT ![c] = [@ EXCEPT !.at = at, !.read = read, !.saw = saw]]

\* processEnrichmentJob reads the item and its latest acquisition, ...
ReadItem(c) ==
  /\ calls[c].stage \in Enrichments /\ calls[c].at = "work" /\ Holds(c)
  /\ Step(c, "rows", Leftover(item, evidence), FALSE)
  /\ UNCHANGED <<kind, item, jobs, extraction, evidence, unread, missed>>

\* ... then the extraction records of the generation.  With no content at all
\* the job fails; a title left by an earlier enrichment is content.
ReadExtractions(c) ==
  /\ calls[c].at = "rows" /\ Holds(c)
  /\ LET read == calls[c].read \cup (IF extraction = "text" THEN {"file"} ELSE {})
         empty == read = {} /\ ~kind.note
     IN \/ /\ empty
           /\ Store(item, [jobs EXCEPT ![calls[c].stage] = Job("failed")], extraction)
           /\ Ends(c)
        \/ /\ ~empty \/ item.summary # "none"
           /\ Step(c, "ask", read, FALSE)
           /\ UNCHANGED <<item, jobs, extraction>>
  /\ UNCHANGED <<kind, evidence, unread, missed>>

\* The provider has answered, which it never does for a job that has none;
\* the owner's overrides are read.
ReadOverrides(c) ==
  /\ calls[c].at = "ask" /\ item.routed
  /\ Step(c, "write", calls[c].read, item.overridden)
  /\ UNCHANGED <<kind, item, jobs, extraction, evidence, unread, missed>>

\* Faulty variant: overrides are not looked at.
DerivedAlways(c) == [item EXCEPT !.summary = "generated"]

\* addField: a field with an override is left out of the UPDATE.
Derived(c) ==
  IF calls[c].saw THEN item
  ELSE [item EXCEPT !.summary = "generated", !.replaced = item.overridden]

\* Another of the older enrichments may have failed.
Completed(s) == IF s = "older" THEN {"complete", "failed"} ELSE {"complete"}

\* The guarded batch that writes the derived fields and completes the job.
CompleteEnrichment(c) ==
  /\ calls[c].at = "write" /\ Holds(c)
  /\ \E status \in Completed(calls[c].stage) :
       Store(Derived(c), [jobs EXCEPT ![calls[c].stage] = Job(status)], extraction)
  /\ unread' = unread \ calls[c].read
  /\ missed' = (missed /\ unread' # {})
  /\ Ends(c)
  /\ UNCHANGED <<kind, evidence>>

-----------------------------------------------------------------------------
(* The owner.  A purge is left to ProcessingJobs.                          *)

Edited(i) == [i EXCEPT !.edits = @ + 1]

MayEdit == ~item.deleted /\ item.edits < MaxEdits

\* PATCH /items/:id writes the field and its override in one batch.
EditField ==
  /\ MayEdit
  /\ item' = Edited([item EXCEPT !.summary = "owner", !.overridden = TRUE, !.replaced = FALSE])
  /\ UNCHANGED <<kind, jobs, extraction, evidence, calls, unread, missed>>

\* POST /items/:id/overrides/reset looks at no version.
ResetOverrides ==
  /\ item.overridden
  /\ item' = [item EXCEPT !.overridden = FALSE, !.replaced = FALSE]
  /\ UNCHANGED <<kind, jobs, extraction, evidence, calls, unread, missed>>

DeleteItem ==
  /\ MayEdit
  /\ BeginsGeneration(Edited([item EXCEPT !.deleted = TRUE]), {}, evidence)
  /\ UNCHANGED <<kind, evidence, calls>>

\* Nothing is queued for a restored item.
RestoreItem ==
  /\ item.deleted /\ item.edits < MaxEdits
  /\ BeginsGeneration(Edited([item EXCEPT !.deleted = FALSE]), {}, evidence)
  /\ UNCHANGED <<kind, evidence, calls>>

\* supplyText queues an enrichment where the last acquisition had a provider
\* and processing is not paused.
SupplyText ==
  /\ MayEdit /\ kind.url /\ ~item.text
  /\ \E inserted \in {{}, {"enrich"}} :
       /\ inserted # {} => item.routed
       /\ BeginsGeneration(Edited([item EXCEPT !.text = TRUE]), inserted, evidence)
  /\ UNCHANGED <<kind, evidence, calls>>

\* replaceUrl.
ReplaceUrl ==
  /\ MayEdit /\ kind.url
  /\ evidence' = "none"
  /\ BeginsGeneration(Edited([item EXCEPT !.routed = @ /\ item.level = "public"]), {"acquire_url"}, "none")
  /\ UNCHANGED <<kind, calls>>

\* A call that read the item before another edit changed its version is refused
\* by the UPDATE of the item, not by the rest of its batch: replaceUrl still
\* retires the acquisition ...
LostReplaceUrl ==
  /\ item.edits > 0 /\ kind.url /\ IsActive(jobs, "acquire_url")
  /\ Store(item, [jobs EXCEPT !["acquire_url"] = Job("failed")], extraction)
  /\ UNCHANGED <<kind, evidence, calls, unread, missed>>

\* ... and changePrivacy still deletes all jobs, for which no trigger fires.
LostChangePrivacy ==
  /\ item.edits > 0
  /\ jobs' = NoJobs
  /\ item' = [item EXCEPT !.routed = FALSE]
  /\ UNCHANGED <<kind, extraction, evidence, calls, unread, missed>>

\* changePrivacy: fields without an override are cleared, all jobs deleted,
\* and one queued if the owner wants the item reprocessed.  To the level it
\* has already it begins no generation.
ChangePrivacy ==
  /\ MayEdit
  /\ \E level \in Levels, reprocess \in BOOLEAN : \E routed \in Routings(level) :
       LET changed == Edited(
             [item EXCEPT !.level = level, !.routed = routed /\ reprocess,
                          !.summary = IF item.overridden THEN @ ELSE "none",
                          !.status = IF reprocess THEN "pending" ELSE "complete"])
           inserted == IF ~reprocess THEN {} ELSE IF kind.url THEN {"acquire_url"} ELSE {"enrich"}
       IN IF level # item.level
          THEN BeginsGeneration(changed, inserted, evidence)
          ELSE /\ Store(changed, [s \in Rows |-> IF s \in inserted THEN Job("pending") ELSE Job("none")],
                        extraction)
               /\ unread' = Leftover(item, evidence)
                              \cup (IF extraction = "text" THEN {"file"} ELSE {})
               /\ missed' = FALSE
  /\ UNCHANGED <<kind, evidence, calls>>

\* canManuallyRetrySource: what was never fetched, or may go better next time.
Retryable(found) == found \in {"none", "transient"}

\* SourceRecoveryService.retry, with which reprocessLegacy ends too.
RetrySource ==
  /\ kind.url /\ ~item.deleted /\ item.level = "public"
  /\ ~IsActive(jobs, "acquire_url")
  /\ Retryable(evidence)
  /\ Store(item, [jobs EXCEPT !["acquire_url"] = Job("pending")], extraction)
  /\ UNCHANGED <<kind, evidence, calls, unread, missed>>

\* What manuallyRetryProcessingJob asks of a job, whichever row of the current
\* generation it is.
MayRetry(s) ==
  /\ jobs[s].status = "failed" /\ s # "acquire_url"
  /\ s \in Enrichments => item.routed

\* Its UPDATE, which the unique index refuses while another one is active.
ManuallyRetryProcessingJob(s) ==
  /\ MayRetry(s)
  /\ s \in Enrichments => ~Enriching(jobs)
  /\ Store(item, [jobs EXCEPT ![s] = Job("pending")], extraction)
  /\ UNCHANGED <<kind, evidence, calls, unread, missed>>

\* reconcile: rewrites a status that differs from the snapshot.
Reconcile ==
  /\ Store(item, jobs, extraction)
  /\ UNCHANGED <<kind, evidence, calls, unread, missed>>

Owner ==
  \/ EditField \/ ResetOverrides \/ DeleteItem \/ RestoreItem
  \/ SupplyText \/ ReplaceUrl \/ ChangePrivacy
  \/ LostReplaceUrl \/ LostChangePrivacy \/ RetrySource \/ Reconcile
  \/ \E s \in Rows : ManuallyRetryProcessingJob(s)

Worker(c) ==
  \/ \E s \in Rows : LeaseProcessingJob(c, s)
  \/ PersistOutcome(c) \/ SubmitExtractionResults(c)
  \/ ReadItem(c) \/ ReadExtractions(c) \/ ReadOverrides(c) \/ CompleteEnrichment(c)
  \/ FailProcessingJob(c) \/ GivesUp(c)

Next ==
  \/ Owner
  \/ \E c \in Calls : Worker(c)
  \/ \E s \in Rows : LeaseExpires(s)

Spec == Init /\ [][Next]_vars

-----------------------------------------------------------------------------
(* Properties.                                                             *)

\* decideAggregateProcessing, for the stages that are required: the source's,
\* the file's, and with a provider the enrichment of whatever there is.
Required ==
  {s \in Stages :
     \/ s = "acquire_url" /\ kind.url
     \/ s = "extract" /\ kind.file
     \/ /\ s = "enrich" /\ item.routed
        /\ jobs[s].status # "none" \/ Leftover(item, evidence) # {} \/ extraction = "text"}

Decided ==
  LET Some(status) == \E s \in Required : jobs[s].status = status
  IN IF Some("failed") \/ (kind.file /\ extraction = "bad") THEN "failed"
     ELSE IF \E s \in Required : jobs[s].status = "processing" /\ ~jobs[s].lapsed THEN "processing"
     ELSE IF Some("none") \/ Some("pending") \/ Some("processing") THEN "pending"
     ELSE "complete"

\* All is well typed, and the owner's own words stay in the field until their
\* override is reset, whatever enrichments, retries and privacy changes do
\* (enrich.service.ts:175, policy.repository.ts:47): except where the override
\* was made between the enrichment's read of the overrides and its batch,
\* which checks none (replaced).
OverrideKept ==
  /\ TypeOK
  /\ item.overridden => item.summary = "owner" \/ item.replaced

\* The status that triggers keep in the row is the one the contract of
\* aggregate-processing-state.ts decides for the same stages and evidence,
\* after any sequence of hand-overs, failures, retries and new generations
\* (migration 0024): except for an item without current jobs, whose status is
\* left as it was, and while a lease has expired, which no trigger notices.
StatusIsContract ==
  ~item.deleted /\ HasCurrentJobs(jobs) /\ (\A s \in Stages : ~jobs[s].lapsed)
    => item.status = Decided

\* What is shown as complete under a provider has been read by an enrichment:
\* acquisition and extraction end in any order and each leaves the chained
\* enrichment to the other (source-acquisition.service.ts:313,
\* job.service.ts:647), whichever enrichments fail and are retried.  Except for
\* what a hand-over leaves to an enrichment at work, which may have read before,
\* or to an older one that the owner has retried, whose failure the status does
\* not show (missed).
CompleteIsEnriched ==
  ~item.deleted /\ item.routed /\ item.status = "complete" => unread = {} \/ missed

\* A generation that was begun without the job of a stage it needs: by a
\* restore, a supplied text, or a privacy change of an item with a file.
MissingStage ==
  \/ kind.url /\ jobs["acquire_url"].status = "none"
  \/ kind.file /\ jobs["extract"].status = "none"
  \/ ~HasCurrentJobs(jobs)

\* An item shown as pending or processing has a job that will move it on: the
\* hand-over to the enrichment falls in no gap when acquisition and extraction
\* end side by side (job.service.ts:647): except in a generation that
\* lacks a stage from the start, which nothing queues later.
PendingIsMoving ==
  ~item.deleted /\ item.status \in Active =>
    (\E s \in Stages : IsActive(jobs, s)) \/ MissingStage

=============================================================================
