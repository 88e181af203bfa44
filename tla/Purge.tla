---- MODULE Purge ----
(***************************************************************************)
(* Permanent purge: the confirmation of PurgeService, the durable workflow *)
(* of PurgeRepository and the runs of purge.worker.ts over its five steps. *)
(*                                                                         *)
(* A run is one call of runWorkflow, started by the background cron or by  *)
(* the owner; several runs may work on one workflow.  An action is one     *)
(* statement or one external call; a run may die between any two.  There   *)
(* is no clock: the confirmation window and a step lease expire at any     *)
(* moment.  The steps freeze_jobs and archive_notion_projection act on     *)
(* state of other modules; here they succeed, are skipped or fail.         *)
(***************************************************************************)
EXTENDS Naturals, Sequences

CONSTANTS
  Items,       \* rows of items
  Workflows,   \* ids a purge workflow can get
  Survivors,   \* those of them that may be an earlier purge, which the item survived
  Runs,        \* runs in flight
  Objects,     \* private R2 objects of an item
  MaxVersion,  \* bound of items.edit_version
  MaxFaults,   \* bound of the errors, crashes and stalls of runs
  None

ASSUME PurgeAssumption ==
  /\ None \notin Workflows \cup Runs
  /\ Survivors \subseteq Workflows
  /\ MaxVersion \in Nat /\ MaxFaults \in Nat

STEP_ORDER ==
  <<"freeze_jobs", "delete_r2_attachments", "archive_notion_projection",
    "delete_d1_item_data", "finalize_receipt">>

Steps == 1 .. Len(STEP_ORDER)

VARIABLES
  items,      \* the item rows and their R2 objects
  workflows,  \* purge_workflows, and the requests about to write them
  steps,      \* purge_steps of every workflow, in STEP_ORDER
  runs,       \* runWorkflow calls
  receipts,   \* purge_receipts: the workflow that purged an item
  mirror,     \* the receipts mirrored in R2
  faults

vars == <<items, workflows, steps, runs, receipts, mirror, faults>>

ItemRecord ==
  [exists : BOOLEAN, deleted : BOOLEAN, version : 0 .. MaxVersion,
   objects : SUBSET Objects]

\* requested: requestPurge has read the item and not inserted the workflow yet.
\* checked: a confirmPurge call has read workflow and item and not written yet.
WorkflowRecord ==
  [item : Items \cup {None},
   state : {"absent", "requested", "confirmation_pending", "queued", "processing",
            "partial", "complete", "cancelled"},
   version : 0 .. MaxVersion, expired : BOOLEAN, checked : BOOLEAN]

AbsentWorkflow ==
  [item |-> None, state |-> "absent", version |-> 0, expired |-> FALSE, checked |-> FALSE]

\* Exactly the claimed steps have an owner.
StepRecord ==
  {step \in [state : {"pending", "processing", "complete", "failed", "skipped"},
             owner : Runs \cup {None}, lapsed : BOOLEAN] :
     step.owner = None <=> step.state # "processing"}

Step(state) == [state |-> state, owner |-> None, lapsed |-> FALSE]

RunRecord ==
  [phase : {"idle", "look", "claim", "work", "erase", "report", "failing", "partial",
            "finish"},
   workflow : Workflows \cup {None}, step : Steps]

IdleRun == [phase |-> "idle", workflow |-> None, step |-> 1]

\* Every row and every run is well formed.
TypeOK ==
  /\ items \in [Items -> ItemRecord]
  /\ workflows \in [Workflows -> WorkflowRecord]
  /\ steps \in [Workflows -> [Steps -> StepRecord]]
  /\ runs \in [Runs -> RunRecord]
  /\ receipts \in [Items -> Workflows \cup {None}]
  /\ mirror \in [Items -> Workflows \cup {None}]
  /\ faults \in 0 .. MaxFaults

\* Nothing was purged, or an item was restored while its purge ran: the row is
\* active without its objects, and the workflow complete with its receipt.
Init ==
  \E w \in Survivors \cup {None}, i \in Items :
    LET Left(j) == w # None /\ j = i IN
    /\ items = [j \in Items |->
                  [exists |-> TRUE, deleted |-> FALSE, version |-> 0,
                   objects |-> IF Left(j) THEN {} ELSE Objects]]
    /\ workflows = [v \in Workflows |->
                      IF v = w THEN [AbsentWorkflow EXCEPT !.item = i, !.state = "complete"]
                      ELSE AbsentWorkflow]
    /\ steps = [v \in Workflows |->
                  [n \in Steps |-> Step(IF v = w THEN "complete" ELSE "pending")]]
    /\ runs = [r \in Runs |-> IdleRun]
    /\ receipts = [j \in Items |-> IF Left(j) THEN w ELSE None]
    /\ mirror = receipts
    /\ faults = 0

-----------------------------------------------------------------------------
(* The owner.                                                              *)

Runnable(w) == workflows[w].state \in {"queued", "processing", "partial"}

\* idx_purge_workflows_one_active_per_item
Unfinished(w) == Runnable(w) \/ workflows[w].state = "confirmation_pending"

\* The delete and restore routes and every owner edit are guarded by the version;
\* none of them looks at the purge.
SetDeleted(i, deleted) ==
  /\ items[i].exists /\ items[i].deleted # deleted
  /\ items[i].version < MaxVersion
  /\ items' = [items EXCEPT ![i].deleted = deleted, ![i].version = @ + 1]
  /\ UNCHANGED <<workflows, steps, runs, receipts, mirror, faults>>

EditItem(i) ==
  /\ items[i].exists /\ ~items[i].deleted
  /\ items[i].version < MaxVersion
  /\ items' = [items EXCEPT ![i].version = @ + 1]
  /\ UNCHANGED <<workflows, steps, runs, receipts, mirror, faults>>

\* requestPurge reads a soft-deleted item at the caller's version ...
RequestPurge(w, i) ==
  /\ workflows[w].state = "absent"
  /\ items[i].exists /\ items[i].deleted
  /\ workflows' = [workflows EXCEPT ![w] =
       [AbsentWorkflow EXCEPT !.item = i, !.state = "requested",
                              !.version = items[i].version]]
  /\ UNCHANGED <<items, steps, runs, receipts, mirror, faults>>

\* ... and inserts the workflow and its steps, unless the unique index refuses it
\* or the request dies.
CreateConfirmation(w) ==
  /\ workflows[w].state = "requested"
  /\ \/ /\ \A v \in Workflows : ~(Unfinished(v) /\ workflows[v].item = workflows[w].item)
        /\ workflows' = [workflows EXCEPT ![w].state = "confirmation_pending"]
     \/ workflows' = [workflows EXCEPT ![w] = AbsentWorkflow]
  /\ UNCHANGED <<items, steps, runs, receipts, mirror, faults>>

ExpireConfirmation(w) ==
  /\ workflows[w].state = "confirmation_pending" /\ ~workflows[w].expired
  /\ workflows' = [workflows EXCEPT ![w].expired = TRUE]
  /\ UNCHANGED <<items, steps, runs, receipts, mirror, faults>>

\* The reads of confirmPurge: two calls that have made them differ in nothing.
CheckConfirmation(w) ==
  /\ workflows[w].state = "confirmation_pending"
  /\ ~workflows[w].expired /\ ~workflows[w].checked
  /\ \E i \in Items :
       /\ i = workflows[w].item
       /\ items[i].exists /\ items[i].deleted
       /\ items[i].version = workflows[w].version
  /\ workflows' = [workflows EXCEPT ![w].checked = TRUE]
  /\ UNCHANGED <<items, steps, runs, receipts, mirror, faults>>

\* Its UPDATE repeats what was read of the workflow, not what was read of the item,
\* and compares the window with the `now` of the reads.
ConfirmPurge(w) ==
  /\ workflows[w].checked
  /\ workflows' = [workflows EXCEPT ![w].checked = FALSE,
       ![w].state = IF @ = "confirmation_pending" THEN "queued" ELSE @]
  /\ UNCHANGED <<items, steps, runs, receipts, mirror, faults>>

ConfirmPurgeDies(w) ==
  /\ workflows[w].checked
  /\ workflows' = [workflows EXCEPT ![w].checked = FALSE]
  /\ UNCHANGED <<items, steps, runs, receipts, mirror, faults>>

CancelExpiredConfirmation(w) ==
  /\ workflows[w].state = "confirmation_pending" /\ workflows[w].expired
  /\ workflows' = [workflows EXCEPT ![w].state = "cancelled"]
  /\ UNCHANGED <<items, steps, runs, receipts, mirror, faults>>

-----------------------------------------------------------------------------
(* A run: one pass over the steps.                                         *)

Goes(r, phase) == runs' = [runs EXCEPT ![r].phase = phase]

Flow(r) == workflows[runs[r].workflow]

AtStep(r) == steps[runs[r].workflow][runs[r].step]

Does(r, kind) == runs[r].phase = "work" /\ STEP_ORDER[runs[r].step] = kind

SetStep(r, step) == steps' = [steps EXCEPT ![runs[r].workflow][runs[r].step] = step]

Done(step) == step.state \in {"complete", "skipped"}

\* On to the next step, or out of the loop after the last one.
Advances(r) ==
  IF runs[r].step = Len(STEP_ORDER) THEN Goes(r, "finish")
  ELSE runs' = [runs EXCEPT ![r].phase = "look", ![r].step = runs[r].step + 1]

\* markWorkflowProcessing
StartRun(r, w) ==
  /\ runs[r].phase = "idle"
  /\ Runnable(w)
  /\ workflows' = [workflows EXCEPT ![w].state = "processing"]
  /\ runs' = [runs EXCEPT ![r] = [phase |-> "look", workflow |-> w, step |-> 1]]
  /\ UNCHANGED <<items, steps, receipts, mirror, faults>>

\* listSteps
LookAtStep(r) ==
  /\ runs[r].phase = "look"
  /\ IF Done(AtStep(r)) THEN Advances(r) ELSE Goes(r, "claim")
  /\ UNCHANGED <<items, workflows, steps, receipts, mirror, faults>>

Claimable(step) ==
  step.state \in {"pending", "failed"} \/ (step.state = "processing" /\ step.lapsed)

\* Faulty variant: a step somebody else holds is passed over.
ClaimStepOrPass(r) ==
  /\ runs[r].phase = "claim"
  /\ \/ /\ Claimable(AtStep(r))
        /\ SetStep(r, [state |-> "processing", owner |-> r, lapsed |-> FALSE])
        /\ Goes(r, "work")
     \/ /\ ~Claimable(AtStep(r))
        /\ Advances(r)
        /\ UNCHANGED steps
  /\ UNCHANGED <<items, workflows, receipts, mirror, faults>>

\* Faulty variant: an expired lease is never taken over.
ClaimStepOnce(r) ==
  /\ runs[r].phase = "claim"
  /\ \/ /\ AtStep(r).state \in {"pending", "failed"}
        /\ SetStep(r, [state |-> "processing", owner |-> r, lapsed |-> FALSE])
        /\ Goes(r, "work")
     \/ /\ AtStep(r).state \notin {"pending", "failed"}
        /\ Goes(r, "finish")
        /\ UNCHANGED steps
  /\ UNCHANGED <<items, workflows, receipts, mirror, faults>>

ClaimStep(r) ==
  /\ runs[r].phase = "claim"
  /\ \/ /\ Claimable(AtStep(r))
        /\ SetStep(r, [state |-> "processing", owner |-> r, lapsed |-> FALSE])
        /\ Goes(r, "work")
     \/ /\ ~Claimable(AtStep(r))
        /\ Goes(r, "finish")
        /\ UNCHANGED steps
  /\ UNCHANGED <<items, workflows, receipts, mirror, faults>>

FreezeJobs(r) ==
  /\ Does(r, "freeze_jobs")
  /\ Goes(r, "report")
  /\ UNCHANGED <<items, workflows, steps, receipts, mirror, faults>>

\* One object and its row at a time: only a row not marked deleted is listed, and
\* it is marked after its object is gone.
DeleteAttachments(r) ==
  /\ Does(r, "delete_r2_attachments")
  /\ \E i \in Items :
       /\ i = Flow(r).item
       /\ \/ /\ \E object \in items[i].objects :
                  items' = [items EXCEPT ![i].objects = @ \ {object}]
             /\ UNCHANGED runs
          \/ items[i].objects = {} /\ Goes(r, "report") /\ UNCHANGED items
  /\ UNCHANGED <<workflows, steps, receipts, mirror, faults>>

ArchiveProjection(r) ==
  /\ Does(r, "archive_notion_projection")
  /\ Goes(r, "report")
  /\ UNCHANGED <<items, workflows, steps, receipts, mirror, faults>>

\* hasReceipt: this workflow has purged the item already.
CheckReceipt(r) ==
  /\ Does(r, "delete_d1_item_data")
  /\ Goes(r, IF receipts[Flow(r).item] = runs[r].workflow THEN "report" ELSE "erase")
  /\ UNCHANGED <<items, workflows, steps, receipts, mirror, faults>>

\* Faulty variant: the receipt is not part of the batch.
EraseWithoutReceipt(r) ==
  /\ runs[r].phase = "erase"
  /\ items' = [items EXCEPT ![Flow(r).item].exists = @ /\ ~items[Flow(r).item].deleted]
  /\ Goes(r, "report")
  /\ UNCHANGED <<workflows, steps, receipts, mirror, faults>>

\* The batch of purgeItem: a receipt unless the item has one, and the row only if
\* it is soft deleted.  With a receipt in place its caller never sees a failure.
PurgeItem(r) ==
  /\ runs[r].phase = "erase"
  /\ receipts' = [receipts EXCEPT ![Flow(r).item] =
                    IF @ = None THEN runs[r].workflow ELSE @]
  /\ items' = [items EXCEPT ![Flow(r).item].exists = @ /\ ~items[Flow(r).item].deleted]
  /\ Goes(r, "report")
  /\ UNCHANGED <<workflows, steps, mirror, faults>>

\* Faulty variant: the receipt of another workflow will do.
FinalizeAnyReceipt(r) ==
  /\ Does(r, "finalize_receipt")
  /\ mirror' = [mirror EXCEPT ![Flow(r).item] = receipts[Flow(r).item]]
  /\ Goes(r, "report")
  /\ UNCHANGED <<items, workflows, steps, receipts, faults>>

\* PURGE_RECEIPT_MISSING when the item's receipt is of another workflow.
FinalizeReceipt(r) ==
  /\ Does(r, "finalize_receipt")
  /\ \/ /\ receipts[Flow(r).item] = runs[r].workflow
        /\ mirror' = [mirror EXCEPT ![Flow(r).item] = runs[r].workflow]
        /\ Goes(r, "report")
     \/ /\ receipts[Flow(r).item] # runs[r].workflow
        /\ Goes(r, "failing")
        /\ UNCHANGED mirror
  /\ UNCHANGED <<items, workflows, steps, receipts, faults>>

Outcomes(r) ==
  {"complete"} \cup
  (IF STEP_ORDER[runs[r].step] = "archive_notion_projection" THEN {"skipped"} ELSE {})

Held(r) ==
  AtStep(r).state = "processing" /\ AtStep(r).owner = r /\ ~AtStep(r).lapsed

\* completeStep, guarded by the lease
CompleteStep(r) ==
  /\ runs[r].phase = "report"
  /\ \/ Held(r) /\ (\E outcome \in Outcomes(r) : SetStep(r, Step(outcome))) /\ Advances(r)
     \/ ~Held(r) /\ Goes(r, "partial") /\ UNCHANGED steps
  /\ UNCHANGED <<items, workflows, receipts, mirror, faults>>

\* Faulty variant: the failed step keeps its owner.
FailStepStillOwned(r) ==
  /\ runs[r].phase = "failing"
  /\ steps' = [steps EXCEPT ![runs[r].workflow][runs[r].step].state = "failed"]
  /\ Goes(r, "partial")
  /\ UNCHANGED <<items, workflows, receipts, mirror, faults>>

\* Faulty variant: whoever owns the step and whatever its state.
FailStepUnguarded(r) ==
  /\ runs[r].phase = "failing"
  /\ SetStep(r, Step("failed"))
  /\ Goes(r, "partial")
  /\ UNCHANGED <<items, workflows, receipts, mirror, faults>>

\* failStep asks for the owner, not for its lease.
FailStep(r) ==
  /\ runs[r].phase = "failing"
  /\ IF AtStep(r).state = "processing" /\ AtStep(r).owner = r
       THEN SetStep(r, Step("failed"))
       ELSE UNCHANGED steps
  /\ Goes(r, "partial")
  /\ UNCHANGED <<items, workflows, receipts, mirror, faults>>

MarkWorkflowPartial(r) ==
  /\ runs[r].phase = "partial"
  /\ workflows' = [workflows EXCEPT ![runs[r].workflow].state =
                     IF @ = "processing" THEN "partial" ELSE @]
  /\ Goes(r, "finish")
  /\ UNCHANGED <<items, steps, receipts, mirror, faults>>

\* The last listSteps and markWorkflowComplete.
MarkWorkflowComplete(r) ==
  /\ runs[r].phase = "finish"
  /\ workflows' = [workflows EXCEPT ![runs[r].workflow].state =
       IF @ = "processing" /\ \A n \in Steps : Done(steps[runs[r].workflow][n])
         THEN "complete" ELSE @]
  /\ runs' = [runs EXCEPT ![r] = IdleRun]
  /\ UNCHANGED <<items, steps, receipts, mirror, faults>>

-----------------------------------------------------------------------------
(* Faults.                                                                 *)

Fault == faults < MaxFaults /\ faults' = faults + 1

\* An R2, Notion or D1 error inside the try block, up to completeStep.
StepThrows(r) ==
  /\ Fault
  /\ runs[r].phase \in {"work", "erase", "report"}
  /\ Goes(r, "failing")
  /\ UNCHANGED <<items, workflows, steps, receipts, mirror>>

\* completeStep wrote its row and its answer is lost: the catch block runs.
CompleteStepThrows(r) ==
  /\ Fault
  /\ runs[r].phase = "report" /\ Held(r)
  /\ \E outcome \in Outcomes(r) : SetStep(r, Step(outcome))
  /\ Goes(r, "failing")
  /\ UNCHANGED <<items, workflows, receipts, mirror>>

RunDies(r) ==
  /\ Fault
  /\ runs[r].phase # "idle"
  /\ runs' = [runs EXCEPT ![r] = IdleRun]
  /\ UNCHANGED <<items, workflows, steps, receipts, mirror>>

\* The owner is the call in this slot, not a call that died in it before.
Working(w, n) ==
  \E r \in Runs :
    /\ r = steps[w][n].owner
    /\ runs[r].workflow = w /\ runs[r].step = n
    /\ runs[r].phase \in {"work", "erase", "report", "failing"}

\* A lease expires.  It is a fault only while its owner still works on the step.
Lapse(w, n) ==
  /\ steps[w][n].state = "processing" /\ ~steps[w][n].lapsed
  /\ IF Working(w, n) THEN Fault ELSE UNCHANGED faults
  /\ steps' = [steps EXCEPT ![w][n].lapsed = TRUE]
  /\ UNCHANGED <<items, workflows, runs, receipts, mirror>>

-----------------------------------------------------------------------------

OwnerStep ==
  \/ \E i \in Items : EditItem(i) \/ \E deleted \in BOOLEAN : SetDeleted(i, deleted)
  \/ \E w \in Workflows :
       \/ \E i \in Items : RequestPurge(w, i)
       \/ CreateConfirmation(w)
       \/ ExpireConfirmation(w)
       \/ CheckConfirmation(w)
       \/ ConfirmPurge(w)
       \/ ConfirmPurgeDies(w)
       \/ CancelExpiredConfirmation(w)

Start(r) == \E w \in Workflows : StartRun(r, w)

Proceed(r) ==
  \/ LookAtStep(r)
  \/ ClaimStep(r)
  \/ FreezeJobs(r)
  \/ DeleteAttachments(r)
  \/ ArchiveProjection(r)
  \/ CheckReceipt(r)
  \/ PurgeItem(r)
  \/ FinalizeReceipt(r)
  \/ CompleteStep(r)
  \/ FailStep(r)
  \/ MarkWorkflowPartial(r)
  \/ MarkWorkflowComplete(r)

RunStep ==
  \E r \in Runs :
    Start(r) \/ Proceed(r) \/ StepThrows(r) \/ CompleteStepThrows(r) \/ RunDies(r)

LapseStep == \E w \in Workflows, n \in Steps : Lapse(w, n)

Next == OwnerStep \/ RunStep \/ LapseStep

Spec == Init /\ [][Next]_vars

\* The cron keeps starting runs of every runnable workflow, a run proceeds, and
\* the lease of a dead run expires.
Fairness ==
  /\ \A r \in Runs : WF_vars(Proceed(r))
  /\ \A w \in Workflows : WF_vars(\E r \in Runs : StartRun(r, w))
  /\ \A w \in Workflows, n \in Steps : WF_vars(Lapse(w, n) /\ ~Working(w, n))

FairSpec == Spec /\ Fairness

-----------------------------------------------------------------------------
(* Properties.                                                             *)

\* purge.worker.ts works through STEP_ORDER: no step is touched before the ones
\* before it are done, whichever runs share the workflow, stall or die.
StepsInOrder ==
  \A w \in Workflows, n \in Steps :
    steps[w][n].state # "pending" => \A m \in 1 .. n - 1 : Done(steps[w][m])

\* docs/DATA_MODEL.md: "preventing a crash between canonical deletion and tombstone
\* creation".  An item that is gone has a receipt, and no object of it is left
\* behind in R2 where nothing would find it any more.
GoneIsAccountedFor ==
  \A i \in Items : ~items[i].exists => receipts[i] # None /\ items[i].objects = {}

\* A workflow that reports completion has its own receipt in D1 and in R2, so that
\* no later restore from a backup brings the item back.
CompleteIsMirrored ==
  \A w \in Workflows : workflows[w].state = "complete" =>
    receipts[workflows[w].item] = w /\ mirror[workflows[w].item] = w

\* A step that is done stays done, even when a run whose lease was taken over
\* reports its failure or its success late.
DoneIsFinal ==
  [][\A w \in Workflows, n \in Steps : Done(steps[w][n]) => steps'[w][n] = steps[w][n]]_vars

\* A confirmed purge ends, after any number of partial runs, unless an earlier
\* workflow left a receipt for the item: then its last step fails each time.
ConfirmedPurgeEnds ==
  \A w \in Workflows :
    Runnable(w) ~> (\/ workflows[w].state = "complete"
                    \/ \E i \in Items : i = workflows[w].item /\ receipts[i] \notin {w, None})

\* docs/tickets/OPE-228.md: "completed purge removes active D1 canonical/derived
\* data and R2 bytes".
CompletedPurgeRemoves ==
  \A w \in Workflows : workflows[w].state = "complete" => ~items[workflows[w].item].exists

\* docs/API.md: the confirmation "queues destructive work only when ... the item is
\* still soft deleted, and its edit version has not changed".
QueuedAsRequested ==
  [][\A w \in Workflows :
       workflows[w].state = "confirmation_pending" /\ workflows'[w].state = "queued" =>
         /\ items[workflows[w].item].deleted
         /\ items[workflows[w].item].version = workflows[w].version]_vars
====
