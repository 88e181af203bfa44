------------------------------ MODULE PurgeProofs ------------------------------
(***************************************************************************)
(* Theorems about Purge.                                                   *)
(***************************************************************************)
EXTENDS Purge, TLAPS

\* What the end of a step vouches for: the objects are gone, the receipt is
\* in D1 and in R2.
Evidence(w, n) ==
  LET i == workflows[w].item
  IN /\ n = 2 => items[i].objects = {}
     /\ n = 5 => receipts[i] = w /\ mirror[i] = w

\* A run has been started for the workflow.
Begun(w) == workflows[w].state \in {"processing", "partial", "complete"}

\* Before the first run no step is touched, after the last one all are done.
FlowsPlaced ==
  \A w \in Workflows :
    /\ workflows[w].state # "absent" => workflows[w].item \in Items
    /\ ~Begun(w) => \A n \in Steps : steps[w][n].state = "pending"
    /\ workflows[w].state = "complete" => \A n \in Steps : Done(steps[w][n])

DoneIsEvident ==
  \A w \in Workflows, n \in Steps : Done(steps[w][n]) => Evidence(w, n)

\* A run is past the steps that are done, and reports what it has seen to.
RunPlaced(r) ==
  /\ runs[r].workflow \in Workflows /\ Begun(runs[r].workflow)
  /\ \A m \in 1 .. runs[r].step - 1 : Done(steps[runs[r].workflow][m])
  /\ runs[r].phase = "erase" => runs[r].step = 4
  /\ runs[r].phase = "report" => Evidence(runs[r].workflow, runs[r].step)

RunsPlaced == \A r \in Runs : runs[r].phase # "idle" => RunPlaced(r)

IInv ==
  /\ TypeOK /\ StepsInOrder /\ GoneIsAccountedFor
  /\ FlowsPlaced /\ DoneIsEvident /\ RunsPlaced

-----------------------------------------------------------------------------
(* What any step may do to a workflow, a purge step, a run and an item.    *)

FlowMoves(w) ==
  \/ workflows'[w].state = workflows[w].state /\ workflows'[w].item = workflows[w].item
  \/ /\ ~Begun(w) /\ workflows'[w].state \notin {"processing", "partial", "complete"}
     /\ workflows'[w].state # "absent" => workflows'[w].item \in Items
  \/ /\ Runnable(w) /\ workflows'[w].state \in {"processing", "partial"}
     /\ workflows'[w].item = workflows[w].item
  \/ /\ workflows[w].state = "processing" /\ workflows'[w].state = "complete"
     /\ workflows'[w].item = workflows[w].item
     /\ \A n \in Steps : Done(steps[w][n])

StepMoves(w, n) ==
  \/ steps'[w][n] = steps[w][n]
  \/ /\ Begun(w) /\ ~Done(steps[w][n])
     /\ \A m \in 1 .. n - 1 : Done(steps[w][m])
     /\ Done(steps'[w][n]) => Evidence(w, n)

RunMoves(r) ==
  \/ runs'[r] = runs[r]
  \/ runs'[r].phase = "idle"
  \/ /\ runs'[r].phase = "look" /\ runs'[r].step = 1
     /\ runs'[r].workflow \in Workflows
     /\ workflows'[runs'[r].workflow].state = "processing"
  \/ /\ runs[r].phase # "idle"
     /\ runs'[r].workflow = runs[r].workflow /\ runs'[r].step = runs[r].step
     /\ runs'[r].phase = "erase" => runs[r].step = 4
     /\ runs'[r].phase = "report" => Evidence(runs[r].workflow, runs[r].step)'
  \/ /\ runs[r].phase # "idle" /\ runs'[r].phase = "look"
     /\ runs'[r].workflow = runs[r].workflow /\ runs'[r].step = runs[r].step + 1
     /\ Done(steps'[runs[r].workflow][runs[r].step])

ItemMoves(i) ==
  /\ items'[i].objects \subseteq items[i].objects
  /\ items'[i].exists # items[i].exists => items[i].objects = {} /\ receipts'[i] # None
  /\ receipts'[i] # receipts[i] => receipts[i] = None
  /\ mirror'[i] # mirror[i] => mirror'[i] = receipts[i] /\ receipts[i] # None

-----------------------------------------------------------------------------
(* Types.                                                                  *)

LEMMA FiveSteps == Steps = 1 .. 5 /\ Len(STEP_ORDER) = 5
BY DEF Steps, STEP_ORDER

LEMMA StepNames ==
  \A n \in Steps :
    /\ STEP_ORDER[n] = "freeze_jobs" <=> n = 1
    /\ STEP_ORDER[n] = "delete_r2_attachments" <=> n = 2
    /\ STEP_ORDER[n] = "archive_notion_projection" <=> n = 3
    /\ STEP_ORDER[n] = "delete_d1_item_data" <=> n = 4
    /\ STEP_ORDER[n] = "finalize_receipt" <=> n = 5
<1>1. \A n \in Steps : n = 1 \/ n = 2 \/ n = 3 \/ n = 4 \/ n = 5
  BY FiveSteps
<1> QED BY <1>1 DEF STEP_ORDER

LEMMA StepRows ==
  /\ \A state \in {"pending", "complete", "failed", "skipped"} : Step(state) \in StepRecord
  /\ \A r \in Runs : [state |-> "processing", owner |-> r, lapsed |-> FALSE] \in StepRecord
  /\ \A step \in StepRecord : [step EXCEPT !.lapsed = TRUE] \in StepRecord
BY PurgeAssumption DEF Step, StepRecord

LEMMA WorkflowRows ==
  ASSUME NEW row \in WorkflowRecord
  PROVE  /\ row.state \in {"absent", "requested", "confirmation_pending", "queued", "processing",
                           "partial", "complete", "cancelled"}
         /\ \A state \in {"absent", "requested", "confirmation_pending", "queued", "processing",
                          "partial", "complete", "cancelled"} :
              [row EXCEPT !.state = state] \in WorkflowRecord
BY DEF WorkflowRecord

\* A statement writes one row of purge_steps.
LEMMA SetStepType ==
  ASSUME TypeOK, NEW r \in Runs, runs[r].workflow \in Workflows, NEW step \in StepRecord, SetStep(r, step)
  PROVE  /\ steps' \in [Workflows -> [Steps -> StepRecord]]
         /\ steps'[runs[r].workflow][runs[r].step] = step
         /\ \A w \in Workflows, n \in Steps :
              ~(w = runs[r].workflow /\ n = runs[r].step) => steps'[w][n] = steps[w][n]
<1>1. runs[r].step \in Steps
  BY DEF TypeOK, RunRecord
<1> QED BY <1>1 DEF TypeOK, SetStep

LEMMA GoesType ==
  ASSUME TypeOK, NEW r \in Runs,
         NEW phase \in {"claim", "work", "erase", "report", "failing", "partial", "finish"}, Goes(r, phase)
  PROVE  /\ runs' \in [Runs -> RunRecord]
         /\ runs'[r].phase = phase
         /\ runs'[r].workflow = runs[r].workflow /\ runs'[r].step = runs[r].step
         /\ \A s \in Runs \ {r} : runs'[s] = runs[s]
BY DEF TypeOK, Goes, RunRecord

LEMMA AdvancesType ==
  ASSUME TypeOK, NEW r \in Runs, Advances(r)
  PROVE  /\ runs' \in [Runs -> RunRecord]
         /\ runs'[r].workflow = runs[r].workflow
         /\ \/ runs'[r].phase = "finish" /\ runs'[r].step = runs[r].step
            \/ runs'[r].phase = "look" /\ runs'[r].step = runs[r].step + 1
         /\ \A s \in Runs \ {r} : runs'[s] = runs[s]
<1>1. runs \in [Runs -> RunRecord] /\ runs[r].step \in 1 .. 5
  BY FiveSteps DEF TypeOK, RunRecord
<1>2. CASE runs[r].step = 5
  BY <1>2, FiveSteps, GoesType DEF Advances
<1>3. CASE runs[r].step # 5
  <2> DEFINE looks == [runs[r] EXCEPT !.phase = "look"]
             next == [looks EXCEPT !.step = runs[r].step + 1]
  <2>1. runs' = [runs EXCEPT ![r] = next]
    BY <1>1, <1>3, FiveSteps DEF Advances
  <2>2. looks \in RunRecord /\ looks.workflow = runs[r].workflow /\ looks.phase = "look"
    BY <1>1 DEF RunRecord
  <2>3. runs[r].step + 1 \in Steps
    BY <1>1, <1>3, FiveSteps
  <2>4. next \in RunRecord /\ next.workflow = runs[r].workflow /\ next.phase = "look"
        /\ next.step = runs[r].step + 1
    <3> HIDE DEF looks
    <3> QED BY <2>2, <2>3 DEF RunRecord
  <2> HIDE DEF next
  <2> QED BY <1>1, <2>1, <2>4
<1> QED BY <1>2, <1>3

\* A run that is not idle has a workflow, and the workflow an item.
LEMMA AtWork ==
  ASSUME TypeOK, FlowsPlaced, RunsPlaced, NEW r \in Runs, runs[r].phase # "idle"
  PROVE  /\ runs[r].workflow \in Workflows /\ Begun(runs[r].workflow)
         /\ Flow(r).item \in Items
         /\ runs[r].step \in 1 .. 5 /\ runs[r].step \in Steps
         /\ AtStep(r) \in StepRecord
         /\ \A m \in 1 .. runs[r].step - 1 : Done(steps[runs[r].workflow][m])
<1>1. runs[r].workflow \in Workflows /\ Begun(runs[r].workflow)
      /\ \A m \in 1 .. runs[r].step - 1 : Done(steps[runs[r].workflow][m])
  BY DEF RunsPlaced, RunPlaced
<1>2. Flow(r).item \in Items
  BY <1>1 DEF FlowsPlaced, Begun, Flow
<1>3. runs[r].step \in 1 .. 5 /\ runs[r].step \in Steps
  BY FiveSteps DEF TypeOK, RunRecord
<1> QED BY <1>1, <1>2, <1>3 DEF TypeOK, AtStep

LEMMA OutcomeRows ==
  ASSUME TypeOK, NEW r \in Runs, NEW outcome \in Outcomes(r)
  PROVE  /\ Step(outcome) \in StepRecord /\ Done(Step(outcome))
BY StepRows DEF Outcomes, Step, Done

LEMMA TypeStep ==
  ASSUME TypeOK, FlowsPlaced, RunsPlaced, [Next]_vars
  PROVE  TypeOK'
<1>0. /\ \A i \in Items : items[i] \in ItemRecord
      /\ \A w \in Workflows : workflows[w] \in WorkflowRecord
      /\ \A r \in Runs : runs[r] \in RunRecord
      /\ MaxVersion \in Nat /\ MaxFaults \in Nat
  BY PurgeAssumption DEF TypeOK
<1>1. ASSUME NEW i \in Items, NEW deleted \in BOOLEAN, SetDeleted(i, deleted) PROVE TypeOK'
  <2> DEFINE a1 == [items[i] EXCEPT !.deleted = deleted]
             a2 == [a1 EXCEPT !.version = items[i].version + 1]
  <2>1. a1 \in ItemRecord /\ items[i].version + 1 \in 0 .. MaxVersion
    BY <1>0, <1>1 DEF SetDeleted, ItemRecord
  <2>2. a2 \in ItemRecord
    <3> HIDE DEF a1
    <3> QED BY <2>1 DEF ItemRecord
  <2>3. items' = [items EXCEPT ![i] = a2]
    BY <1>0, <1>1 DEF SetDeleted, TypeOK, ItemRecord
  <2>4. items' \in [Items -> ItemRecord]
    <3> HIDE DEF a2
    <3> QED BY <2>2, <2>3 DEF TypeOK
  <2> QED BY <1>1, <2>4 DEF SetDeleted, TypeOK
<1>2. ASSUME NEW i \in Items, EditItem(i) PROVE TypeOK'
  <2>1. items[i].version + 1 \in 0 .. MaxVersion
    BY <1>0, <1>2 DEF EditItem, ItemRecord
  <2>2. items' \in [Items -> ItemRecord]
    BY <1>2, <2>1 DEF EditItem, TypeOK, ItemRecord
  <2> QED BY <1>2, <2>2 DEF EditItem, TypeOK
<1>3. ASSUME NEW w \in Workflows, NEW i \in Items, RequestPurge(w, i) PROVE TypeOK'
  <2>1. items[i].version \in 0 .. MaxVersion
    BY <1>0 DEF ItemRecord
  <2>2. [AbsentWorkflow EXCEPT !.item = i, !.state = "requested", !.version = items[i].version]
          \in WorkflowRecord
    BY <2>1 DEF AbsentWorkflow, WorkflowRecord
  <2>3. workflows' \in [Workflows -> WorkflowRecord]
    BY <1>3, <2>2 DEF RequestPurge, TypeOK
  <2> QED BY <1>3, <2>3 DEF RequestPurge, TypeOK
<1>4. ASSUME NEW w \in Workflows,
             \/ CreateConfirmation(w) \/ ExpireConfirmation(w) \/ CheckConfirmation(w)
             \/ ConfirmPurge(w) \/ ConfirmPurgeDies(w) \/ CancelExpiredConfirmation(w)
      PROVE  TypeOK'
  <2>1. AbsentWorkflow \in WorkflowRecord
    BY <1>0 DEF AbsentWorkflow, WorkflowRecord
  <2>2. workflows' \in [Workflows -> WorkflowRecord]
    <3>1. CASE CreateConfirmation(w)
      BY <2>1, <3>1, WorkflowRows DEF CreateConfirmation, TypeOK
    <3>2. CASE ExpireConfirmation(w)
      BY <3>2 DEF ExpireConfirmation, TypeOK, WorkflowRecord
    <3>3. CASE CheckConfirmation(w)
      BY <3>3, ZenonT(40) DEF CheckConfirmation, TypeOK, WorkflowRecord
    <3>4. CASE ConfirmPurge(w)
      <4> DEFINE a1 == [workflows[w] EXCEPT !.checked = FALSE]
                 a2 == [a1 EXCEPT !.state =
                          IF workflows[w].state = "confirmation_pending" THEN "queued"
                          ELSE workflows[w].state]
      <4>1. a1 \in WorkflowRecord
        BY <1>0 DEF WorkflowRecord
      <4>2. a2 \in WorkflowRecord
        <5>1. (IF workflows[w].state = "confirmation_pending" THEN "queued" ELSE workflows[w].state)
                \in {"absent", "requested", "confirmation_pending", "queued", "processing",
                     "partial", "complete", "cancelled"}
          BY <1>0 DEF WorkflowRecord
        <5> HIDE DEF a1
        <5> QED BY <4>1, <5>1 DEF WorkflowRecord
      <4>3. workflows' = [workflows EXCEPT ![w] = a2]
        BY <1>0, <3>4 DEF ConfirmPurge, TypeOK, WorkflowRecord
      <4> HIDE DEF a2
      <4> QED BY <4>2, <4>3 DEF TypeOK
    <3>5. CASE ConfirmPurgeDies(w)
      BY <3>5, ZenonT(40) DEF ConfirmPurgeDies, TypeOK, WorkflowRecord
    <3>6. CASE CancelExpiredConfirmation(w)
      BY <3>6, ZenonT(40) DEF CancelExpiredConfirmation, TypeOK, WorkflowRecord
    <3> QED BY <1>4, <3>1, <3>2, <3>3, <3>4, <3>5, <3>6
  <2> QED
    BY <1>4, <2>2 DEF CreateConfirmation, ExpireConfirmation, CheckConfirmation, ConfirmPurge,
       ConfirmPurgeDies, CancelExpiredConfirmation, TypeOK
<1>5. ASSUME NEW r \in Runs, NEW w \in Workflows, StartRun(r, w) PROVE TypeOK'
  <2>1. workflows' \in [Workflows -> WorkflowRecord]
    BY <1>5 DEF StartRun, TypeOK, WorkflowRecord
  <2>2. [phase |-> "look", workflow |-> w, step |-> 1] \in RunRecord
    BY FiveSteps DEF RunRecord
  <2> QED BY <1>5, <2>1, <2>2 DEF StartRun, TypeOK
<1>6. ASSUME NEW r \in Runs, LookAtStep(r) PROVE TypeOK'
  BY <1>6, GoesType, AdvancesType DEF LookAtStep, TypeOK
<1>7. ASSUME NEW r \in Runs, ClaimStep(r) PROVE TypeOK'
  <2>1. runs' \in [Runs -> RunRecord]
    BY <1>7, GoesType DEF ClaimStep
  <2>2. steps' \in [Workflows -> [Steps -> StepRecord]]
    BY <1>7, AtWork, SetStepType, StepRows DEF ClaimStep, TypeOK
  <2> QED BY <1>7, <2>1, <2>2 DEF ClaimStep, TypeOK
<1>8. ASSUME NEW r \in Runs, FreezeJobs(r) \/ ArchiveProjection(r) \/ CheckReceipt(r) PROVE TypeOK'
  BY <1>8, GoesType DEF FreezeJobs, ArchiveProjection, CheckReceipt, TypeOK
<1>9. ASSUME NEW r \in Runs, DeleteAttachments(r) PROVE TypeOK'
  <2>1. runs' \in [Runs -> RunRecord]
    BY <1>9, GoesType DEF DeleteAttachments, TypeOK
  <2>2. items' \in [Items -> ItemRecord]
    <3>1. CASE \E i \in Items, object \in Objects :
                 items' = [items EXCEPT ![i].objects = @ \ {object}]
      <4>1. \A i \in Items, object \in Objects :
              [items[i] EXCEPT !.objects = items[i].objects \ {object}] \in ItemRecord
        BY <1>0 DEF ItemRecord
      <4> QED BY <3>1, <4>1 DEF TypeOK
    <3>2. \A i \in Items : items[i].objects \subseteq Objects
      BY <1>0 DEF ItemRecord
    <3> QED BY <1>9, <3>1, <3>2 DEF DeleteAttachments, TypeOK
  <2> QED BY <1>9, <2>1, <2>2 DEF DeleteAttachments, TypeOK
<1>10. ASSUME NEW r \in Runs, PurgeItem(r) PROVE TypeOK'
  <2>1. runs' \in [Runs -> RunRecord]
    BY <1>10, GoesType DEF PurgeItem
  <2>2. runs[r].workflow \in Workflows /\ Flow(r).item \in Items
    BY <1>10, AtWork DEF PurgeItem
  <2>3. receipts' \in [Items -> Workflows \cup {None}]
    BY <1>10, <2>2 DEF PurgeItem, TypeOK
  <2>4. [items[Flow(r).item] EXCEPT !.exists = @ /\ ~items[Flow(r).item].deleted] \in ItemRecord
    <3>1. \A row \in ItemRecord, exists \in BOOLEAN : [row EXCEPT !.exists = exists] \in ItemRecord
      BY DEF ItemRecord
    <3>2. items[Flow(r).item].exists \in BOOLEAN /\ items[Flow(r).item].deleted \in BOOLEAN
      BY <1>0, <2>2 DEF ItemRecord
    <3> QED BY <1>0, <2>2, <3>1, <3>2
  <2>5. items' \in [Items -> ItemRecord]
    BY <1>10, <2>2, <2>4 DEF PurgeItem, TypeOK
  <2> QED BY <1>10, <2>1, <2>3, <2>5 DEF PurgeItem, TypeOK
<1>11. ASSUME NEW r \in Runs, FinalizeReceipt(r) PROVE TypeOK'
  <2>1. runs' \in [Runs -> RunRecord]
    BY <1>11, GoesType DEF FinalizeReceipt
  <2>2. runs[r].workflow \in Workflows
    BY <1>11, AtWork DEF FinalizeReceipt, Does
  <2> QED BY <1>11, <2>1, <2>2 DEF FinalizeReceipt, TypeOK
<1>12. ASSUME NEW r \in Runs, CompleteStep(r) PROVE TypeOK'
  <2>1. runs' \in [Runs -> RunRecord]
    BY <1>12, GoesType, AdvancesType DEF CompleteStep
  <2>2. steps' \in [Workflows -> [Steps -> StepRecord]]
    BY <1>12, AtWork, SetStepType, OutcomeRows DEF CompleteStep, TypeOK
  <2> QED BY <1>12, <2>1, <2>2 DEF CompleteStep, TypeOK
<1>13. ASSUME NEW r \in Runs, FailStep(r) PROVE TypeOK'
  <2>1. runs' \in [Runs -> RunRecord]
    BY <1>13, GoesType DEF FailStep
  <2>2. steps' \in [Workflows -> [Steps -> StepRecord]]
    BY <1>13, AtWork, SetStepType, StepRows DEF FailStep, TypeOK
  <2> QED BY <1>13, <2>1, <2>2 DEF FailStep, TypeOK
<1>14. ASSUME NEW r \in Runs, MarkWorkflowPartial(r) PROVE TypeOK'
  <2>1. runs' \in [Runs -> RunRecord]
    BY <1>14, GoesType DEF MarkWorkflowPartial
  <2>2. workflows' \in [Workflows -> WorkflowRecord]
    <3>1. runs[r].workflow \in Workflows
      BY <1>14, AtWork DEF MarkWorkflowPartial
    <3> QED BY <1>14, <3>1, WorkflowRows DEF MarkWorkflowPartial, TypeOK
  <2> QED BY <1>14, <2>1, <2>2 DEF MarkWorkflowPartial, TypeOK
<1>15. ASSUME NEW r \in Runs, MarkWorkflowComplete(r) PROVE TypeOK'
  <2>1. IdleRun \in RunRecord
    BY FiveSteps DEF IdleRun, RunRecord
  <2>2. workflows' \in [Workflows -> WorkflowRecord]
    <3>1. runs[r].workflow \in Workflows
      BY <1>15, AtWork DEF MarkWorkflowComplete
    <3> QED BY <1>15, <3>1, WorkflowRows DEF MarkWorkflowComplete, TypeOK
  <2> QED BY <1>15, <2>1, <2>2 DEF MarkWorkflowComplete, TypeOK
<1>16. ASSUME NEW r \in Runs, StepThrows(r) PROVE TypeOK'
  BY <1>0, <1>16, GoesType DEF StepThrows, Fault, TypeOK
<1>17. ASSUME NEW r \in Runs, CompleteStepThrows(r) PROVE TypeOK'
  <2>1. runs' \in [Runs -> RunRecord]
    BY <1>17, GoesType DEF CompleteStepThrows
  <2>2. steps' \in [Workflows -> [Steps -> StepRecord]]
    BY <1>17, AtWork, SetStepType, OutcomeRows DEF CompleteStepThrows
  <2> QED BY <1>0, <1>17, <2>1, <2>2 DEF CompleteStepThrows, Fault, TypeOK
<1>18. ASSUME NEW r \in Runs, RunDies(r) PROVE TypeOK'
  <2>1. IdleRun \in RunRecord
    BY FiveSteps DEF IdleRun, RunRecord
  <2> QED BY <1>0, <1>18, <2>1 DEF RunDies, Fault, TypeOK
<1>19. ASSUME NEW w \in Workflows, NEW n \in Steps, Lapse(w, n) PROVE TypeOK'
  <2>1. steps' \in [Workflows -> [Steps -> StepRecord]]
    BY <1>19, StepRows DEF Lapse, TypeOK
  <2> QED BY <1>0, <1>19, <2>1 DEF Lapse, Fault, TypeOK
<1>20. ASSUME UNCHANGED vars PROVE TypeOK'
  BY <1>20 DEF vars, TypeOK
<1> QED
  BY <1>1, <1>2, <1>3, <1>4, <1>5, <1>6, <1>7, <1>8, <1>9, <1>10, <1>11, <1>12, <1>13, <1>14,
     <1>15, <1>16, <1>17, <1>18, <1>19, <1>20
  DEF Next, OwnerStep, RunStep, Start, Proceed, LapseStep

-----------------------------------------------------------------------------
(* Every step is one of the moves.                                         *)

LEMMA ItemSteps ==
  ASSUME TypeOK, FlowsPlaced, RunsPlaced, DoneIsEvident, [Next]_vars, NEW i \in Items
  PROVE  ItemMoves(i)
<1>1. ASSUME UNCHANGED <<items, receipts, mirror>> PROVE ItemMoves(i)
  BY <1>1 DEF ItemMoves
<1>2. ASSUME OwnerStep PROVE ItemMoves(i)
  <2>1. CASE \E j \in Items : EditItem(j) \/ \E deleted \in BOOLEAN : SetDeleted(j, deleted)
    <3>1. ASSUME NEW j \in Items, EditItem(j) PROVE ItemMoves(i)
      BY <3>1 DEF EditItem, ItemMoves, TypeOK, ItemRecord
    <3>2. ASSUME NEW j \in Items, NEW deleted \in BOOLEAN, SetDeleted(j, deleted) PROVE ItemMoves(i)
      <4>1. items' = [items EXCEPT ![j].deleted = deleted, ![j].version = items[j].version + 1]
        BY <3>2 DEF SetDeleted
      <4>2. items'[i].objects = items[i].objects /\ items'[i].exists = items[i].exists
        BY <4>1 DEF TypeOK, ItemRecord
      <4> QED BY <3>2, <4>2 DEF SetDeleted, ItemMoves
    <3> QED BY <2>1, <3>1, <3>2
  <2> QED BY <1>1, <1>2, <2>1 DEF OwnerStep, RequestPurge, CreateConfirmation, ExpireConfirmation,
         CheckConfirmation, ConfirmPurge, ConfirmPurgeDies, CancelExpiredConfirmation
<1>3. ASSUME NEW r \in Runs, DeleteAttachments(r) PROVE ItemMoves(i)
  <2>1. CASE \E j \in Items, object \in Objects : items' = [items EXCEPT ![j].objects = @ \ {object}]
    <3>1. PICK j \in Items, object \in Objects : items' = [items EXCEPT ![j].objects = @ \ {object}]
      BY <2>1
    <3>2. items'[i].objects \subseteq items[i].objects /\ items'[i].exists = items[i].exists
      BY <3>1 DEF TypeOK, ItemRecord
    <3> QED BY <1>3, <3>2 DEF DeleteAttachments, ItemMoves
  <2>2. \A j \in Items : items[j].objects \subseteq Objects
    BY DEF TypeOK, ItemRecord
  <2> QED BY <1>1, <1>3, <2>1, <2>2 DEF DeleteAttachments
<1>4. ASSUME NEW r \in Runs, PurgeItem(r) PROVE ItemMoves(i)
  <2>1. Flow(r).item \in Items /\ runs[r].workflow \in Workflows
    BY <1>4, AtWork DEF PurgeItem
  <2>2. items[Flow(r).item].objects = {}
    <3>1. runs[r].step = 4 /\ \A m \in 1 .. runs[r].step - 1 : Done(steps[runs[r].workflow][m])
      BY <1>4 DEF PurgeItem, RunsPlaced, RunPlaced
    <3>2. Done(steps[runs[r].workflow][2])
      BY <3>1
    <3>3. Evidence(runs[r].workflow, 2)
      BY <2>1, <3>2, FiveSteps DEF DoneIsEvident
    <3> QED BY <3>3 DEF Evidence, Flow
  <2>3. runs[r].workflow # None
    BY <2>1, PurgeAssumption
  <2>4. /\ receipts' = [receipts EXCEPT ![Flow(r).item] = IF @ = None THEN runs[r].workflow ELSE @]
        /\ items' = [items EXCEPT ![Flow(r).item].exists = @ /\ ~items[Flow(r).item].deleted]
        /\ mirror' = mirror
    BY <1>4 DEF PurgeItem
  <2>5. items'[i].objects = items[i].objects
    BY <2>1, <2>4 DEF TypeOK, ItemRecord
  <2>6. i # Flow(r).item => items'[i] = items[i] /\ receipts'[i] = receipts[i]
    BY <2>1, <2>4 DEF TypeOK
  <2>7. i = Flow(r).item => receipts'[i] # None
    BY <2>1, <2>3, <2>4 DEF TypeOK
  <2>8. receipts'[i] # receipts[i] => receipts[i] = None
    BY <2>1, <2>4 DEF TypeOK
  <2> QED BY <2>2, <2>4, <2>5, <2>6, <2>7, <2>8 DEF ItemMoves
<1>5. ASSUME NEW r \in Runs, FinalizeReceipt(r) PROVE ItemMoves(i)
  <2>1. Flow(r).item \in Items /\ runs[r].workflow \in Workflows
    BY <1>5, AtWork DEF FinalizeReceipt, Does
  <2>2. runs[r].workflow # None
    BY <2>1, PurgeAssumption
  <2> QED BY <1>5, <2>1, <2>2 DEF FinalizeReceipt, ItemMoves, TypeOK
<1> QED
  BY <1>1, <1>2, <1>3, <1>4, <1>5
  DEF Next, RunStep, Start, Proceed, LapseStep, StartRun, LookAtStep, ClaimStep, FreezeJobs,
      ArchiveProjection, CheckReceipt, CompleteStep, FailStep, MarkWorkflowPartial,
      MarkWorkflowComplete, StepThrows, CompleteStepThrows, RunDies, Lapse, vars

LEMMA FlowSteps ==
  ASSUME TypeOK, FlowsPlaced, RunsPlaced, [Next]_vars, NEW w \in Workflows
  PROVE  FlowMoves(w)
<1>0. workflows[w].state # "absent" => workflows[w].item \in Items
  BY DEF FlowsPlaced
<1>1. ASSUME UNCHANGED workflows PROVE FlowMoves(w)
  BY <1>1 DEF FlowMoves
<1>2. ASSUME NEW v \in Workflows,
             \/ \E i \in Items : RequestPurge(v, i)
             \/ CreateConfirmation(v) \/ ExpireConfirmation(v) \/ CheckConfirmation(v)
             \/ ConfirmPurge(v) \/ ConfirmPurgeDies(v) \/ CancelExpiredConfirmation(v)
      PROVE  FlowMoves(w)
  <2>1. CASE \E i \in Items : RequestPurge(v, i)
    <3>1. PICK i \in Items : RequestPurge(v, i)
      BY <2>1
    <3> DEFINE asked == [AbsentWorkflow EXCEPT !.item = i, !.state = "requested", !.version = items[i].version]
    <3>2. asked.state = "requested" /\ asked.item = i
      BY DEF AbsentWorkflow
    <3>3. workflows' = [workflows EXCEPT ![v] = asked] /\ workflows[v].state = "absent"
      BY <3>1 DEF RequestPurge
    <3> HIDE DEF asked
    <3> QED BY <3>2, <3>3 DEF FlowMoves, Begun, TypeOK
  <2>2. CASE CreateConfirmation(v)
    <3>1. workflows' = [workflows EXCEPT ![v].state = "confirmation_pending"]
          \/ workflows' = [workflows EXCEPT ![v] = AbsentWorkflow]
      BY <2>2 DEF CreateConfirmation
    <3>2. AbsentWorkflow.state = "absent"
      BY DEF AbsentWorkflow
    <3>3. workflows[v].state = "requested"
      BY <2>2 DEF CreateConfirmation
    <3>4. CASE workflows' = [workflows EXCEPT ![v].state = "confirmation_pending"]
      BY <1>0, <3>3, <3>4 DEF FlowMoves, Begun, TypeOK, WorkflowRecord
    <3>5. CASE workflows' = [workflows EXCEPT ![v] = AbsentWorkflow]
      BY <3>2, <3>3, <3>5 DEF FlowMoves, Begun, TypeOK
    <3> QED BY <3>1, <3>4, <3>5
  <2>3. CASE ExpireConfirmation(v) \/ CheckConfirmation(v) \/ ConfirmPurgeDies(v)
    <3>1. \/ workflows' = [workflows EXCEPT ![v].expired = TRUE]
          \/ workflows' = [workflows EXCEPT ![v].checked = TRUE]
          \/ workflows' = [workflows EXCEPT ![v].checked = FALSE]
      BY <2>3 DEF ExpireConfirmation, CheckConfirmation, ConfirmPurgeDies
    <3>2. workflows \in [Workflows -> WorkflowRecord] /\ w \in Workflows /\ v \in Workflows
      BY DEF TypeOK
    <3>3. /\ w # v => workflows'[w] = workflows[w]
          /\ workflows'[v].state = workflows[v].state /\ workflows'[v].item = workflows[v].item
      <4>1. CASE workflows' = [workflows EXCEPT ![v].expired = TRUE]
        BY <3>2, <4>1 DEF WorkflowRecord
      <4>2. CASE workflows' = [workflows EXCEPT ![v].checked = TRUE]
        BY <3>2, <4>2 DEF WorkflowRecord
      <4>3. CASE workflows' = [workflows EXCEPT ![v].checked = FALSE]
        BY <3>2, <4>3 DEF WorkflowRecord
      <4> QED BY <3>1, <4>1, <4>2, <4>3
    <3> QED BY <3>3 DEF FlowMoves
  <2>4. CASE ConfirmPurge(v)
    BY <1>0, <2>4 DEF ConfirmPurge, FlowMoves, Begun, TypeOK, WorkflowRecord
  <2>5. CASE CancelExpiredConfirmation(v)
    BY <1>0, <2>5 DEF CancelExpiredConfirmation, FlowMoves, Begun, TypeOK, WorkflowRecord
  <2> QED BY <1>2, <2>1, <2>2, <2>3, <2>4, <2>5
<1>3. ASSUME NEW r \in Runs, NEW v \in Workflows, StartRun(r, v) PROVE FlowMoves(w)
  BY <1>3 DEF StartRun, FlowMoves, TypeOK, WorkflowRecord
<1>4. ASSUME NEW r \in Runs, MarkWorkflowPartial(r) PROVE FlowMoves(w)
  BY <1>4, AtWork DEF MarkWorkflowPartial, FlowMoves, Runnable, TypeOK, WorkflowRecord
<1>5. ASSUME NEW r \in Runs, MarkWorkflowComplete(r) PROVE FlowMoves(w)
  BY <1>5, AtWork DEF MarkWorkflowComplete, FlowMoves, TypeOK, WorkflowRecord
<1> QED
  BY <1>1, <1>2, <1>3, <1>4, <1>5
  DEF Next, OwnerStep, RunStep, Start, Proceed, LapseStep, SetDeleted, EditItem, LookAtStep, ClaimStep,
      FreezeJobs, DeleteAttachments, ArchiveProjection, CheckReceipt, PurgeItem, FinalizeReceipt,
      CompleteStep, FailStep, StepThrows, CompleteStepThrows, RunDies, Lapse, vars

LEMMA EvidenceKept ==
  ASSUME TypeOK, FlowsPlaced, \A i \in Items : ItemMoves(i), NEW w \in Workflows, FlowMoves(w),
         Begun(w), NEW n \in Steps, Evidence(w, n)
  PROVE  /\ Evidence(w, n)'
         /\ Begun(w)' /\ workflows'[w].item = workflows[w].item
<1>1. Begun(w)' /\ workflows'[w].item = workflows[w].item
  BY DEF FlowMoves, Begun
<1>2. workflows[w].item \in Items /\ w # None
  BY PurgeAssumption DEF FlowsPlaced, Begun
<1>3. ItemMoves(workflows[w].item)
  BY <1>2
<1>4. Evidence(w, n)'
  BY <1>1, <1>2, <1>3, SMTT(30) DEF Evidence, ItemMoves
<1> QED BY <1>1, <1>4

LEMMA StepSteps ==
  ASSUME TypeOK, StepsInOrder, FlowsPlaced, RunsPlaced, [Next]_vars, NEW w \in Workflows, NEW n \in Steps
  PROVE  StepMoves(w, n)
<1>1. ASSUME UNCHANGED steps PROVE StepMoves(w, n)
  BY <1>1 DEF StepMoves
<1>2. ASSUME NEW r \in Runs, runs[r].phase # "idle", NEW step \in StepRecord, SetStep(r, step),
             ~Done(AtStep(r)), Done(step) => Evidence(runs[r].workflow, runs[r].step)
      PROVE  StepMoves(w, n)
  BY <1>2, AtWork, SetStepType DEF StepMoves, AtStep
<1>3. ASSUME NEW r \in Runs, runs[r].phase = "report" PROVE Evidence(runs[r].workflow, runs[r].step)
  BY <1>3 DEF RunsPlaced, RunPlaced
<1>4. ASSUME NEW r \in Runs, ClaimStep(r) PROVE StepMoves(w, n)
  BY <1>1, <1>2, <1>4, StepRows DEF ClaimStep, Claimable, Done
<1>5. ASSUME NEW r \in Runs, CompleteStep(r) \/ CompleteStepThrows(r) PROVE StepMoves(w, n)
  BY <1>1, <1>2, <1>3, <1>5, OutcomeRows DEF CompleteStep, CompleteStepThrows, Held, Done
<1>6. ASSUME NEW r \in Runs, FailStep(r) PROVE StepMoves(w, n)
  BY <1>1, <1>2, <1>6, StepRows DEF FailStep, Step, Done
<1>7. ASSUME NEW v \in Workflows, NEW m \in Steps, Lapse(v, m) PROVE StepMoves(w, n)
  <2>1. CASE w = v /\ n = m
    <3>1. steps[w][n].state = "processing" /\ steps'[w][n].state = "processing"
      BY <1>7, <2>1 DEF Lapse, TypeOK, StepRecord
    <3>2. Begun(w)
      BY <3>1 DEF FlowsPlaced
    <3>3. \A k \in 1 .. n - 1 : Done(steps[w][k])
      BY <3>1 DEF StepsInOrder
    <3> QED BY <3>1, <3>2, <3>3 DEF StepMoves, Done
  <2>2. CASE ~(w = v /\ n = m)
    BY <1>7, <2>2 DEF Lapse, TypeOK, StepMoves
  <2> QED BY <2>1, <2>2
<1> QED
  BY <1>1, <1>4, <1>5, <1>6, <1>7
  DEF Next, OwnerStep, RunStep, Start, Proceed, LapseStep, SetDeleted, EditItem, RequestPurge,
      CreateConfirmation, ExpireConfirmation, CheckConfirmation, ConfirmPurge, ConfirmPurgeDies,
      CancelExpiredConfirmation, StartRun, LookAtStep, FreezeJobs, DeleteAttachments,
      ArchiveProjection, CheckReceipt, PurgeItem, FinalizeReceipt, MarkWorkflowPartial,
      MarkWorkflowComplete, StepThrows, RunDies, vars

\* A run that goes on in the same step.
LEMMA RunGoes ==
  ASSUME TypeOK, NEW r \in Runs, runs[r].phase # "idle",
         NEW phase \in {"claim", "work", "erase", "report", "failing", "partial", "finish"}, Goes(r, phase),
         phase = "erase" => runs[r].step = 4,
         phase = "report" => Evidence(runs[r].workflow, runs[r].step)',
         NEW s \in Runs
  PROVE  RunMoves(s)
BY GoesType DEF RunMoves

\* A run that leaves a step that is done.
LEMMA RunAdvances ==
  ASSUME TypeOK, NEW r \in Runs, runs[r].phase # "idle", Advances(r),
         Done(steps'[runs[r].workflow][runs[r].step]), NEW s \in Runs
  PROVE  RunMoves(s)
BY AdvancesType DEF RunMoves

LEMMA RunSteps ==
  ASSUME TypeOK, FlowsPlaced, RunsPlaced, DoneIsEvident, [Next]_vars, NEW s \in Runs
  PROVE  RunMoves(s)
<1>1. ASSUME UNCHANGED runs PROVE RunMoves(s)
  BY <1>1 DEF RunMoves
<1>2. ASSUME NEW r \in Runs, runs' = [runs EXCEPT ![r] = IdleRun] PROVE RunMoves(s)
  BY <1>2 DEF RunMoves, IdleRun, TypeOK
<1>3. ASSUME NEW r \in Runs, NEW w \in Workflows, StartRun(r, w) PROVE RunMoves(s)
  <2>1. workflows'[w].state = "processing"
    BY <1>3 DEF StartRun, TypeOK, WorkflowRecord
  <2> QED BY <1>3, <2>1 DEF StartRun, RunMoves, TypeOK
<1>4. ASSUME NEW r \in Runs, LookAtStep(r) PROVE RunMoves(s)
  BY <1>4, RunGoes, RunAdvances DEF LookAtStep, AtStep
<1>5. ASSUME NEW r \in Runs, ClaimStep(r) PROVE RunMoves(s)
  BY <1>5, RunGoes DEF ClaimStep
<1>6. ASSUME NEW r \in Runs, runs[r].phase = "work", NEW n \in Steps, n # 2, n # 5, runs[r].step = n,
             Goes(r, "report")
      PROVE  RunMoves(s)
  <2>1. Evidence(runs[r].workflow, runs[r].step)'
    <3>1. runs'[r].step = n
      BY <1>6, GoesType
    <3> QED BY <1>6, <3>1 DEF Evidence
  <2> QED BY <1>6, <2>1, RunGoes
<1>7. ASSUME NEW r \in Runs, FreezeJobs(r) \/ ArchiveProjection(r) PROVE RunMoves(s)
  <2>1. runs[r].step \in Steps /\ (runs[r].step = 1 \/ runs[r].step = 3)
    BY <1>7, AtWork, StepNames DEF FreezeJobs, ArchiveProjection, Does
  <2> QED BY <1>6, <1>7, <2>1 DEF FreezeJobs, ArchiveProjection, Does
<1>8. ASSUME NEW r \in Runs, DeleteAttachments(r) PROVE RunMoves(s)
  <2>1. runs[r].step = 2
    BY <1>8, AtWork, StepNames DEF DeleteAttachments, Does
  <2>2. CASE items[Flow(r).item].objects = {} /\ Goes(r, "report") /\ UNCHANGED items
    <3>1. Evidence(runs[r].workflow, runs[r].step)'
      <4>1. runs'[r].step = 2 /\ runs'[r].workflow = runs[r].workflow
        BY <2>1, <2>2, GoesType
      <4> QED BY <1>8, <2>2, <4>1 DEF DeleteAttachments, Evidence, Flow
    <3> QED BY <1>8, <2>2, <3>1, RunGoes DEF DeleteAttachments, Does
  <2> QED BY <1>1, <1>8, <2>2 DEF DeleteAttachments
<1>9. ASSUME NEW r \in Runs, CheckReceipt(r) PROVE RunMoves(s)
  <2>1. runs[r].step \in Steps /\ runs[r].step = 4
    BY <1>9, AtWork, StepNames DEF CheckReceipt, Does
  <2>2. CASE Goes(r, "report")
    BY <1>6, <1>9, <2>1, <2>2 DEF CheckReceipt, Does
  <2>3. CASE Goes(r, "erase")
    BY <1>9, <2>1, <2>3, RunGoes DEF CheckReceipt, Does
  <2> QED BY <1>9, <2>2, <2>3 DEF CheckReceipt
<1>10. ASSUME NEW r \in Runs, PurgeItem(r) PROVE RunMoves(s)
  <2>1. runs[r].step = 4
    BY <1>10 DEF PurgeItem, RunsPlaced, RunPlaced
  <2>2. Evidence(runs[r].workflow, runs[r].step)'
    <3>1. runs'[r].step = 4
      BY <1>10, <2>1, GoesType DEF PurgeItem
    <3> QED BY <3>1 DEF Evidence
  <2> QED BY <1>10, <2>2, RunGoes DEF PurgeItem
<1>11. ASSUME NEW r \in Runs, FinalizeReceipt(r) PROVE RunMoves(s)
  <2>1. runs[r].step = 5 /\ Flow(r).item \in Items
    BY <1>11, AtWork, StepNames DEF FinalizeReceipt, Does
  <2>2. CASE /\ receipts[Flow(r).item] = runs[r].workflow
             /\ mirror' = [mirror EXCEPT ![Flow(r).item] = runs[r].workflow]
             /\ Goes(r, "report")
    <3>1. Evidence(runs[r].workflow, runs[r].step)'
      <4>1. runs'[r].step = 5 /\ runs'[r].workflow = runs[r].workflow
        BY <2>1, <2>2, GoesType
      <4>2. mirror'[Flow(r).item] = runs[r].workflow
        BY <2>1, <2>2 DEF TypeOK
      <4> QED BY <1>11, <2>2, <4>1, <4>2 DEF FinalizeReceipt, Evidence, Flow
    <3> QED BY <1>11, <2>2, <3>1, RunGoes DEF FinalizeReceipt, Does
  <2>3. CASE Goes(r, "failing")
    BY <1>11, <2>3, RunGoes DEF FinalizeReceipt, Does
  <2> QED BY <1>11, <2>2, <2>3 DEF FinalizeReceipt
<1>12. ASSUME NEW r \in Runs, CompleteStep(r) PROVE RunMoves(s)
  <2>1. CASE Advances(r) /\ \E outcome \in Outcomes(r) : SetStep(r, Step(outcome))
    <3>1. PICK outcome \in Outcomes(r) : SetStep(r, Step(outcome))
      BY <2>1
    <3>2. runs[r].workflow \in Workflows
      BY <1>12, AtWork DEF CompleteStep
    <3>3. Done(steps'[runs[r].workflow][runs[r].step])
      BY <3>1, <3>2, OutcomeRows, SetStepType
    <3> QED BY <1>12, <2>1, <3>3, RunAdvances DEF CompleteStep
  <2>2. CASE Goes(r, "partial")
    BY <1>12, <2>2, RunGoes DEF CompleteStep
  <2> QED BY <1>12, <2>1, <2>2 DEF CompleteStep
<1>13. ASSUME NEW r \in Runs,
              \/ FailStep(r) \/ MarkWorkflowPartial(r) \/ StepThrows(r) \/ CompleteStepThrows(r)
       PROVE  RunMoves(s)
  BY <1>13, RunGoes DEF FailStep, MarkWorkflowPartial, StepThrows, CompleteStepThrows
<1>14. ASSUME NEW r \in Runs, MarkWorkflowComplete(r) \/ RunDies(r) PROVE RunMoves(s)
  BY <1>2, <1>14 DEF MarkWorkflowComplete, RunDies
<1>15. ASSUME OwnerStep \/ LapseStep \/ UNCHANGED vars PROVE RunMoves(s)
  <2>1. CASE OwnerStep
    <3>1. UNCHANGED runs
      BY <2>1, ZenonT(40)
      DEF OwnerStep, SetDeleted, EditItem, RequestPurge, CreateConfirmation, ExpireConfirmation,
          CheckConfirmation, ConfirmPurge, ConfirmPurgeDies, CancelExpiredConfirmation
    <3> QED BY <1>1, <3>1
  <2>2. CASE LapseStep \/ UNCHANGED vars
    BY <1>1, <2>2 DEF LapseStep, Lapse, vars
  <2> QED BY <1>15, <2>1, <2>2
<1> QED
  BY <1>3, <1>4, <1>5, <1>7, <1>8, <1>9, <1>10, <1>11, <1>12, <1>13, <1>14, <1>15
  DEF Next, RunStep, Start, Proceed

-----------------------------------------------------------------------------
(* The invariant and what follows from it.                                 *)

LEMMA InitInv == Init => IInv
<1> SUFFICES ASSUME Init PROVE IInv
  OBVIOUS
<1>1. PICK w \in Survivors \cup {None}, i \in Items :
        LET Left(j) == w # None /\ j = i IN
        /\ items = [j \in Items |->
                      [exists |-> TRUE, deleted |-> FALSE, version |-> 0,
                       objects |-> IF Left(j) THEN {} ELSE Objects]]
        /\ workflows = [v \in Workflows |->
                          IF v = w THEN [AbsentWorkflow EXCEPT !.item = i, !.state = "complete"]
                          ELSE AbsentWorkflow]
        /\ steps = [v \in Workflows |->
                      [n \in Steps |-> Step(IF v = w THEN "complete" ELSE "pending")]]
        /\ runs = [r \in Runs |-> IdleRun]
        /\ receipts = [j \in Items |-> IF Left(j) THEN w ELSE None]
        /\ mirror = receipts
        /\ faults = 0
  BY DEF Init
<1> DEFINE left == [AbsentWorkflow EXCEPT !.item = i, !.state = "complete"]
<1>2. /\ left \in WorkflowRecord /\ left.state = "complete" /\ left.item = i
      /\ AbsentWorkflow \in WorkflowRecord /\ AbsentWorkflow.state = "absent"
  <2> DEFINE owned == [AbsentWorkflow EXCEPT !.item = i]
  <2>1. AbsentWorkflow \in WorkflowRecord /\ AbsentWorkflow.state = "absent"
    BY PurgeAssumption DEF AbsentWorkflow, WorkflowRecord
  <2>2. owned \in WorkflowRecord /\ owned.item = i
    BY <2>1 DEF WorkflowRecord
  <2>3. left = [owned EXCEPT !.state = "complete"]
    BY DEF AbsentWorkflow
  <2> HIDE DEF owned, left
  <2>4. left \in WorkflowRecord
    BY <2>2, <2>3, WorkflowRows
  <2>5. left.state = "complete" /\ left.item = i
    BY <2>2, <2>3 DEF WorkflowRecord
  <2> QED BY <2>1, <2>4, <2>5
<1> HIDE DEF left
<1>3. TypeOK
  <2>1. items \in [Items -> ItemRecord]
    BY <1>1, PurgeAssumption DEF ItemRecord
  <2>2. workflows \in [Workflows -> WorkflowRecord]
    BY <1>1, <1>2 DEF left
  <2>3. steps \in [Workflows -> [Steps -> StepRecord]]
    BY <1>1, StepRows
  <2>4. runs \in [Runs -> RunRecord]
    BY <1>1, FiveSteps DEF IdleRun, RunRecord
  <2>5. receipts \in [Items -> Workflows \cup {None}] /\ mirror \in [Items -> Workflows \cup {None}]
    BY <1>1, PurgeAssumption
  <2>6. faults \in 0 .. MaxFaults
    BY <1>1, PurgeAssumption
  <2> QED BY <2>1, <2>2, <2>3, <2>4, <2>5, <2>6 DEF TypeOK
<1>4. \A v \in Workflows :
        IF v = w THEN /\ workflows[v].state = "complete" /\ workflows[v].item = i
                      /\ items[i].objects = {} /\ receipts[i] = v /\ mirror[i] = v
                      /\ \A n \in Steps : steps[v][n].state = "complete"
                 ELSE /\ workflows[v].state = "absent"
                      /\ \A n \in Steps : steps[v][n].state = "pending"
  BY <1>1, <1>2, PurgeAssumption DEF Step, left
<1>5. StepsInOrder
  BY <1>4, FiveSteps DEF StepsInOrder, Done
<1>6. GoneIsAccountedFor
  BY <1>1 DEF GoneIsAccountedFor
<1>7. FlowsPlaced
  BY <1>4 DEF FlowsPlaced, Begun, Done
<1>8. DoneIsEvident
  BY <1>4 DEF DoneIsEvident, Evidence, Done
<1>9. RunsPlaced
  BY <1>1 DEF RunsPlaced, IdleRun
<1> QED BY <1>3, <1>5, <1>6, <1>7, <1>8, <1>9 DEF IInv

LEMMA NextInv == IInv /\ [Next]_vars => IInv'
<1> SUFFICES ASSUME IInv, [Next]_vars PROVE IInv'
  OBVIOUS
<1>0. TypeOK /\ StepsInOrder /\ GoneIsAccountedFor /\ FlowsPlaced /\ DoneIsEvident /\ RunsPlaced
  BY DEF IInv
<1>1. TypeOK'
  BY <1>0, TypeStep
<1>2. \A i \in Items : ItemMoves(i)
  BY <1>0, ItemSteps
<1>3. \A w \in Workflows : FlowMoves(w)
  BY <1>0, FlowSteps
<1>4. \A w \in Workflows, n \in Steps : StepMoves(w, n)
  BY <1>0, StepSteps
<1>5. \A r \in Runs : RunMoves(r)
  BY <1>0, RunSteps
<1>6. \A w \in Workflows, n \in Steps :
        Begun(w) /\ Evidence(w, n) =>
          Evidence(w, n)' /\ Begun(w)' /\ workflows'[w].item = workflows[w].item
  BY <1>0, <1>2, <1>3, EvidenceKept
<1>7. \A w \in Workflows, n \in Steps : Done(steps[w][n]) => Done(steps'[w][n])
  BY <1>4 DEF StepMoves
<1>8. \A w \in Workflows : Begun(w) => Begun(w)' /\ workflows'[w].item = workflows[w].item
  BY <1>3 DEF FlowMoves, Begun
<1>9. StepsInOrder'
  <2> SUFFICES ASSUME NEW w \in Workflows, NEW n \in Steps, steps'[w][n].state # "pending",
                      NEW m \in 1 .. n - 1
               PROVE  Done(steps'[w][m])
    BY DEF StepsInOrder
  <2>1. Done(steps[w][m])
    BY <1>0, <1>4 DEF StepMoves, StepsInOrder
  <2>2. m \in Steps
    BY FiveSteps
  <2> QED BY <1>7, <2>1, <2>2
<1>10. GoneIsAccountedFor'
  BY <1>0, <1>2 DEF GoneIsAccountedFor, ItemMoves
<1>11. FlowsPlaced'
  <2> SUFFICES ASSUME NEW w \in Workflows
               PROVE  /\ workflows'[w].state # "absent" => workflows'[w].item \in Items
                      /\ ~Begun(w)' => \A n \in Steps : steps'[w][n].state = "pending"
                      /\ workflows'[w].state = "complete" => \A n \in Steps : Done(steps'[w][n])
    BY DEF FlowsPlaced
  <2>1. workflows'[w].state # "absent" => workflows'[w].item \in Items
    BY <1>0, <1>3 DEF FlowMoves, FlowsPlaced, Runnable
  <2>2. ~Begun(w)' => \A n \in Steps : steps'[w][n].state = "pending"
    BY <1>0, <1>4, <1>8 DEF StepMoves, FlowsPlaced
  <2>3. workflows'[w].state = "complete" => \A n \in Steps : Done(steps[w][n])
    BY <1>0, <1>3 DEF FlowMoves, FlowsPlaced
  <2> QED BY <1>7, <2>1, <2>2, <2>3
<1>12. DoneIsEvident'
  <2> SUFFICES ASSUME NEW w \in Workflows, NEW n \in Steps, Done(steps'[w][n])
               PROVE  Evidence(w, n)'
    BY DEF DoneIsEvident
  <2>1. Begun(w) /\ Evidence(w, n)
    <3>1. Done(steps[w][n]) => Begun(w)
      BY <1>0 DEF FlowsPlaced, Done
    <3> QED BY <1>0, <1>4, <3>1 DEF StepMoves, DoneIsEvident
  <2> QED BY <1>6, <2>1
<1>13. RunsPlaced'
  <2> SUFFICES ASSUME NEW r \in Runs, runs'[r].phase # "idle"
               PROVE  RunPlaced(r)'
    BY DEF RunsPlaced
  <2>0. runs[r].phase # "idle" => RunPlaced(r)
    BY <1>0 DEF RunsPlaced
  <2>1. runs[r].step \in Steps /\ \A m \in 1 .. runs[r].step - 1 : m \in Steps
    BY <1>0, FiveSteps DEF TypeOK, RunRecord
  <2>2. CASE runs'[r] = runs[r]
    BY <1>6, <1>7, <1>8, <2>0, <2>1, <2>2 DEF RunPlaced
  <2>3. CASE /\ runs'[r].phase = "look" /\ runs'[r].step = 1
             /\ runs'[r].workflow \in Workflows
             /\ workflows'[runs'[r].workflow].state = "processing"
    BY <2>3 DEF RunPlaced, Begun
  <2>4. CASE /\ runs[r].phase # "idle"
             /\ runs'[r].workflow = runs[r].workflow /\ runs'[r].step = runs[r].step
             /\ runs'[r].phase = "erase" => runs[r].step = 4
             /\ runs'[r].phase = "report" => Evidence(runs[r].workflow, runs[r].step)'
    BY <1>7, <1>8, <2>0, <2>1, <2>4 DEF RunPlaced
  <2>5. CASE /\ runs[r].phase # "idle" /\ runs'[r].phase = "look"
             /\ runs'[r].workflow = runs[r].workflow /\ runs'[r].step = runs[r].step + 1
             /\ Done(steps'[runs[r].workflow][runs[r].step])
    <3>1. \A m \in 1 .. runs'[r].step - 1 : m = runs[r].step \/ m \in 1 .. runs[r].step - 1
      BY <2>1, <2>5, FiveSteps
    <3> QED BY <1>7, <1>8, <2>0, <2>1, <2>5, <3>1 DEF RunPlaced
  <2> QED BY <1>5, <2>2, <2>3, <2>4, <2>5 DEF RunMoves
<1> QED BY <1>1, <1>9, <1>10, <1>11, <1>12, <1>13 DEF IInv

\* The inductive invariant holds in every reachable state, for any number of
\* items, workflows, runs, objects and faults.
THEOREM Invariance == Spec => []IInv
BY InitInv, NextInv, PTL DEF Spec

\* Workflows, steps, runs, receipts and the mirror are well typed throughout
\* (purge.repository.ts).
THEOREM TypeCorrect == Spec => []TypeOK
<1>1. IInv => TypeOK
  BY DEF IInv
<1> QED BY <1>1, Invariance, PTL

\* runWorkflow touches no step before the ones before it are done.
THEOREM OrderedSteps == Spec => []StepsInOrder
<1>1. IInv => StepsInOrder
  BY DEF IInv
<1> QED BY <1>1, Invariance, PTL

\* No crash separates the canonical deletion from its receipt or leaves
\* objects behind (purgeItem's batch, the order of the steps).
THEOREM GoneAccountedFor == Spec => []GoneIsAccountedFor
<1>1. IInv => GoneIsAccountedFor
  BY DEF IInv
<1> QED BY <1>1, Invariance, PTL

\* A completed workflow has its receipt in D1 and in R2 (finalize_receipt).
THEOREM CompletionIsMirrored == Spec => []CompleteIsMirrored
<1>1. IInv => CompleteIsMirrored
  <2> SUFFICES ASSUME IInv, NEW w \in Workflows, workflows[w].state = "complete"
               PROVE  receipts[workflows[w].item] = w /\ mirror[workflows[w].item] = w
    BY DEF CompleteIsMirrored
  <2>1. 5 \in Steps
    BY FiveSteps
  <2>2. Evidence(w, 5)
    BY <2>1 DEF IInv, FlowsPlaced, DoneIsEvident
  <2> QED BY <2>2 DEF Evidence
<1> QED BY <1>1, Invariance, PTL

\* A late report of a run whose lease was taken over undoes no step
\* (completeStep and failStep).
THEOREM DoneStays == Spec => DoneIsFinal
<1>1. IInv /\ [Next]_vars =>
        [\A w \in Workflows, n \in Steps : Done(steps[w][n]) => steps'[w][n] = steps[w][n]]_vars
  <2> SUFFICES ASSUME IInv, [Next]_vars, NEW w \in Workflows, NEW n \in Steps, Done(steps[w][n])
               PROVE  steps'[w][n] = steps[w][n]
    OBVIOUS
  <2>1. StepMoves(w, n)
    BY StepSteps DEF IInv
  <2> QED BY <2>1 DEF StepMoves
<1> QED BY <1>1, Invariance, PTL DEF Spec, DoneIsFinal
================================================================================
