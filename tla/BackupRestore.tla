---------------------------- MODULE BackupRestore ----------------------------
(***************************************************************************)
(* Hosted backups and their restore into a clean database: BackupService,  *)
(* the retention cleanup, the portable export, the RestoreService, the     *)
(* purge of an item as far as backups can undo it, and the purge receipts  *)
(* in D1 and in R2.                                                        *)
(*                                                                         *)
(* An export reads one table per SELECT, all in flight at once, so it is   *)
(* no snapshot. A backup, a restore and a purge are calls that may throw   *)
(* or die at any step. The database may be lost, or replaced by an empty   *)
(* one to restore into; the bucket with the files, the backups and the     *)
(* mirrored receipts survives, and so do the backups the owner downloaded. *)
(*                                                                         *)
(* Every item is a file capture: its row, a capture event that references  *)
(* an attachment, the attachment row, and the bytes in the bucket.         *)
(***************************************************************************)
EXTENDS Naturals, FiniteSets

CONSTANTS
  Items,      \* item ids
  Purged,     \* bound: those a purge is ever confirmed of
  MaxBackups, \* bound of the backups that are ever begun
  Restores,   \* restore calls in flight
  MaxLosses   \* bound of the databases that are lost or replaced

ASSUME BackupAssumption ==
  /\ IsFiniteSet(Items)
  /\ Purged \subseteq Items
  /\ MaxBackups \in Nat
  /\ MaxLosses \in Nat

Backups == 1 .. MaxBackups  \* in the order of their creation, and of expiry

Tables == {"items", "capture_events", "attachments", "purge_receipts"}

\* What an export tells of each item: the tables it was found in, and whether
\* the attachment's row says deleted.
Parts == Tables \cup {"deleted"}

VARIABLES
  rows,      \* what D1 holds of each item
  born,      \* ids that were given to a capture
  bytes,     \* items whose original is in the bucket
  deleted,   \* items whose attachment row says deleted
  receipts,  \* purge_receipts
  ledger,    \* receipts mirrored in the bucket
  purges,    \* how far the purge of each item has come
  backups,   \* backup_artifacts and the calls that make them
  stored,    \* backups whose object is in the bucket
  kept,      \* backups the owner downloaded
  horizon,   \* backups past their expires_at
  cleaning,  \* the backup the retention cleanup deletes
  restores,  \* restore calls and their restore_runs
  losses,
  erased,    \* history: items a purge deleted
  excused    \* history: what one of the premises below is about

vars == <<rows, born, bytes, deleted, receipts, ledger, purges, backups, stored, kept,
          horizon, cleaning, restores, losses, erased, excused>>
canonical == <<rows, born, bytes, deleted, receipts, ledger, purges>>
artifacts == <<backups, stored, kept, horizon, cleaning>>

-----------------------------------------------------------------------------
(* Records *)

\* An item is restored in three passes: its row, then its children with the
\* event's reference left out, then that reference.
RowState == {"none", "shell", "children", "whole"}

\* What an export finds of part t: an event counts when it references its
\* attachment.
RowsOf(t) ==
  CASE t = "items" -> {i \in Items : rows[i] /= "none"}
    [] t = "attachments" -> {i \in Items : rows[i] \in {"children", "whole"}}
    [] t = "capture_events" -> {i \in Items : rows[i] = "whole"}
    [] t = "purge_receipts" -> receipts
    [] t = "deleted" -> deleted

EmptyEnvelope == [t \in Parts |-> {}]

NoBackup ==
  [state |-> "unused", at |-> "idle", left |-> {}, envelope |-> EmptyEnvelope]

BackupRecord ==
  [state : {"unused", "creating", "verifying", "complete", "failed", "expired", "lost"},
   at : {"idle", "read", "put", "mark", "verify", "fail", "delete"},
   left : SUBSET Tables, envelope : [Parts -> SUBSET Items]]

\* left is what the pass at "at" has still to insert, receipts and items the
\* plan of the call, or at "ledger" what D1's receipts alone make of it.
NoRestore ==
  [at |-> "idle", dry |-> FALSE, backup |-> 0, items |-> {}, skipped |-> {},
   receipts |-> {}, left |-> {}]

RestoreRecord ==
  [at : {"idle", "plan", "ledger", "target", "receipts", "shells", "children", "references",
         "verify", "verified"},
   dry : BOOLEAN, backup : 0 .. MaxBackups, items : SUBSET Items,
   skipped : SUBSET Items, receipts : SUBSET Items, left : SUBSET Items]

Init ==
  /\ rows = [i \in Items |-> "none"]
  /\ born = {}
  /\ bytes = {}
  /\ deleted = {}
  /\ receipts = {}
  /\ ledger = {}
  /\ purges = [i \in Items |-> "none"]
  /\ backups = [b \in Backups |-> NoBackup]
  /\ stored = {}
  /\ kept = {}
  /\ horizon = 0
  /\ cleaning = 0
  /\ restores = [r \in Restores |-> NoRestore]
  /\ losses = 0
  /\ erased = {}
  /\ excused = [items |-> {}, backups |-> {}]

-----------------------------------------------------------------------------
(* Captures and purges *)

Capture(i) ==
  /\ i \notin born
  /\ born' = born \cup {i}
  /\ rows' = [rows EXCEPT ![i] = "whole"]
  /\ bytes' = bytes \cup {i}
  /\ UNCHANGED <<deleted, receipts, ledger, purges, artifacts, restores, losses, erased, excused>>

PurgeGoesTo(i, step) == purges' = [purges EXCEPT ![i] = step]

\* deleteItemAttachments, in a confirmed purge of a soft-deleted item.
DeleteBytes(i) ==
  /\ i \in Purged
  /\ rows[i] = "whole"
  /\ purges[i] = "none"
  /\ bytes' = bytes \ {i}
  /\ PurgeGoesTo(i, "bytes_deleted")
  /\ UNCHANGED <<rows, born, deleted, receipts, ledger, artifacts, restores, losses, erased, excused>>

MarkDeleted(i) ==
  /\ purges[i] = "bytes_deleted"
  /\ deleted' = deleted \cup {i}
  /\ PurgeGoesTo(i, "marked")
  /\ UNCHANGED <<rows, born, bytes, receipts, ledger, artifacts, restores, losses, erased, excused>>

\* purgeItem. Premise: a restore that read D1's receipts before there was one
\* of the item may still insert it.
PurgeItem(i) ==
  /\ purges[i] = "marked"
  /\ rows' = [rows EXCEPT ![i] = "none"]
  /\ deleted' = deleted \ {i}
  /\ receipts' = receipts \cup {i}
  /\ erased' = erased \cup {i}
  /\ excused' = [excused EXCEPT !.items =
       IF \E r \in Restores : i \in restores[r].items
       THEN @ \cup {i} ELSE @]
  /\ PurgeGoesTo(i, "erased")
  /\ UNCHANGED <<born, bytes, ledger, artifacts, restores, losses>>

\* mirrorPurgeReceipt, and the step that records it.
MirrorPurgeReceipt(i) ==
  /\ purges[i] = "erased"
  /\ i \in receipts
  /\ ledger' = ledger \cup {i}
  /\ PurgeGoesTo(i, "none")
  /\ UNCHANGED <<rows, born, bytes, deleted, receipts, artifacts, restores, losses, erased, excused>>

-----------------------------------------------------------------------------
(* BackupService.createHostedBackup *)

CreateHostedBackup(b) ==
  /\ backups[b].state = "unused"
  /\ \A c \in 1 .. b - 1 : backups[c].state /= "unused"
  /\ backups' = [backups EXCEPT ![b] =
       [NoBackup EXCEPT !.state = "creating", !.at = "read", !.left = Tables]]
  /\ UNCHANGED <<canonical, stored, kept, horizon, cleaning, restores, losses, erased, excused>>

\* The answer to one SELECT: the attachments come with their status.
Answer(t) == IF t = "attachments" THEN {"attachments", "deleted"} ELSE {t}

\* The last answer completes the export.
WithTable(backup, t) ==
  [backup EXCEPT
     !.envelope = [u \in Parts |-> IF u \in Answer(t) THEN RowsOf(u) ELSE backup.envelope[u]],
     !.left = backup.left \ {t},
     !.at = IF backup.left = {t} THEN "put" ELSE "read"]

\* buildJson: the SELECTs are sent together and answered in any order.
ReadTable(b, t) ==
  /\ backups[b].at = "read"
  /\ t \in backups[b].left
  /\ backups' = [backups EXCEPT ![b] = WithTable(backups[b], t)]
  /\ UNCHANGED <<canonical, stored, kept, horizon, cleaning, restores, losses, erased, excused>>

PutBackup(b) ==
  /\ backups[b].at = "put"
  /\ stored' = stored \cup {b}
  /\ backups' = [backups EXCEPT ![b].at = "mark"]
  /\ UNCHANGED <<canonical, kept, horizon, cleaning, restores, losses, erased, excused>>

MarkVerifying(b) ==
  /\ backups[b].at = "mark"
  /\ backups' = [backups EXCEPT ![b] =
       IF backups[b].state = "creating" THEN [@ EXCEPT !.state = "verifying", !.at = "verify"]
       ELSE [@ EXCEPT !.at = "fail"]]
  /\ UNCHANGED <<canonical, stored, kept, horizon, cleaning, restores, losses, erased, excused>>

\* The readback and markComplete. The call may still throw once the row is
\* complete.
MarkComplete(b) ==
  /\ backups[b].at = "verify"
  /\ b \in stored
  /\ backups[b].state = "verifying"
  /\ \E at \in {"idle", "fail"} :
       backups' = [backups EXCEPT ![b] = [@ EXCEPT !.state = "complete", !.at = at]]
  /\ UNCHANGED <<canonical, stored, kept, horizon, cleaning, restores, losses, erased, excused>>

BackupThrows(b) ==
  /\ backups[b].at \in {"read", "put", "mark", "verify"}
  /\ backups' = [backups EXCEPT ![b].at = "fail"]
  /\ UNCHANGED <<canonical, stored, kept, horizon, cleaning, restores, losses, erased, excused>>

\* What markFailed makes of a row: only one that is under way fails.
Failed(backup) ==
  [backup EXCEPT !.state = IF backup.state \in {"creating", "verifying"} THEN "failed"
                           ELSE backup.state,
                 !.at = "delete"]

MarkFailed(b) ==
  /\ backups[b].at = "fail"
  /\ backups' = [backups EXCEPT ![b] = Failed(backups[b])]
  /\ UNCHANGED <<canonical, stored, kept, horizon, cleaning, restores, losses, erased, excused>>

\* Premise: nothing looks for the object of a failed backup once the call that
\* was to delete it is over.
Forgotten(b) ==
  IF backups[b].at = "delete" /\ backups[b].state = "failed"
  THEN [excused EXCEPT !.backups = @ \cup {b}] ELSE excused

\* The object goes, that of a complete backup too, or its delete fails and is
\* forgotten.
DeleteFailed(b) ==
  /\ backups[b].at = "delete"
  /\ \/ stored' = stored \ {b} /\ UNCHANGED excused
     \/ UNCHANGED stored /\ excused' = Forgotten(b)
  /\ backups' = [backups EXCEPT ![b].at = "idle"]
  /\ UNCHANGED <<canonical, kept, horizon, cleaning, restores, losses, erased>>

\* The Worker is evicted.
BackupDies(b) ==
  /\ backups[b].at /= "idle"
  /\ backups' = [backups EXCEPT ![b].at = "idle"]
  /\ excused' = Forgotten(b)
  /\ UNCHANGED <<canonical, stored, kept, horizon, cleaning, restores, losses, erased>>

\* readHostedBackup: the owner downloads a verified artifact.
ReadHostedBackup(b) ==
  /\ backups[b].state = "complete"
  /\ b > horizon
  /\ b \in stored
  /\ b \notin kept
  /\ kept' = kept \cup {b}
  /\ UNCHANGED <<canonical, backups, stored, horizon, cleaning, restores, losses, erased, excused>>

-----------------------------------------------------------------------------
(* Retention *)

Lapse ==
  /\ horizon < MaxBackups
  /\ backups[horizon + 1].state /= "unused"
  /\ horizon' = horizon + 1
  /\ UNCHANGED <<canonical, backups, stored, kept, cleaning, restores, losses, erased, excused>>

\* Faulty variant: the row is marked expired before its object is deleted.
FindExpiredMarking(b) ==
  /\ cleaning = 0
  /\ backups[b].state = "complete"
  /\ b <= horizon
  /\ cleaning' = b
  /\ backups' = [backups EXCEPT ![b].state = "expired"]
  /\ UNCHANGED <<canonical, stored, kept, horizon, restores, losses, erased, excused>>

\* cleanupExpiredHostedBackups, for one of the rows it listed.
FindExpired(b) ==
  /\ cleaning = 0
  /\ backups[b].state = "complete"
  /\ b <= horizon
  /\ cleaning' = b
  /\ UNCHANGED <<canonical, backups, stored, kept, horizon, restores, losses, erased, excused>>

DeleteExpired ==
  /\ cleaning \in stored
  /\ stored' = stored \ {cleaning}
  /\ UNCHANGED <<canonical, backups, kept, horizon, cleaning, restores, losses, erased, excused>>

MarkExpired ==
  /\ cleaning /= 0
  /\ cleaning \notin stored
  /\ backups' = [backups EXCEPT ![cleaning].state = IF @ = "complete" THEN "expired" ELSE @]
  /\ cleaning' = 0
  /\ UNCHANGED <<canonical, stored, kept, horizon, restores, losses, erased, excused>>

CleanupThrows ==
  /\ cleaning /= 0
  /\ cleaning' = 0
  /\ UNCHANGED <<canonical, backups, stored, kept, horizon, restores, losses, erased, excused>>

-----------------------------------------------------------------------------
(* RestoreService.restore *)

\* A call that returned, threw or died leaves nothing behind that is read
\* again: restore_runs is a record.
Ended(r) == [restores EXCEPT ![r] = NoRestore]

GoesTo(r, step) == restores' = [restores EXCEPT ![r].at = step]

BeginRestore(r, b, dry) ==
  /\ restores[r] = NoRestore
  /\ b \in kept
  /\ restores' = [restores EXCEPT ![r] =
       [NoRestore EXCEPT !.at = "plan", !.dry = dry, !.backup = b]]
  /\ UNCHANGED <<canonical, artifacts, losses, erased, excused>>

\* validateRestorePlan: an event of the plan may not reference an attachment
\* the export did not find.
ReferencesHold(envelope, items) ==
  items \cap envelope["capture_events"] \subseteq envelope["attachments"]

PortableReceipts(r) == backups[restores[r].backup].envelope["purge_receipts"]

\* listReceipts and the ledger are read side by side. The other order adds
\* nothing: a receipt mirrored since the ledger was read is still in D1.
ReadReceipts(r) ==
  LET envelope == backups[restores[r].backup].envelope
      known == PortableReceipts(r) \cup receipts
  IN /\ restores[r].at = "plan"
     /\ restores' = [restores EXCEPT ![r] =
          [@ EXCEPT !.at = "ledger", !.receipts = known, !.items = envelope["items"] \ known]]
     /\ UNCHANGED <<canonical, artifacts, losses, erased, excused>>

\* buildRestorePlan, from what the ledger adds.
Planned(r, mirrored) ==
  LET envelope == backups[restores[r].backup].envelope
      all == restores[r].receipts \cup mirrored
      items == restores[r].items \ mirrored
  IN /\ restores[r].at = "ledger"
     /\ restores' = [restores EXCEPT ![r] =
          IF ReferencesHold(envelope, items)
          THEN [@ EXCEPT !.at = "target", !.items = items, !.receipts = all,
                         !.skipped = envelope["items"] \cap all]
          ELSE NoRestore]
     /\ UNCHANGED <<canonical, artifacts, losses, erased, excused>>

\* Faulty variant: the mirrored receipts are left out of the plan.
PlanWithoutLedger(r) == Planned(r, {})

\* mergePurgeReceipts: the backup's, D1's, and the mirrored ones.
Plan(r) == Planned(r, ledger)

Originals(r) == restores[r].items \cap backups[restores[r].backup].envelope["attachments"]

\* An attachment that was deleted promises no original.
Promised(r) == Originals(r) \ backups[restores[r].backup].envelope["deleted"]

\* inspectRestoreAttachments and targetIsClean. A dry run ends here.
CheckTarget(r) ==
  /\ restores[r].at = "target"
  /\ \/ restores[r].dry /\ restores' = Ended(r)
     \/ /\ ~restores[r].dry
        /\ IF Promised(r) \subseteq bytes /\ RowsOf("items") = {}
           THEN GoesTo(r, "receipts") ELSE restores' = Ended(r)
  /\ UNCHANGED <<canonical, artifacts, losses, erased, excused>>

\* The pass that starts once the one before has nothing left to insert.
Pass(r, step, left) ==
  [restores[r] EXCEPT
     !.at = IF left /= {} THEN step
            ELSE CASE step = "shells" -> IF restores[r].items = {} THEN "verify" ELSE "children"
                   [] step = "children" -> "references"
                   [] OTHER -> "verify",
     !.left = IF left /= {} \/ step = "references" THEN left ELSE restores[r].items]

RestoreReceipts(r) ==
  /\ restores[r].at = "receipts"
  /\ receipts' = receipts \cup restores[r].receipts
  /\ restores' = [restores EXCEPT ![r] = Pass(r, "shells", restores[r].items)]
  /\ UNCHANGED <<rows, born, bytes, deleted, ledger, purges, artifacts, losses, erased, excused>>

\* An INSERT of the pass; a row that exists, or lost its item, refuses it.
Inserts(r, i, step, from, to) ==
  /\ restores[r].at = step
  /\ i \in restores[r].left
  /\ IF rows[i] = from
     THEN /\ rows' = [rows EXCEPT ![i] = to]
          /\ restores' = [restores EXCEPT ![r] = Pass(r, step, restores[r].left \ {i})]
     ELSE /\ restores' = Ended(r)
          /\ UNCHANGED rows
  /\ UNCHANGED <<born, bytes, receipts, ledger, purges, artifacts, losses, erased, excused>>

RestoreItemShell(r, i) == Inserts(r, i, "shells", "none", "shell") /\ UNCHANGED deleted

\* An attachment comes back with the status it was exported with.
RestoreItemChildren(r, i) ==
  /\ Inserts(r, i, "children", "shell", IF i \in Originals(r) THEN "children" ELSE "shell")
  /\ deleted' = IF rows[i] = "shell" /\ i \in Originals(r) \ Promised(r)
                THEN deleted \cup {i} ELSE deleted

\* An UPDATE: it may match no row.
RestoreDeferredReferences(r, i) ==
  /\ restores[r].at = "references"
  /\ i \in restores[r].left
  /\ rows' = [rows EXCEPT ![i] =
       IF @ = "children" /\ i \in backups[restores[r].backup].envelope["capture_events"]
       THEN "whole" ELSE @]
  /\ restores' = [restores EXCEPT ![r] = Pass(r, "references", restores[r].left \ {i})]
  /\ UNCHANGED <<born, bytes, deleted, receipts, ledger, purges, artifacts, losses, erased, excused>>

\* Faulty variant: the items are not counted.
VerifyUncounted(r) ==
  /\ restores[r].at = "verify"
  /\ IF RowsOf("items") \cap restores[r].skipped = {}
     THEN GoesTo(r, "verified") ELSE restores' = Ended(r)
  /\ UNCHANGED <<canonical, artifacts, losses, erased, excused>>

\* verifyRestoredState
VerifyRestoredState(r) ==
  /\ restores[r].at = "verify"
  /\ IF /\ Cardinality(RowsOf("items")) = Cardinality(restores[r].items)
        /\ RowsOf("items") \cap restores[r].skipped = {}
     THEN GoesTo(r, "verified") ELSE restores' = Ended(r)
  /\ UNCHANGED <<canonical, artifacts, losses, erased, excused>>

CompleteRestore(r) ==
  /\ restores[r].at = "verified"
  /\ restores' = Ended(r)
  /\ UNCHANGED <<canonical, artifacts, losses, erased, excused>>

\* A call throws or dies. Nothing that was inserted is taken back.
RestoreStops(r) ==
  /\ restores[r] /= NoRestore
  /\ restores' = Ended(r)
  /\ UNCHANGED <<canonical, artifacts, losses, erased, excused>>

-----------------------------------------------------------------------------

\* The database is lost, or an empty one takes its place: every row and every
\* call on it is gone. Premises: a receipt that was not mirrored yet goes with
\* it, and the rows that knew of the backups' objects do.
LoseDatabase ==
  /\ losses < MaxLosses
  /\ losses' = losses + 1
  /\ rows' = [i \in Items |-> "none"]
  /\ deleted' = {}
  /\ receipts' = {}
  /\ purges' = [i \in Items |-> "none"]
  /\ backups' = [b \in Backups |->
       IF backups[b].state = "unused" THEN NoBackup
       ELSE [backups[b] EXCEPT !.state = "lost", !.at = "idle"]]
  /\ cleaning' = 0
  /\ restores' = [r \in Restores |-> NoRestore]
  /\ excused' = [items |-> excused.items \cup (erased \ ledger),
                 backups |-> excused.backups \cup stored]
  /\ UNCHANGED <<born, bytes, ledger, stored, kept, horizon, erased>>

PurgeStep(i) ==
  \/ DeleteBytes(i)
  \/ MarkDeleted(i)
  \/ PurgeItem(i)
  \/ MirrorPurgeReceipt(i)

BackupStep(b) ==
  \/ CreateHostedBackup(b)
  \/ \E t \in Tables : ReadTable(b, t)
  \/ PutBackup(b)
  \/ MarkVerifying(b)
  \/ MarkComplete(b)
  \/ BackupThrows(b)
  \/ MarkFailed(b)
  \/ DeleteFailed(b)
  \/ BackupDies(b)
  \/ ReadHostedBackup(b)
  \/ FindExpired(b)

CleanupStep ==
  \/ DeleteExpired
  \/ MarkExpired
  \/ CleanupThrows

RestoreStep(r) ==
  \/ \E b \in Backups, dry \in BOOLEAN : BeginRestore(r, b, dry)
  \/ ReadReceipts(r)
  \/ Plan(r)
  \/ CheckTarget(r)
  \/ RestoreReceipts(r)
  \/ \E i \in Items :
       \/ RestoreItemShell(r, i)
       \/ RestoreItemChildren(r, i)
       \/ RestoreDeferredReferences(r, i)
  \/ VerifyRestoredState(r)
  \/ CompleteRestore(r)
  \/ RestoreStops(r)

Next ==
  \/ \E i \in Items : Capture(i) \/ PurgeStep(i)
  \/ \E b \in Backups : BackupStep(b)
  \/ \E r \in Restores : RestoreStep(r)
  \/ CleanupStep
  \/ Lapse
  \/ LoseDatabase

Spec == Init /\ [][Next]_vars

-----------------------------------------------------------------------------
(* Properties *)

\* Type correctness.
TypeOK ==
  /\ rows \in [Items -> RowState]
  /\ purges \in [Items -> {"none", "bytes_deleted", "marked", "erased"}]
  /\ born \subseteq Items /\ bytes \subseteq born /\ deleted \subseteq born
  /\ erased \subseteq born /\ receipts \subseteq born /\ ledger \subseteq born
  /\ backups \in [Backups -> BackupRecord]
  /\ stored \subseteq Backups /\ kept \subseteq Backups
  /\ horizon \in 0 .. MaxBackups /\ cleaning \in 0 .. MaxBackups
  /\ restores \in [Restores -> RestoreRecord]
  /\ losses \in 0 .. MaxLosses
  /\ excused.items \subseteq Items /\ excused.backups \subseteq Backups

\* All is well typed, and a purged item does not come back, whichever backup is restored, into
\* whichever database, and whenever the export read its tables around the
\* purge. Premises: the database was lost before the receipt was mirrored
\* (purge.worker.ts:100), or a restore had read the receipts before there was
\* one (restore.service.ts:105-131).
NoResurrection ==
  /\ TypeOK
  /\ \A i \in erased : rows[i] = "none" \/ i \in excused.items

\* A restore that verified its work left exactly its plan in the database,
\* each item with everything its export found, though captures, another
\* restore, or the remains of one that died, were in its way
\* (restore.service.ts:122-175). Premise: none of it was purged meanwhile.
RestoreIsExact ==
  [][\A r \in Restores :
       LET plan == restores[r].items
           envelope == backups[restores[r].backup].envelope
       IN restores[r].at = "verify" /\ restores'[r].at = "verified" /\ plan \cap excused.items = {} =>
            /\ RowsOf("items") = plan
            /\ plan \cap envelope["capture_events"] \subseteq RowsOf("capture_events")]_vars

\* A copy that outlived its retention is not forgotten: the cleanup will list
\* it, or its backup never ended and an integrity run reports it as
\* backup_workflow_incomplete (integrity.service.ts:250-265), wherever the
\* call that wrote it, or the cleanup, died. Premises: the delete after a
\* failed backup failed too (backup.service.ts:80-86), or the rows were lost.
ForgottenByNobody ==
  \A b \in stored :
    b <= horizon /\ backups[b].at = "idle" =>
      backups[b].state \in {"complete", "creating", "verifying"} \/ b \in excused.backups

================================================================================
