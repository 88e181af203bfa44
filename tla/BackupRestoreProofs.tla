-------------------------- MODULE BackupRestoreProofs --------------------------
(***************************************************************************)
(* Theorems about BackupRestore.  A purge is remembered wherever a restore *)
(* looks when it plans, and a restore works off its plan pass by pass, so  *)
(* that neither order of a purge and a restore brings an item back unseen. *)
(***************************************************************************)
EXTENDS BackupRestore, FiniteSetTheorems, TLAPS

\* The premises are kept as a record.
ExcusedTyped == excused \in [items : SUBSET Items, backups : SUBSET Backups]

\* The row of a backup follows the call that makes it; an object that is there
\* has a row that is looked for, or is excused.
BackupPlaced(b) ==
  LET state == backups[b].state
      at == backups[b].at
  IN /\ at \in {"read", "put", "mark"} => state = "creating"
     /\ at = "verify" => state = "verifying"
     /\ at = "fail" => state \in {"creating", "verifying", "complete", "expired"}
     /\ at = "delete" => state \in {"failed", "complete", "expired"}
     /\ b \in kept => at \in {"idle", "fail", "delete"} /\ state # "unused"
     /\ b \in stored =>
          /\ state \notin {"unused", "expired"}
          /\ state = "lost" \/ (state = "failed" /\ at = "idle") => b \in excused.backups

BackupsPlaced == \A b \in Backups : BackupPlaced(b)

\* Nothing but captured items is known anywhere.
OnlyBorn ==
  /\ \A i \in Items : rows[i] # "none" \/ purges[i] # "none" => i \in born
  /\ \A b \in Backups, t \in Parts : backups[b].envelope[t] \subseteq born
  /\ \A r \in Restores : restores[r].items \cup restores[r].receipts \subseteq born

\* A purge leaves a receipt, in the database or in the bucket.
ErasedIsKnown == erased \subseteq receipts \cup ledger \cup excused.items

\* The passes of a restore that item i has been through.
Shelled(r, i) ==
  \/ restores[r].at \in {"children", "references", "verify"}
  \/ restores[r].at = "shells" /\ i \notin restores[r].left

Filled(r, i) ==
  \/ restores[r].at \in {"references", "verify"}
  \/ restores[r].at = "children" /\ i \notin restores[r].left

Linked(r, i) ==
  \/ restores[r].at = "verify"
  \/ restores[r].at = "references" /\ i \notin restores[r].left

Envelope(r) == backups[restores[r].backup].envelope

\* What the passes have inserted of the plan is there.
Inserted(r, i) ==
  /\ Shelled(r, i) => rows[i] # "none"
  /\ Filled(r, i) /\ i \in Envelope(r)["attachments"] => rows[i] \in {"children", "whole"}
  /\ Linked(r, i) /\ i \in Envelope(r)["capture_events"] => rows[i] = "whole"

\* A call works on a plan from a backup the owner has; what was purged since is
\* excused, and what was purged before is in the ledger it has yet to read.
RestorePlaced(r) ==
  /\ restores[r].backup \in kept
  /\ restores[r].left \subseteq restores[r].items
  /\ restores[r].at \in {"plan", "ledger", "target", "receipts"} => restores[r].left = {}
  /\ IF restores[r].at = "ledger"
     THEN restores[r].items \cap erased \subseteq ledger \cup excused.items
     ELSE /\ ReferencesHold(Envelope(r), restores[r].items)
          /\ \A i \in restores[r].items \ excused.items : i \notin erased /\ Inserted(r, i)

RestoresPlaced ==
  \A r \in Restores :
    IF restores[r].at = "idle" THEN restores[r] = NoRestore ELSE RestorePlaced(r)

\* The inductive invariant.
IInv ==
  /\ NoResurrection /\ ExcusedTyped /\ OnlyBorn
  /\ BackupsPlaced /\ ErasedIsKnown /\ RestoresPlaced

-----------------------------------------------------------------------------
(* The rows of backup_artifacts.                                           *)

LEMMA BackupRows ==
  ASSUME NEW row \in BackupRecord
  PROVE  /\ \A at \in {"idle", "read", "put", "mark", "verify", "fail", "delete"} :
              /\ [row EXCEPT !.at = at] \in BackupRecord
              /\ [row EXCEPT !.at = at].state = row.state /\ [row EXCEPT !.at = at].at = at
              /\ [row EXCEPT !.at = at].envelope = row.envelope
         /\ \A state \in {"unused", "creating", "verifying", "complete", "failed", "expired", "lost"} :
              /\ [row EXCEPT !.state = state] \in BackupRecord
              /\ [row EXCEPT !.state = state].state = state /\ [row EXCEPT !.state = state].at = row.at
              /\ [row EXCEPT !.state = state].envelope = row.envelope
BY DEF BackupRecord

LEMMA NewBackup ==
  LET row == [NoBackup EXCEPT !.state = "creating", !.at = "read", !.left = Tables]
  IN /\ NoBackup \in BackupRecord /\ NoBackup.state = "unused" /\ NoBackup.at = "idle"
     /\ \A t \in Parts : NoBackup.envelope[t] = {}
     /\ row \in BackupRecord /\ row.state = "creating" /\ row.at = "read"
     /\ row.envelope = NoBackup.envelope
BY DEF NoBackup, BackupRecord, EmptyEnvelope

LEMMA FoundRows == ASSUME TypeOK, NEW t \in Parts PROVE RowsOf(t) \in SUBSET Items
BY DEF TypeOK, RowsOf, Parts, Tables

LEMMA ReadRow ==
  ASSUME TypeOK, NEW row \in BackupRecord, NEW t \in Tables
  PROVE  /\ WithTable(row, t) \in BackupRecord
         /\ WithTable(row, t).state = row.state
         /\ WithTable(row, t).at \in {"read", "put"}
         /\ \A u \in Parts :
              WithTable(row, t).envelope[u] = IF u \in Answer(t) THEN RowsOf(u) ELSE row.envelope[u]
<1> DEFINE at == IF row.left = {t} THEN "put" ELSE "read"
           envelope == [u \in Parts |-> IF u \in Answer(t) THEN RowsOf(u) ELSE row.envelope[u]]
           one == [row EXCEPT !.envelope = envelope]
           two == [one EXCEPT !.left = row.left \ {t}]
           next == [two EXCEPT !.at = at]
<1>0. envelope \in [Parts -> SUBSET Items]
  BY FoundRows DEF BackupRecord
<1>1. one \in BackupRecord /\ one.state = row.state /\ one.envelope = envelope
  BY <1>0 DEF BackupRecord
<1>2. two \in BackupRecord /\ two.state = row.state /\ two.envelope = one.envelope
  BY <1>1 DEF BackupRecord
<1>3. next = WithTable(row, t)
  BY DEF WithTable
<1> HIDE DEF two
<1>4. next \in BackupRecord /\ next.state = row.state /\ next.at = at /\ next.envelope = two.envelope
  BY <1>2 DEF BackupRecord
<1> QED BY <1>1, <1>2, <1>3, <1>4

LEMMA FailedRow ==
  ASSUME NEW row \in BackupRecord
  PROVE  /\ Failed(row) \in BackupRecord /\ Failed(row).at = "delete"
         /\ Failed(row).envelope = row.envelope
         /\ Failed(row).state = IF row.state \in {"creating", "verifying"} THEN "failed" ELSE row.state
<1> DEFINE state == IF row.state \in {"creating", "verifying"} THEN "failed" ELSE row.state
           one == [row EXCEPT !.state = state]
           next == [one EXCEPT !.at = "delete"]
<1>1. one \in BackupRecord /\ one.state = state /\ one.envelope = row.envelope
  BY DEF BackupRecord
<1>2. next = Failed(row)
  BY DEF Failed
<1> HIDE DEF one
<1>3. next \in BackupRecord /\ next.state = one.state /\ next.at = "delete" /\ next.envelope = one.envelope
  BY <1>1, BackupRows
<1> QED BY <1>1, <1>2, <1>3

LEMMA VerifyingRow ==
  ASSUME NEW row \in BackupRecord
  PROVE  /\ LET next == [row EXCEPT !.state = "verifying", !.at = "verify"]
            IN next \in BackupRecord /\ next.state = "verifying" /\ next.at = "verify" /\ next.envelope = row.envelope
         /\ LET next == [row EXCEPT !.at = "fail"]
            IN next \in BackupRecord /\ next.state = row.state /\ next.at = "fail" /\ next.envelope = row.envelope
         /\ \A at \in {"idle", "fail"} :
              LET next == [row EXCEPT !.state = "complete", !.at = at]
              IN next \in BackupRecord /\ next.state = "complete" /\ next.at = at /\ next.envelope = row.envelope
BY DEF BackupRecord

LEMMA MarkedRow ==
  ASSUME TypeOK, NEW b \in Backups, MarkVerifying(b)
  PROVE  \E row \in BackupRecord :
           /\ backups' = [backups EXCEPT ![b] = row]
           /\ row.envelope = backups[b].envelope
           /\ \/ row.state = "verifying" /\ row.at = "verify"
              \/ row.state = backups[b].state /\ row.at = "fail"
<1> DEFINE verifying == [backups[b] EXCEPT !.state = "verifying", !.at = "verify"]
           failing == [backups[b] EXCEPT !.at = "fail"]
<1>1. backups[b] \in BackupRecord
  BY DEF TypeOK
<1>2. /\ verifying \in BackupRecord /\ verifying.state = "verifying" /\ verifying.at = "verify"
      /\ verifying.envelope = backups[b].envelope
  BY <1>1, VerifyingRow, Zenon
<1>3. /\ failing \in BackupRecord /\ failing.state = backups[b].state /\ failing.at = "fail"
      /\ failing.envelope = backups[b].envelope
  BY <1>1, VerifyingRow, Zenon
<1>4. backups' = [backups EXCEPT ![b] = IF backups[b].state = "creating" THEN verifying ELSE failing]
  BY DEF MarkVerifying
<1> HIDE DEF verifying, failing
<1> QED BY <1>2, <1>3, <1>4

LEMMA LostRow ==
  ASSUME NEW row \in BackupRecord
  PROVE  LET next == [row EXCEPT !.state = "lost", !.at = "idle"]
         IN next \in BackupRecord /\ next.state = "lost" /\ next.at = "idle" /\ next.envelope = row.envelope
BY DEF BackupRecord

-----------------------------------------------------------------------------
(* The calls of RestoreService.                                            *)

RestoreSteps ==
  {"idle", "plan", "ledger", "target", "receipts", "shells", "children", "references", "verify", "verified"}

LEMMA RestoreRows ==
  ASSUME NEW row \in RestoreRecord
  PROVE  /\ \A at \in RestoreSteps :
              [row EXCEPT !.at = at] \in RestoreRecord
         /\ \A left \in SUBSET Items :
              [row EXCEPT !.left = left] \in RestoreRecord
BY DEF RestoreRecord, RestoreSteps

LEMMA NoRestoreRow == NoRestore \in RestoreRecord /\ NoRestore.at = "idle"
BY BackupAssumption DEF NoRestore, RestoreRecord

LEMMA PassRow ==
  ASSUME TypeOK, NEW r \in Restores, NEW step \in {"shells", "children", "references"},
         NEW left \in SUBSET Items
  PROVE  LET next == Pass(r, step, left)
             items == restores[r].items
         IN /\ next \in RestoreRecord
            /\ next.backup = restores[r].backup /\ next.items = items
            /\ next.receipts = restores[r].receipts /\ next.skipped = restores[r].skipped
            /\ left # {} => next.at = step /\ next.left = left
            /\ left = {} /\ step = "shells" =>
                 next.at = (IF items = {} THEN "verify" ELSE "children") /\ next.left = items
            /\ left = {} /\ step = "children" => next.at = "references" /\ next.left = items
            /\ left = {} /\ step = "references" => next.at = "verify" /\ next.left = {}
<1> DEFINE at == IF left # {} THEN step
                 ELSE CASE step = "shells" -> IF restores[r].items = {} THEN "verify" ELSE "children"
                        [] step = "children" -> "references"
                        [] OTHER -> "verify"
           rest == IF left # {} \/ step = "references" THEN left ELSE restores[r].items
           one == [restores[r] EXCEPT !.at = at]
           next == [one EXCEPT !.left = rest]
<1>1. restores[r] \in RestoreRecord
  BY DEF TypeOK
<1>2. at \in RestoreSteps /\ rest \in SUBSET Items
  BY <1>1 DEF RestoreSteps, RestoreRecord
<1>3. next = Pass(r, step, left)
  BY DEF Pass
<1>4. /\ left # {} => at = step /\ rest = left
      /\ left = {} /\ step = "shells" =>
           at = (IF restores[r].items = {} THEN "verify" ELSE "children") /\ rest = restores[r].items
      /\ left = {} /\ step = "children" => at = "references" /\ rest = restores[r].items
      /\ left = {} /\ step = "references" => at = "verify" /\ rest = {}
  OBVIOUS
<1> HIDE DEF at, rest
<1>5. /\ one \in RestoreRecord /\ one.at = at
      /\ one.backup = restores[r].backup /\ one.items = restores[r].items
      /\ one.receipts = restores[r].receipts /\ one.skipped = restores[r].skipped
  BY <1>1, <1>2 DEF RestoreRecord, RestoreSteps
<1> HIDE DEF one
<1>6. /\ next \in RestoreRecord /\ next.at = at /\ next.left = rest
      /\ next.backup = one.backup /\ next.items = one.items
      /\ next.receipts = one.receipts /\ next.skipped = one.skipped
  BY <1>2, <1>5 DEF RestoreRecord
<1> HIDE DEF next
<1> QED BY <1>3, <1>4, <1>5, <1>6

-----------------------------------------------------------------------------
(* What any step may do to an item's row, to a backup and to a restore.    *)

RowMoves(i) ==
  \/ rows'[i] = rows[i]
  \/ i \notin born /\ rows'[i] = "whole" /\ i \in born'
  \/ PurgeItem(i)
  \/ rows[i] = "none" /\ rows'[i] = "shell" /\ \E r \in Restores : i \in restores[r].left
  \/ rows[i] = "shell" /\ rows'[i] = "children"
  \/ rows[i] = "children" /\ rows'[i] = "whole"
  \/ LoseDatabase

BackupMoves(b) ==
  LET old == backups[b]
      new == backups'[b]
  IN \/ new = old /\ (b \in stored' => b \in stored) /\ (b \in kept' => b \in kept)
     \/ /\ old.state = "unused" /\ new.state = "creating" /\ new.at = "read"
        /\ stored' = stored /\ kept' = kept
     \/ /\ old.at = "read" /\ new.at \in {"read", "put"} /\ new.state = old.state
        /\ stored' = stored /\ kept' = kept
     \/ /\ old.at = "put" /\ new.at = "mark" /\ new.state = old.state /\ kept' = kept
     \/ /\ old.at = "mark" /\ new.at = "verify" /\ new.state = "verifying"
        /\ stored' = stored /\ kept' = kept
     \/ /\ old.at = "verify" /\ new.at \in {"idle", "fail"} /\ new.state = "complete"
        /\ stored' = stored /\ kept' = kept
     \/ /\ old.at \in {"read", "put", "mark", "verify"} /\ new.at = "fail" /\ new.state = old.state
        /\ stored' = stored /\ kept' = kept
     \/ /\ old.at = "fail" /\ new.at = "delete"
        /\ new.state = IF old.state \in {"creating", "verifying"} THEN "failed" ELSE old.state
        /\ stored' = stored /\ kept' = kept
     \/ /\ old.at # "idle" /\ new.at = "idle" /\ new.state = old.state /\ kept' = kept
        /\ stored' \subseteq stored
        /\ old.at = "delete" /\ old.state = "failed" => b \notin stored' \/ b \in excused'.backups
     \/ /\ new = old /\ old.state = "complete" /\ stored' = stored
     \/ /\ old.state = "complete" /\ new.state \in {"complete", "expired"} /\ new.at = old.at
        /\ b \notin stored /\ stored' = stored /\ kept' = kept
     \/ /\ new.at = "idle" /\ stored' = stored /\ kept' = kept
        /\ new.state = IF old.state = "unused" THEN "unused" ELSE "lost"
        /\ stored \subseteq excused'.backups

InsertMoves(r) ==
  \E i \in restores[r].left :
    /\ restores'[r] = Pass(r, restores[r].at, restores[r].left \ {i})
    /\ \/ restores[r].at = "shells" /\ rows'[i] = "shell"
       \/ /\ restores[r].at = "children"
          /\ rows'[i] = IF i \in Originals(r) THEN "children" ELSE "shell"
       \/ /\ restores[r].at = "references"
          /\ rows'[i] = IF rows[i] = "children" /\ i \in Envelope(r)["capture_events"]
                        THEN "whole" ELSE rows[i]

RestoreMoves(r) ==
  LET old == restores[r]
      new == restores'[r]
  IN \/ new = old
     \/ new = NoRestore
     \/ /\ new.at = "plan" /\ new.items = {} /\ new.receipts = {} /\ new.left = {}
        /\ new.backup \in kept
     \/ /\ old.at = "plan" /\ new.at = "ledger"
        /\ new.backup = old.backup /\ new.left = old.left
        /\ new.receipts = PortableReceipts(r) \cup receipts
        /\ new.items = Envelope(r)["items"] \ new.receipts
     \/ /\ old.at = "ledger" /\ new.at = "target"
        /\ new.backup = old.backup /\ new.left = old.left
        /\ new.receipts = old.receipts \cup ledger /\ new.items = old.items \ ledger
        /\ ReferencesHold(Envelope(r), new.items)
     \/ /\ <<old.at, new.at>> \in {<<"target", "receipts">>, <<"verify", "verified">>}
        /\ new.backup = old.backup /\ new.left = old.left
        /\ new.receipts = old.receipts /\ new.items = old.items
     \/ old.at = "receipts" /\ new = Pass(r, "shells", old.items)
     \/ InsertMoves(r)

-----------------------------------------------------------------------------
(* Types.                                                                  *)

CanonicalTyped ==
  /\ rows \in [Items -> RowState]
  /\ purges \in [Items -> {"none", "bytes_deleted", "marked", "erased"}]
  /\ born \subseteq Items /\ bytes \subseteq born /\ deleted \subseteq born
  /\ erased \subseteq born /\ receipts \subseteq born /\ ledger \subseteq born

ArtifactsTyped ==
  /\ backups \in [Backups -> BackupRecord]
  /\ stored \subseteq Backups /\ kept \subseteq Backups
  /\ horizon \in 0 .. MaxBackups /\ cleaning \in 0 .. MaxBackups

LEMMA TypeParts ==
  TypeOK <=> /\ CanonicalTyped /\ ArtifactsTyped
             /\ restores \in [Restores -> RestoreRecord] /\ losses \in 0 .. MaxLosses
             /\ excused.items \subseteq Items /\ excused.backups \subseteq Backups
BY DEF TypeOK, CanonicalTyped, ArtifactsTyped

LEMMA CanonicalType ==
  ASSUME TypeOK, OnlyBorn, [Next]_vars
  PROVE  CanonicalTyped'
<1>0. CanonicalTyped
  BY TypeParts
<1>1. ASSUME NEW i \in Items, Capture(i) \/ PurgeStep(i) PROVE CanonicalTyped'
  <2>1. CASE Capture(i)
    BY <1>0, <2>1 DEF Capture, CanonicalTyped, RowState
  <2>2. CASE DeleteBytes(i)
    BY <1>0, <2>2 DEF DeleteBytes, PurgeGoesTo, CanonicalTyped
  <2>2a. CASE MarkDeleted(i)
    BY <1>0, <2>2a DEF MarkDeleted, PurgeGoesTo, CanonicalTyped, OnlyBorn
  <2>3. CASE PurgeItem(i)
    BY <1>0, <2>3 DEF PurgeItem, PurgeGoesTo, CanonicalTyped, RowState, OnlyBorn
  <2>4. CASE MirrorPurgeReceipt(i)
    BY <1>0, <2>4 DEF MirrorPurgeReceipt, PurgeGoesTo, CanonicalTyped
  <2> QED BY <1>1, <2>1, <2>2, <2>2a, <2>3, <2>4 DEF PurgeStep
<1>2. ASSUME UNCHANGED canonical, erased' = erased PROVE CanonicalTyped'
  BY <1>0, <1>2 DEF canonical, CanonicalTyped
<1>3. ASSUME NEW b \in Backups, BackupStep(b) PROVE UNCHANGED canonical /\ erased' = erased
  BY <1>3
  DEF BackupStep, CreateHostedBackup, ReadTable, PutBackup, MarkVerifying, MarkComplete,
      BackupThrows, MarkFailed, DeleteFailed, BackupDies, ReadHostedBackup, FindExpired
<1>4. ASSUME CleanupStep \/ Lapse \/ UNCHANGED vars PROVE UNCHANGED canonical /\ erased' = erased
  BY <1>4 DEF CleanupStep, DeleteExpired, MarkExpired, CleanupThrows, Lapse, vars, canonical
<1>5. ASSUME NEW r \in Restores, RestoreStep(r) PROVE CanonicalTyped'
  <2>1. CASE \/ \E b \in Backups, dry \in BOOLEAN : BeginRestore(r, b, dry)
             \/ ReadReceipts(r) \/ Plan(r) \/ CheckTarget(r) \/ VerifyRestoredState(r) \/ CompleteRestore(r) \/ RestoreStops(r)
    BY <1>2, <2>1
    DEF BeginRestore, ReadReceipts, Plan, Planned, CheckTarget, VerifyRestoredState, CompleteRestore, RestoreStops
  <2>2. CASE RestoreReceipts(r)
    BY <1>0, <2>2 DEF RestoreReceipts, CanonicalTyped, OnlyBorn
  <2>3. ASSUME NEW i \in Items,
               RestoreItemShell(r, i) \/ RestoreItemChildren(r, i) \/ RestoreDeferredReferences(r, i)
        PROVE  CanonicalTyped'
    <3>1. rows' \in [Items -> RowState]
      BY <1>0, <2>3
      DEF RestoreItemShell, RestoreItemChildren, RestoreDeferredReferences, Inserts, CanonicalTyped, RowState
    <3>2. deleted' \subseteq born
      BY <1>0, <2>3
      DEF RestoreItemShell, RestoreItemChildren, RestoreDeferredReferences, CanonicalTyped, OnlyBorn
    <3> QED
      BY <1>0, <2>3, <3>1, <3>2
      DEF RestoreItemShell, RestoreItemChildren, RestoreDeferredReferences, Inserts, CanonicalTyped
  <2> QED BY <1>5, <2>1, <2>2, <2>3 DEF RestoreStep
<1>6. CASE LoseDatabase
  BY <1>0, <1>6 DEF LoseDatabase, CanonicalTyped, RowState
<1> QED BY <1>1, <1>2, <1>3, <1>4, <1>5, <1>6 DEF Next

LEMMA ArtifactsType ==
  ASSUME TypeOK, [Next]_vars
  PROVE  ArtifactsTyped'
<1>0. ArtifactsTyped
  BY TypeParts
<1>1. ASSUME UNCHANGED artifacts PROVE ArtifactsTyped'
  BY <1>0, <1>1 DEF artifacts, ArtifactsTyped
<1>2. ASSUME NEW b \in Backups, BackupStep(b) PROVE ArtifactsTyped'
  <2>0. backups[b] \in BackupRecord /\ b \in 0 .. MaxBackups
    BY <1>0 DEF ArtifactsTyped, Backups
  <2>1. CASE CreateHostedBackup(b)
    BY <1>0, <2>1, NewBackup DEF CreateHostedBackup, ArtifactsTyped
  <2>2. ASSUME NEW t \in Tables, ReadTable(b, t) PROVE ArtifactsTyped'
    BY <1>0, <2>0, <2>2, ReadRow DEF ReadTable, ArtifactsTyped
  <2>3. CASE PutBackup(b) \/ BackupThrows(b) \/ DeleteFailed(b) \/ BackupDies(b)
    <3>1. PICK at \in {"mark", "fail", "idle"} : backups' = [backups EXCEPT ![b] = [backups[b] EXCEPT !.at = at]]
      BY <2>3 DEF PutBackup, BackupThrows, DeleteFailed, BackupDies
    <3>2. [backups[b] EXCEPT !.at = at] \in BackupRecord
      BY <2>0 DEF BackupRecord
    <3>3. backups' \in [Backups -> BackupRecord]
      BY <1>0, <3>1, <3>2 DEF ArtifactsTyped
    <3> QED
      BY <1>0, <2>3, <3>3 DEF PutBackup, BackupThrows, DeleteFailed, BackupDies, ArtifactsTyped
  <2>4. CASE MarkVerifying(b)
    BY <1>0, <2>0, <2>4, VerifyingRow DEF MarkVerifying, ArtifactsTyped
  <2>5. CASE MarkComplete(b)
    <3>1. PICK at \in {"idle", "fail"} :
            backups' = [backups EXCEPT ![b] = [backups[b] EXCEPT !.state = "complete", !.at = at]]
      BY <2>5 DEF MarkComplete
    <3>2. [backups[b] EXCEPT !.state = "complete", !.at = at] \in BackupRecord
      BY <2>0, VerifyingRow, Zenon
    <3> QED BY <1>0, <2>5, <3>1, <3>2 DEF MarkComplete, ArtifactsTyped
  <2>6. CASE MarkFailed(b)
    BY <1>0, <2>0, <2>6, FailedRow DEF MarkFailed, ArtifactsTyped
  <2>7. CASE ReadHostedBackup(b) \/ FindExpired(b)
    BY <1>0, <2>0, <2>7 DEF ReadHostedBackup, FindExpired, ArtifactsTyped
  <2> QED BY <1>2, <2>1, <2>2, <2>3, <2>4, <2>5, <2>6, <2>7 DEF BackupStep
<1>3. CASE CleanupStep
  <2>1. CASE DeleteExpired \/ CleanupThrows
    BY <1>0, <2>1, BackupAssumption DEF DeleteExpired, CleanupThrows, ArtifactsTyped
  <2>2. CASE MarkExpired
    <3>1. cleaning \in Backups
      BY <1>0, <2>2 DEF MarkExpired, ArtifactsTyped, Backups
    <3>2. backups' \in [Backups -> BackupRecord]
      BY <1>0, <2>2, <3>1, ZenonT(40) DEF MarkExpired, ArtifactsTyped, BackupRecord
    <3> QED BY <1>0, <2>2, <3>2, BackupAssumption DEF MarkExpired, ArtifactsTyped
  <2> QED BY <1>3, <2>1, <2>2 DEF CleanupStep
<1>4. CASE Lapse
  BY <1>0, <1>4, BackupAssumption DEF Lapse, ArtifactsTyped
<1>5. CASE LoseDatabase
  <2>1. \A b \in Backups : [backups[b] EXCEPT !.state = "lost", !.at = "idle"] \in BackupRecord
    BY <1>0, LostRow DEF ArtifactsTyped
  <2>2. backups' \in [Backups -> BackupRecord]
    BY <1>5, <2>1, NewBackup DEF LoseDatabase
  <2>3. stored' = stored /\ kept' = kept /\ horizon' = horizon /\ cleaning' = 0
    BY <1>5, Zenon DEF LoseDatabase
  <2> QED BY <1>0, <2>2, <2>3, BackupAssumption DEF ArtifactsTyped
<1>6. ASSUME NEW i \in Items, Capture(i) \/ PurgeStep(i) PROVE UNCHANGED artifacts
  BY <1>6 DEF Capture, PurgeStep, DeleteBytes, MarkDeleted, PurgeItem, MirrorPurgeReceipt
<1>7. ASSUME NEW r \in Restores, RestoreStep(r) PROVE UNCHANGED artifacts
  BY <1>7
  DEF RestoreStep, BeginRestore, ReadReceipts, Plan, Planned, CheckTarget, RestoreReceipts, RestoreItemShell,
      RestoreItemChildren, RestoreDeferredReferences, Inserts, VerifyRestoredState, CompleteRestore,
      RestoreStops
<1>8. UNCHANGED vars => UNCHANGED artifacts
  BY DEF vars, artifacts
<1> QED BY <1>1, <1>2, <1>3, <1>4, <1>5, <1>6, <1>7, <1>8 DEF Next

-----------------------------------------------------------------------------
(* Every step moves rows, backups and restores as said.                    *)

\* A call goes to another step, and nothing else of it changes.
LEMMA GoesRow ==
  ASSUME NEW row \in RestoreRecord, NEW at \in RestoreSteps
  PROVE  LET next == [row EXCEPT !.at = at]
         IN /\ next \in RestoreRecord /\ next.at = at /\ next.backup = row.backup
            /\ next.left = row.left /\ next.items = row.items
            /\ next.receipts = row.receipts /\ next.skipped = row.skipped
BY DEF RestoreRecord, RestoreSteps

LEMMA BeginRow ==
  ASSUME NEW b \in Backups, NEW dry \in BOOLEAN
  PROVE  LET row == [NoRestore EXCEPT !.at = "plan", !.dry = dry, !.backup = b]
         IN /\ row \in RestoreRecord /\ row.at = "plan" /\ row.backup = b
            /\ row.items = {} /\ row.receipts = {} /\ row.left = {}
<1> DEFINE one == [NoRestore EXCEPT !.at = "plan"]
           two == [one EXCEPT !.dry = dry]
           next == [two EXCEPT !.backup = b]
<1>1. b \in 0 .. MaxBackups
  BY BackupAssumption DEF Backups
<1>2. /\ one \in RestoreRecord /\ one.at = "plan"
      /\ one.items = {} /\ one.receipts = {} /\ one.left = {}
  BY NoRestoreRow DEF NoRestore, RestoreRecord
<1> HIDE DEF one
<1>3. /\ two \in RestoreRecord /\ two.at = "plan"
      /\ two.items = {} /\ two.receipts = {} /\ two.left = {}
  BY <1>2 DEF RestoreRecord
<1> HIDE DEF two
<1>4. /\ next \in RestoreRecord /\ next.at = "plan" /\ next.backup = b
      /\ next.items = {} /\ next.receipts = {} /\ next.left = {}
  BY <1>1, <1>3 DEF RestoreRecord
<1> HIDE DEF next
<1>5. next = [NoRestore EXCEPT !.at = "plan", !.dry = dry, !.backup = b]
  BY DEF next, two, one
<1> QED BY <1>4, <1>5

LEMMA ReadMoves ==
  ASSUME TypeOK, RestoresPlaced, NEW r \in Restores, ReadReceipts(r)
  PROVE  /\ restores' \in [Restores -> RestoreRecord]
         /\ \A s \in Restores \ {r} : restores'[s] = restores[s]
         /\ RestoreMoves(r)
<1> DEFINE known == PortableReceipts(r) \cup receipts
           items == Envelope(r)["items"] \ known
           one == [restores[r] EXCEPT !.at = "ledger"]
           two == [one EXCEPT !.receipts = known]
           next == [two EXCEPT !.items = items]
<1>1. restores[r] \in RestoreRecord /\ restores[r].at = "plan"
  BY DEF ReadReceipts, TypeOK
<1>2. restores[r].backup \in Backups
  BY <1>1 DEF RestoresPlaced, RestorePlaced, TypeOK
<1>3. items \in SUBSET Items /\ known \in SUBSET Items
  BY <1>2 DEF TypeOK, BackupRecord, Parts, Tables, PortableReceipts, Envelope
<1>4. restores' = [restores EXCEPT ![r] = next]
  BY DEF ReadReceipts, Envelope
<1> HIDE DEF known, items
<1>5. /\ next \in RestoreRecord /\ next.at = "ledger" /\ next.backup = restores[r].backup
      /\ next.left = restores[r].left /\ next.items = items /\ next.receipts = known
  <2>1. /\ one \in RestoreRecord /\ one.at = "ledger" /\ one.backup = restores[r].backup
        /\ one.left = restores[r].left
    BY <1>1 DEF RestoreRecord
  <2> HIDE DEF one
  <2>2. /\ two \in RestoreRecord /\ two.at = "ledger" /\ two.backup = restores[r].backup
        /\ two.left = restores[r].left /\ two.receipts = known
    BY <1>3, <2>1 DEF RestoreRecord
  <2> HIDE DEF two
  <2> QED BY <1>3, <2>2 DEF RestoreRecord
<1> HIDE DEF next
<1>6. restores'[r] = next
  BY <1>4 DEF TypeOK
<1> QED BY <1>1, <1>4, <1>5, <1>6 DEF RestoreMoves, TypeOK, known, items

LEMMA PlanMoves ==
  ASSUME TypeOK, RestoresPlaced, NEW r \in Restores, Plan(r)
  PROVE  /\ restores' \in [Restores -> RestoreRecord]
         /\ \A s \in Restores \ {r} : restores'[s] = restores[s]
         /\ RestoreMoves(r)
<1> DEFINE all == restores[r].receipts \cup ledger
           items == restores[r].items \ ledger
           skipped == Envelope(r)["items"] \cap all
           one == [restores[r] EXCEPT !.at = "target"]
           two == [one EXCEPT !.items = items]
           three == [two EXCEPT !.receipts = all]
           next == [three EXCEPT !.skipped = skipped]
<1>1. restores[r] \in RestoreRecord /\ restores[r].at = "ledger"
  BY DEF Plan, Planned, TypeOK
<1>3. items \in SUBSET Items /\ all \in SUBSET Items /\ skipped \in SUBSET Items
  BY <1>1 DEF TypeOK, RestoreRecord
<1>4. restores' = [restores EXCEPT ![r] = IF ReferencesHold(Envelope(r), items) THEN next ELSE NoRestore]
  BY DEF Plan, Planned, Envelope
<1> HIDE DEF all, items, skipped
<1>5. /\ next \in RestoreRecord /\ next.at = "target" /\ next.backup = restores[r].backup
      /\ next.left = restores[r].left /\ next.items = items /\ next.receipts = all
  <2>1. /\ one \in RestoreRecord /\ one.at = "target" /\ one.backup = restores[r].backup
        /\ one.left = restores[r].left
    BY <1>1 DEF RestoreRecord
  <2> HIDE DEF one
  <2>2. /\ two \in RestoreRecord /\ two.at = "target" /\ two.backup = restores[r].backup
        /\ two.left = restores[r].left /\ two.items = items
    BY <1>3, <2>1 DEF RestoreRecord
  <2> HIDE DEF two
  <2>3. /\ three \in RestoreRecord /\ three.at = "target" /\ three.backup = restores[r].backup
        /\ three.left = restores[r].left /\ three.items = items /\ three.receipts = all
    BY <1>3, <2>2 DEF RestoreRecord
  <2> HIDE DEF three
  <2> QED BY <1>3, <2>3 DEF RestoreRecord
<1> HIDE DEF next
<1>6. CASE ReferencesHold(Envelope(r), items)
  <2>1. restores' = [restores EXCEPT ![r] = next]
    BY <1>4, <1>6
  <2>2. restores'[r] = next
    BY <2>1 DEF TypeOK
  <2> QED BY <1>1, <1>5, <1>6, <2>1, <2>2 DEF RestoreMoves, TypeOK, all, items
<1>7. CASE ~ReferencesHold(Envelope(r), items)
  BY <1>4, <1>7, NoRestoreRow DEF RestoreMoves, TypeOK
<1> QED BY <1>6, <1>7

LEMMA RowsMove ==
  ASSUME TypeOK, OnlyBorn, [Next]_vars, NEW i \in Items
  PROVE  RowMoves(i)
<1>1. ASSUME rows' = rows PROVE RowMoves(i)
  BY <1>1 DEF RowMoves
<1>2. ASSUME NEW j \in Items, Capture(j) PROVE RowMoves(i)
  BY <1>2 DEF Capture, RowMoves, TypeOK
<1>3. ASSUME NEW j \in Items, PurgeStep(j) PROVE RowMoves(i)
  <2>1. CASE PurgeItem(j)
    BY <2>1 DEF PurgeItem, RowMoves, TypeOK
  <2> QED BY <1>1, <1>3, <2>1 DEF PurgeStep, DeleteBytes, MarkDeleted, MirrorPurgeReceipt
<1>4. ASSUME NEW b \in Backups, BackupStep(b) PROVE rows' = rows
  BY <1>4
  DEF BackupStep, CreateHostedBackup, ReadTable, PutBackup, MarkVerifying, MarkComplete,
      BackupThrows, MarkFailed, DeleteFailed, BackupDies, ReadHostedBackup, FindExpired, canonical
<1>5. ASSUME CleanupStep \/ Lapse \/ UNCHANGED vars PROVE rows' = rows
  BY <1>5 DEF CleanupStep, DeleteExpired, MarkExpired, CleanupThrows, Lapse, vars, canonical
<1>6. ASSUME NEW r \in Restores, RestoreStep(r) PROVE RowMoves(i)
  <2>1. CASE \/ \E b \in Backups, dry \in BOOLEAN : BeginRestore(r, b, dry)
             \/ ReadReceipts(r) \/ Plan(r) \/ CheckTarget(r) \/ VerifyRestoredState(r) \/ CompleteRestore(r) \/ RestoreStops(r)
             \/ RestoreReceipts(r)
    BY <1>1, <2>1
    DEF BeginRestore, ReadReceipts, Plan, Planned, CheckTarget, VerifyRestoredState, CompleteRestore, RestoreStops,
        RestoreReceipts, canonical
  <2>2. ASSUME NEW j \in Items,
               RestoreItemShell(r, j) \/ RestoreItemChildren(r, j) \/ RestoreDeferredReferences(r, j)
        PROVE  RowMoves(i)
    BY <2>2
    DEF RestoreItemShell, RestoreItemChildren, RestoreDeferredReferences, Inserts, RowMoves, TypeOK
  <2> QED BY <1>6, <2>1, <2>2 DEF RestoreStep
<1>7. CASE LoseDatabase
  BY <1>7 DEF RowMoves
<1> QED BY <1>1, <1>2, <1>3, <1>4, <1>5, <1>6, <1>7 DEF Next

LEMMA InsertsMove ==
  ASSUME TypeOK, NEW r \in Restores, NEW i \in Items,
         RestoreItemShell(r, i) \/ RestoreItemChildren(r, i) \/ RestoreDeferredReferences(r, i)
  PROVE  /\ restores' \in [Restores -> RestoreRecord]
         /\ \A s \in Restores \ {r} : restores'[s] = restores[s]
         /\ RestoreMoves(r)
<1> DEFINE next == Pass(r, restores[r].at, restores[r].left \ {i})
<1>1. i \in restores[r].left /\ restores[r].at \in {"shells", "children", "references"}
  BY DEF RestoreItemShell, RestoreItemChildren, RestoreDeferredReferences, Inserts
<1>2. restores[r].left \ {i} \in SUBSET Items
  BY DEF TypeOK, RestoreRecord
<1>3. next \in RestoreRecord
  BY <1>1, <1>2, PassRow, Zenon
<1>4. CASE /\ restores' = [restores EXCEPT ![r] = NoRestore]
  BY <1>4, NoRestoreRow DEF RestoreMoves, TypeOK
<1>5. CASE restores' # [restores EXCEPT ![r] = NoRestore]
  <2>1. restores' = [restores EXCEPT ![r] = next]
    BY <1>5
    DEF RestoreItemShell, RestoreItemChildren, RestoreDeferredReferences, Inserts, Ended
  <2>2. \/ restores[r].at = "shells" /\ rows'[i] = "shell"
        \/ /\ restores[r].at = "children"
           /\ rows'[i] = IF i \in Originals(r) THEN "children" ELSE "shell"
        \/ /\ restores[r].at = "references"
           /\ rows'[i] = IF rows[i] = "children" /\ i \in Envelope(r)["capture_events"]
                         THEN "whole" ELSE rows[i]
    BY <1>5
    DEF RestoreItemShell, RestoreItemChildren, RestoreDeferredReferences, Inserts, Ended, Envelope, TypeOK
  <2> HIDE DEF next
  <2>3. restores'[r] = next
    BY <2>1 DEF TypeOK
  <2>4. InsertMoves(r)
    BY <1>1, <2>2, <2>3 DEF InsertMoves, next
  <2> QED BY <1>3, <2>1, <2>4 DEF RestoreMoves, TypeOK
<1> QED BY <1>4, <1>5

LEMMA CallMoves ==
  ASSUME TypeOK, RestoresPlaced, NEW r \in Restores, RestoreStep(r)
  PROVE  /\ restores' \in [Restores -> RestoreRecord]
         /\ \A s \in Restores \ {r} : restores'[s] = restores[s]
         /\ RestoreMoves(r)
<1>0. restores[r] \in RestoreRecord
  BY DEF TypeOK
<1>1. ASSUME NEW b \in Backups, NEW dry \in BOOLEAN, BeginRestore(r, b, dry)
      PROVE  /\ restores' \in [Restores -> RestoreRecord]
             /\ \A s \in Restores \ {r} : restores'[s] = restores[s]
             /\ RestoreMoves(r)
  <2> DEFINE row == [NoRestore EXCEPT !.at = "plan", !.dry = dry, !.backup = b]
  <2>1. restores' = [restores EXCEPT ![r] = row] /\ b \in kept
    BY <1>1, Zenon DEF BeginRestore
  <2>2. /\ row \in RestoreRecord /\ row.at = "plan" /\ row.backup = b
        /\ row.items = {} /\ row.receipts = {} /\ row.left = {}
    BY BeginRow, Zenon
  <2> HIDE DEF row
  <2> QED BY <2>1, <2>2 DEF RestoreMoves, TypeOK
<1>2. ASSUME restores' = [restores EXCEPT ![r] = NoRestore]
      PROVE  /\ restores' \in [Restores -> RestoreRecord]
             /\ \A s \in Restores \ {r} : restores'[s] = restores[s]
             /\ RestoreMoves(r)
  BY <1>2, NoRestoreRow DEF RestoreMoves, TypeOK
<1>3. ASSUME NEW at \in {"receipts", "verified"},
             <<restores[r].at, at>> \in {<<"target", "receipts">>, <<"verify", "verified">>}, GoesTo(r, at)
      PROVE  /\ restores' \in [Restores -> RestoreRecord]
             /\ \A s \in Restores \ {r} : restores'[s] = restores[s]
             /\ RestoreMoves(r)
  <2> DEFINE next == [restores[r] EXCEPT !.at = at]
  <2>1. restores' = [restores EXCEPT ![r] = next]
    BY <1>3 DEF GoesTo
  <2>2. /\ next \in RestoreRecord /\ next.at = at /\ next.backup = restores[r].backup
        /\ next.left = restores[r].left /\ next.items = restores[r].items
        /\ next.receipts = restores[r].receipts
    BY <1>0 DEF RestoreRecord
  <2> HIDE DEF next
  <2> QED BY <1>3, <2>1, <2>2 DEF RestoreMoves, TypeOK
<1>4. CASE CheckTarget(r)
  BY <1>2, <1>3, <1>4 DEF CheckTarget, Ended
<1>5. CASE VerifyRestoredState(r)
  BY <1>2, <1>3, <1>5 DEF VerifyRestoredState, Ended
<1>6. CASE CompleteRestore(r) \/ RestoreStops(r)
  BY <1>2, <1>6 DEF CompleteRestore, RestoreStops, Ended
<1>7. CASE RestoreReceipts(r)
  <2> DEFINE next == Pass(r, "shells", restores[r].items)
  <2>1. restores' = [restores EXCEPT ![r] = next] /\ restores[r].at = "receipts"
    BY <1>7 DEF RestoreReceipts
  <2>2. next \in RestoreRecord
    <3>1. restores[r].items \in SUBSET Items
      BY <1>0 DEF RestoreRecord
    <3> QED BY <3>1, PassRow, Zenon
  <2> HIDE DEF next
  <2>3. restores'[r] = next
    BY <2>1 DEF TypeOK
  <2> QED BY <2>1, <2>2, <2>3 DEF RestoreMoves, TypeOK, next
<1> QED BY <1>1, <1>4, <1>5, <1>6, <1>7, ReadMoves, PlanMoves, InsertsMove DEF RestoreStep

LEMMA RestoresMove ==
  ASSUME TypeOK, RestoresPlaced, [Next]_vars
  PROVE  /\ restores' \in [Restores -> RestoreRecord]
         /\ \A r \in Restores : RestoreMoves(r)
<1>1. ASSUME restores' = restores
      PROVE  restores' \in [Restores -> RestoreRecord] /\ \A r \in Restores : RestoreMoves(r)
  BY <1>1 DEF RestoreMoves, TypeOK
<1>2. ASSUME NEW i \in Items, Capture(i) \/ PurgeStep(i) PROVE restores' = restores
  BY <1>2 DEF Capture, PurgeStep, DeleteBytes, MarkDeleted, PurgeItem, MirrorPurgeReceipt
<1>3. ASSUME NEW b \in Backups, BackupStep(b) PROVE restores' = restores
  BY <1>3
  DEF BackupStep, CreateHostedBackup, ReadTable, PutBackup, MarkVerifying, MarkComplete,
      BackupThrows, MarkFailed, DeleteFailed, BackupDies, ReadHostedBackup, FindExpired
<1>4. ASSUME CleanupStep \/ Lapse \/ UNCHANGED vars PROVE restores' = restores
  BY <1>4 DEF CleanupStep, DeleteExpired, MarkExpired, CleanupThrows, Lapse, vars
<1>5. CASE LoseDatabase
  <2>1. restores' = [r \in Restores |-> NoRestore]
    BY <1>5, Zenon DEF LoseDatabase
  <2> QED BY <2>1, NoRestoreRow DEF RestoreMoves
<1>6. ASSUME NEW r \in Restores, RestoreStep(r)
      PROVE  restores' \in [Restores -> RestoreRecord] /\ \A s \in Restores : RestoreMoves(s)
  BY <1>6, CallMoves DEF RestoreMoves
<1> QED BY <1>1, <1>2, <1>3, <1>4, <1>5, <1>6 DEF Next

LEMMA BackupsMove ==
  ASSUME TypeOK, ExcusedTyped, [Next]_vars, NEW c \in Backups
  PROVE  BackupMoves(c)
<1>0. backups \in [Backups -> BackupRecord] /\ backups[c] \in BackupRecord
  BY DEF TypeOK
<1>1. ASSUME UNCHANGED <<backups, stored, kept>> PROVE BackupMoves(c)
  BY <1>1 DEF BackupMoves
<1>2. ASSUME NEW b \in Backups, BackupStep(b) PROVE BackupMoves(c)
  <2>0. backups[b] \in BackupRecord
    BY <1>0
  <2>1. CASE CreateHostedBackup(b)
    BY <1>0, <2>1, NewBackup DEF CreateHostedBackup, BackupMoves
  <2>2. ASSUME NEW t \in Tables, ReadTable(b, t) PROVE BackupMoves(c)
    BY <1>0, <2>0, <2>2, ReadRow DEF ReadTable, BackupMoves
  <2>3. CASE PutBackup(b)
    BY <1>0, <2>0, <2>3 DEF PutBackup, BackupMoves, BackupRecord
  <2>4. CASE MarkVerifying(b)
    <3>1. backups[b].at = "mark" /\ stored' = stored /\ kept' = kept
      BY <2>4, Zenon DEF MarkVerifying
    <3>2. PICK row \in BackupRecord :
            /\ backups' = [backups EXCEPT ![b] = row]
            /\ \/ row.state = "verifying" /\ row.at = "verify"
               \/ row.state = backups[b].state /\ row.at = "fail"
      BY <2>4, MarkedRow
    <3> QED BY <1>0, <3>1, <3>2 DEF BackupMoves
  <2>5. CASE MarkComplete(b)
    <3>1. PICK at \in {"idle", "fail"} :
            backups' = [backups EXCEPT ![b] = [backups[b] EXCEPT !.state = "complete", !.at = at]]
      BY <2>5 DEF MarkComplete
    <3> DEFINE row == [backups[b] EXCEPT !.state = "complete", !.at = at]
    <3>2. row.state = "complete" /\ row.at = at
      BY <2>0 DEF BackupRecord
    <3>3. backups[b].at = "verify" /\ stored' = stored /\ kept' = kept
      BY <2>5 DEF MarkComplete
    <3> HIDE DEF row
    <3>4. backups'[c] = IF c = b THEN row ELSE backups[c]
      BY <1>0, <3>1 DEF row
    <3> QED BY <3>2, <3>3, <3>4 DEF BackupMoves
  <2>6. CASE BackupThrows(b)
    <3> DEFINE row == [backups[b] EXCEPT !.at = "fail"]
    <3>1. backups' = [backups EXCEPT ![b] = row]
      BY <2>6 DEF BackupThrows
    <3>2. row.state = backups[b].state /\ row.at = "fail"
      BY <2>0 DEF BackupRecord
    <3>3. backups[b].at \in {"read", "put", "mark", "verify"} /\ stored' = stored /\ kept' = kept
      BY <2>6 DEF BackupThrows
    <3> HIDE DEF row
    <3>4. backups'[c] = IF c = b THEN row ELSE backups[c]
      BY <1>0, <3>1
    <3> QED BY <3>2, <3>3, <3>4 DEF BackupMoves
  <2>7. CASE MarkFailed(b)
    BY <1>0, <2>0, <2>7, FailedRow DEF MarkFailed, BackupMoves
  <2>8. CASE DeleteFailed(b)
    BY <1>0, <2>0, <2>8 DEF DeleteFailed, Forgotten, BackupMoves, BackupRecord, ExcusedTyped
  <2>9. CASE BackupDies(b)
    BY <1>0, <2>0, <2>9 DEF BackupDies, Forgotten, BackupMoves, BackupRecord, ExcusedTyped
  <2>10. CASE ReadHostedBackup(b)
    BY <2>10 DEF ReadHostedBackup, BackupMoves
  <2>11. CASE FindExpired(b)
    BY <1>1, <2>11 DEF FindExpired
  <2> QED BY <1>2, <2>1, <2>2, <2>3, <2>4, <2>5, <2>6, <2>7, <2>8, <2>9, <2>10, <2>11 DEF BackupStep
<1>3. CASE CleanupStep
  <2>1. CASE DeleteExpired
    BY <2>1 DEF DeleteExpired, BackupMoves
  <2>2. CASE CleanupThrows
    BY <1>1, <2>2 DEF CleanupThrows
  <2>3. CASE MarkExpired
    BY <1>0, <2>3 DEF MarkExpired, BackupMoves, BackupRecord
  <2> QED BY <1>3, <2>1, <2>2, <2>3 DEF CleanupStep
<1>4. CASE LoseDatabase
  <2>1. /\ backups'[c] = IF backups[c].state = "unused" THEN NoBackup
                         ELSE [backups[c] EXCEPT !.state = "lost", !.at = "idle"]
        /\ stored' = stored /\ kept' = kept
        /\ excused' = [items |-> excused.items \cup (erased \ ledger),
                       backups |-> excused.backups \cup stored]
    BY <1>4, Zenon DEF LoseDatabase
  <2>2. LET row == [backups[c] EXCEPT !.state = "lost", !.at = "idle"]
        IN row.state = "lost" /\ row.at = "idle"
    BY <1>0, LostRow, Zenon
  <2>3. backups'[c].at = "idle" /\ backups'[c].state = IF backups[c].state = "unused" THEN "unused" ELSE "lost"
    BY <2>1, <2>2, NewBackup, Zenon
  <2> QED BY <2>1, <2>3 DEF BackupMoves
<1>5. ASSUME (\E i \in Items : Capture(i) \/ PurgeStep(i)) \/ (\E r \in Restores : RestoreStep(r)) \/ Lapse
             \/ UNCHANGED vars
      PROVE  UNCHANGED <<backups, stored, kept>>
  <2>1. UNCHANGED artifacts \/ Lapse \/ UNCHANGED vars
    BY <1>5, ZenonT(40)
    DEF Capture, PurgeStep, DeleteBytes, MarkDeleted, PurgeItem, MirrorPurgeReceipt, RestoreStep, BeginRestore, ReadReceipts, Plan,
        Planned, CheckTarget, RestoreReceipts, RestoreItemShell, RestoreItemChildren,
        RestoreDeferredReferences, Inserts, VerifyRestoredState, CompleteRestore, RestoreStops
  <2> QED BY <2>1 DEF artifacts, vars, Lapse
<1> QED BY <1>1, <1>2, <1>3, <1>4, <1>5 DEF Next

\* What grows and what is only lost with the database.
LEMMA LedgersMove ==
  ASSUME TypeOK, ExcusedTyped, [Next]_vars
  PROVE  /\ ExcusedTyped' /\ losses' \in 0 .. MaxLosses
         /\ born \subseteq born' /\ ledger \subseteq ledger' /\ kept \subseteq kept'
         /\ excused.items \subseteq excused'.items /\ excused.backups \subseteq excused'.backups
         /\ \A i \in erased' \ erased : PurgeItem(i)
         /\ receipts \subseteq receipts' \/ LoseDatabase
<1> DEFINE Goal == /\ ExcusedTyped' /\ losses' \in 0 .. MaxLosses
                   /\ born \subseteq born' /\ ledger \subseteq ledger' /\ kept \subseteq kept'
                   /\ excused.items \subseteq excused'.items /\ excused.backups \subseteq excused'.backups
                   /\ \A i \in erased' \ erased : PurgeItem(i)
                   /\ receipts \subseteq receipts' \/ LoseDatabase
<1>1. ASSUME UNCHANGED <<born, ledger, receipts, erased, losses, excused, kept>> PROVE Goal
  BY <1>1 DEF ExcusedTyped, TypeOK
<1>2. ASSUME NEW i \in Items, Capture(i) \/ PurgeStep(i) PROVE Goal
  <2>1. CASE Capture(i)
    BY <2>1 DEF Capture, artifacts, ExcusedTyped, TypeOK
  <2>2. CASE DeleteBytes(i)
    BY <1>1, <2>2 DEF DeleteBytes, artifacts
  <2>3. CASE PurgeItem(i)
    <3>1. /\ excused' = [excused EXCEPT !.items = IF \E r \in Restores : i \in restores[r].items
                                                 THEN excused.items \cup {i} ELSE excused.items]
          /\ receipts' = receipts \cup {i} /\ erased' = erased \cup {i}
          /\ born' = born /\ ledger' = ledger /\ kept' = kept /\ losses' = losses
      BY <2>3 DEF PurgeItem, artifacts
    <3>2. excused' = [excused EXCEPT !.items = excused.items \cup {i}] \/ excused' = [excused EXCEPT !.items = excused.items]
      BY <3>1, Zenon
    <3>3. ExcusedTyped' /\ excused.items \subseteq excused'.items /\ excused.backups \subseteq excused'.backups
      BY <3>2 DEF ExcusedTyped
    <3> QED BY <2>3, <3>1, <3>3 DEF TypeOK
  <2>4. CASE MirrorPurgeReceipt(i)
    BY <2>4 DEF MirrorPurgeReceipt, artifacts, ExcusedTyped, TypeOK
  <2>5. CASE MarkDeleted(i)
    BY <1>1, <2>5 DEF MarkDeleted, artifacts
  <2> QED BY <1>2, <2>1, <2>2, <2>3, <2>4, <2>5 DEF PurgeStep
<1>3. ASSUME NEW b \in Backups, BackupStep(b) PROVE Goal
  <2>1. CASE DeleteFailed(b) \/ BackupDies(b)
    <3>1. excused' = [excused EXCEPT !.backups = excused.backups \cup {b}] \/ excused' = excused
      BY <2>1 DEF DeleteFailed, BackupDies, Forgotten
    <3>2. ExcusedTyped' /\ excused.items \subseteq excused'.items /\ excused.backups \subseteq excused'.backups
      BY <3>1 DEF ExcusedTyped
    <3>3. UNCHANGED <<born, ledger, receipts, erased, losses, kept>>
      BY <2>1 DEF DeleteFailed, BackupDies, canonical
    <3> QED BY <3>2, <3>3 DEF TypeOK
  <2>2. CASE ReadHostedBackup(b)
    BY <2>2 DEF ReadHostedBackup, canonical, ExcusedTyped, TypeOK
  <2> QED
    BY <1>1, <1>3, <2>1, <2>2
    DEF BackupStep, CreateHostedBackup, ReadTable, PutBackup, MarkVerifying, MarkComplete,
        BackupThrows, MarkFailed, FindExpired, canonical
<1>4. ASSUME CleanupStep \/ Lapse \/ UNCHANGED vars PROVE Goal
  BY <1>1, <1>4 DEF CleanupStep, DeleteExpired, MarkExpired, CleanupThrows, Lapse, vars, canonical
<1>5. ASSUME NEW r \in Restores, RestoreStep(r) PROVE Goal
  <2>1. CASE RestoreReceipts(r)
    BY <2>1 DEF RestoreReceipts, artifacts, ExcusedTyped, TypeOK
  <2> QED
    BY <1>1, <1>5, <2>1
    DEF RestoreStep, BeginRestore, ReadReceipts, Plan, Planned, CheckTarget, RestoreItemShell,
        RestoreItemChildren, RestoreDeferredReferences, Inserts, VerifyRestoredState, CompleteRestore,
        RestoreStops, canonical, artifacts
<1>6. CASE LoseDatabase
  <2>1. /\ excused' = [items |-> excused.items \cup (erased \ ledger),
                       backups |-> excused.backups \cup stored]
        /\ UNCHANGED <<born, ledger, kept, erased>>
        /\ losses < MaxLosses /\ losses' = losses + 1
    BY <1>6, Zenon DEF LoseDatabase
  <2>2. losses' \in 0 .. MaxLosses
    BY <2>1, BackupAssumption DEF TypeOK
  <2> QED BY <1>6, <2>1, <2>2 DEF ExcusedTyped, TypeOK
<1> QED BY <1>2, <1>3, <1>4, <1>5, <1>6 DEF Next

\* A portable export only grows while it is made.
LEMMA EnvelopesMove ==
  ASSUME TypeOK, OnlyBorn, BackupsPlaced, born \subseteq born', [Next]_vars, NEW c \in Backups
  PROVE  /\ \A t \in Parts : backups'[c].envelope[t] \subseteq born'
         /\ c \in kept => backups'[c].envelope = backups[c].envelope
<1> DEFINE Goal == /\ \A t \in Parts : backups'[c].envelope[t] \subseteq born'
                   /\ c \in kept => backups'[c].envelope = backups[c].envelope
<1>0. backups \in [Backups -> BackupRecord] /\ backups[c] \in BackupRecord
  BY DEF TypeOK
<1>1. ASSUME backups'[c].envelope = backups[c].envelope PROVE Goal
  BY <1>1 DEF OnlyBorn
<1>2. ASSUME NEW b \in Backups, BackupStep(b) PROVE Goal
  <2>0. backups[b] \in BackupRecord
    BY <1>0
  <2>1. CASE CreateHostedBackup(b)
    BY <1>0, <1>1, <2>1, NewBackup DEF CreateHostedBackup, BackupsPlaced, BackupPlaced
  <2>2. ASSUME NEW t \in Tables, ReadTable(b, t) PROVE Goal
    <3>1. \A u \in Parts : RowsOf(u) \subseteq born
      BY DEF RowsOf, Parts, Tables, OnlyBorn, TypeOK
    <3>2. c = b => c \notin kept
      BY <2>2 DEF ReadTable, BackupsPlaced, BackupPlaced
    <3>3. c # b => backups'[c] = backups[c]
      BY <1>0, <2>2 DEF ReadTable
    <3>4. c = b => \A u \in Parts :
            backups'[c].envelope[u] = IF u \in Answer(t) THEN RowsOf(u) ELSE backups[c].envelope[u]
      BY <1>0, <2>0, <2>2, ReadRow DEF ReadTable
    <3> QED BY <1>1, <3>1, <3>2, <3>3, <3>4 DEF OnlyBorn
  <2>3. CASE PutBackup(b) \/ BackupThrows(b) \/ DeleteFailed(b) \/ BackupDies(b)
    <3>1. PICK at \in {"mark", "fail", "idle"} : backups' = [backups EXCEPT ![b] = [backups[b] EXCEPT !.at = at]]
      BY <2>3 DEF PutBackup, BackupThrows, DeleteFailed, BackupDies
    <3>2. [backups[b] EXCEPT !.at = at].envelope = backups[b].envelope
      BY <2>0 DEF BackupRecord
    <3> QED BY <1>0, <1>1, <3>1, <3>2
  <2>4. CASE MarkVerifying(b)
    <3>1. PICK row \in BackupRecord :
            backups' = [backups EXCEPT ![b] = row] /\ row.envelope = backups[b].envelope
      BY <2>4, MarkedRow
    <3> QED BY <1>0, <1>1, <3>1
  <2>5. CASE MarkComplete(b)
    <3>1. PICK at \in {"idle", "fail"} :
            backups' = [backups EXCEPT ![b] = [backups[b] EXCEPT !.state = "complete", !.at = at]]
      BY <2>5 DEF MarkComplete
    <3> DEFINE row == [backups[b] EXCEPT !.state = "complete", !.at = at]
    <3>2. row.envelope = backups[b].envelope
      BY <2>0, VerifyingRow, Zenon
    <3> HIDE DEF row
    <3>3. backups'[c] = IF c = b THEN row ELSE backups[c]
      BY <1>0, <3>1 DEF row
    <3> QED BY <1>1, <3>2, <3>3
  <2>6. CASE MarkFailed(b)
    BY <1>0, <1>1, <2>0, <2>6, FailedRow DEF MarkFailed
  <2>7. CASE ReadHostedBackup(b) \/ FindExpired(b)
    BY <1>1, <2>7 DEF ReadHostedBackup, FindExpired
  <2> QED BY <1>2, <2>1, <2>2, <2>3, <2>4, <2>5, <2>6, <2>7 DEF BackupStep
<1>3. CASE CleanupStep
  <2>1. CASE DeleteExpired \/ CleanupThrows
    BY <1>1, <2>1 DEF DeleteExpired, CleanupThrows
  <2>2. CASE MarkExpired
    BY <1>0, <1>1, <2>2 DEF MarkExpired, BackupRecord
  <2> QED BY <1>3, <2>1, <2>2 DEF CleanupStep
<1>4. CASE LoseDatabase
  <2>1. backups'[c] = IF backups[c].state = "unused" THEN NoBackup
                      ELSE [backups[c] EXCEPT !.state = "lost", !.at = "idle"]
    BY <1>4, Zenon DEF LoseDatabase
  <2>2. LET row == [backups[c] EXCEPT !.state = "lost", !.at = "idle"]
        IN row.envelope = backups[c].envelope
    BY <1>0, LostRow, Zenon
  <2>3. backups[c].state # "unused" => backups'[c].envelope = backups[c].envelope
    BY <2>1, <2>2, Zenon
  <2>4. backups[c].state = "unused" => backups'[c] = NoBackup
    BY <2>1, Zenon
  <2> QED BY <1>1, <2>3, <2>4, NewBackup DEF BackupsPlaced, BackupPlaced
<1>5. ASSUME (\E i \in Items : Capture(i) \/ PurgeStep(i)) \/ (\E r \in Restores : RestoreStep(r)) \/ Lapse
             \/ UNCHANGED vars
      PROVE  backups' = backups
  <2>1. UNCHANGED artifacts \/ Lapse \/ UNCHANGED vars
    BY <1>5
    DEF Capture, PurgeStep, DeleteBytes, MarkDeleted, PurgeItem, MirrorPurgeReceipt, RestoreStep, BeginRestore, ReadReceipts, Plan,
        Planned, CheckTarget, RestoreReceipts, RestoreItemShell, RestoreItemChildren,
        RestoreDeferredReferences, Inserts, VerifyRestoredState, CompleteRestore, RestoreStops
  <2> QED BY <2>1 DEF artifacts, vars, Lapse
<1> QED BY <1>1, <1>2, <1>3, <1>4, <1>5 DEF Next

-----------------------------------------------------------------------------
(* The invariant and what follows from it.                                 *)

LEMMA InitInv == Init => IInv
<1> SUFFICES ASSUME Init PROVE IInv
  OBVIOUS
<1>1. TypeOK
  BY NewBackup, NoRestoreRow, BackupAssumption DEF Init, TypeOK, RowState
<1>2. ExcusedTyped /\ NoResurrection /\ ErasedIsKnown
  BY <1>1 DEF Init, ExcusedTyped, NoResurrection, ErasedIsKnown
<1>3. OnlyBorn
  BY NewBackup DEF Init, OnlyBorn, NoRestore
<1>4. BackupsPlaced
  BY NewBackup DEF Init, BackupsPlaced, BackupPlaced
<1>5. RestoresPlaced
  BY NoRestoreRow DEF Init, RestoresPlaced
<1> QED BY <1>1, <1>2, <1>3, <1>4, <1>5 DEF IInv

\* A database that is lost takes every row and every call with it.
LEMMA LossFacts ==
  ASSUME LoseDatabase
  PROVE  /\ rows' = [i \in Items |-> "none"] /\ purges' = [i \in Items |-> "none"]
         /\ restores' = [r \in Restores |-> NoRestore]
         /\ ledger' = ledger /\ erased' = erased
         /\ excused' = [items |-> excused.items \cup (erased \ ledger),
                        backups |-> excused.backups \cup stored]
BY Zenon DEF LoseDatabase

LEMMA PurgesMove ==
  ASSUME TypeOK, [Next]_vars, NEW i \in Items, purges'[i] # "none"
  PROVE  purges[i] # "none" \/ rows[i] = "whole"
<1>1. ASSUME purges' = purges PROVE purges[i] # "none"
  BY <1>1
<1>2. ASSUME NEW j \in Items, Capture(j) \/ PurgeStep(j) PROVE purges[i] # "none" \/ rows[i] = "whole"
  BY <1>2 DEF Capture, PurgeStep, DeleteBytes, MarkDeleted, PurgeItem, MirrorPurgeReceipt, PurgeGoesTo, TypeOK
<1>3. ASSUME NEW b \in Backups, BackupStep(b) PROVE purges' = purges
  BY <1>3
  DEF BackupStep, CreateHostedBackup, ReadTable, PutBackup, MarkVerifying, MarkComplete,
      BackupThrows, MarkFailed, DeleteFailed, BackupDies, ReadHostedBackup, FindExpired, canonical
<1>4. ASSUME CleanupStep \/ Lapse \/ UNCHANGED vars PROVE purges' = purges
  BY <1>4 DEF CleanupStep, DeleteExpired, MarkExpired, CleanupThrows, Lapse, vars, canonical
<1>5. ASSUME NEW r \in Restores, RestoreStep(r) PROVE purges' = purges
  BY <1>5
  DEF RestoreStep, BeginRestore, ReadReceipts, Plan, Planned, CheckTarget, RestoreReceipts, RestoreItemShell,
      RestoreItemChildren, RestoreDeferredReferences, Inserts, VerifyRestoredState, CompleteRestore,
      RestoreStops, canonical
<1>6. CASE LoseDatabase
  BY <1>6, LossFacts
<1> QED BY <1>1, <1>2, <1>3, <1>4, <1>5, <1>6 DEF Next

\* What a purge erases while a restore has it in its plan is excused.
LEMMA PurgeExcuses ==
  ASSUME ExcusedTyped, NEW i, PurgeItem(i)
  PROVE  /\ (\E r \in Restores : i \in restores[r].items) => i \in excused'.items
         /\ restores' = restores /\ rows' = [rows EXCEPT ![i] = "none"]
         /\ erased' = erased \cup {i} /\ i \in receipts'
<1>1. /\ restores' = restores /\ rows' = [rows EXCEPT ![i] = "none"]
      /\ erased' = erased \cup {i} /\ i \in receipts'
  BY DEF PurgeItem
<1>2. ASSUME \E r \in Restores : i \in restores[r].items PROVE i \in excused'.items
  <2>1. excused' = [excused EXCEPT !.items = excused.items \cup {i}]
    BY <1>2, Zenon DEF PurgeItem
  <2> QED BY <2>1 DEF ExcusedTyped
<1> QED BY <1>1, <1>2

LEMMA BackupsStep ==
  ASSUME TypeOK, ExcusedTyped, BackupsPlaced, [Next]_vars
  PROVE  BackupsPlaced'
<1> SUFFICES ASSUME NEW b \in Backups PROVE BackupPlaced(b)'
  BY DEF BackupsPlaced
<1>1. BackupMoves(b) /\ BackupPlaced(b) /\ backups[b] \in BackupRecord
  BY BackupsMove DEF BackupsPlaced, TypeOK
<1>2. excused.backups \subseteq excused'.backups /\ kept \subseteq kept'
  BY LedgersMove
<1> QED BY <1>1, <1>2 DEF BackupMoves, BackupPlaced, BackupRecord

LEMMA OnlyBornStep ==
  ASSUME TypeOK, ExcusedTyped, OnlyBorn, BackupsPlaced, RestoresPlaced, [Next]_vars
  PROVE  OnlyBorn'
<1>0. /\ born \subseteq born' /\ \A r \in Restores : RestoreMoves(r)
      /\ receipts \cup ledger \subseteq born
  BY LedgersMove, RestoresMove DEF TypeOK
<1>1. \A i \in Items : rows'[i] # "none" \/ purges'[i] # "none" => i \in born'
  <2> SUFFICES ASSUME NEW i \in Items, rows'[i] # "none" \/ purges'[i] # "none" PROVE i \in born'
    OBVIOUS
  <2>1. CASE purges'[i] # "none"
    BY <1>0, <2>1, PurgesMove DEF OnlyBorn
  <2>2. CASE rows'[i] # "none"
    <3>1. CASE PurgeItem(i) \/ LoseDatabase
      BY <2>2, <3>1, LossFacts, PurgeExcuses DEF TypeOK
    <3>2. CASE \E r \in Restores : i \in restores[r].left
      <4>1. PICK r \in Restores : i \in restores[r].left
        BY <3>2
      <4>2. restores[r].left \subseteq restores[r].items
        BY DEF RestoresPlaced, RestorePlaced, NoRestore
      <4> QED BY <1>0, <4>1, <4>2 DEF OnlyBorn
    <3> QED BY <1>0, <2>2, <3>1, <3>2, RowsMove DEF RowMoves, OnlyBorn
  <2> QED BY <2>1, <2>2
<1>2. \A b \in Backups, t \in Parts : backups'[b].envelope[t] \subseteq born'
  BY <1>0, EnvelopesMove
<1>3. \A r \in Restores : restores'[r].items \cup restores'[r].receipts \subseteq born'
  <2> SUFFICES ASSUME NEW r \in Restores PROVE restores'[r].items \cup restores'[r].receipts \subseteq born'
    OBVIOUS
  <2>0. restores[r] \in RestoreRecord /\ restores[r].items \cup restores[r].receipts \subseteq born
    BY DEF TypeOK, OnlyBorn
  <2>1. CASE restores'[r] = NoRestore
    BY <2>1 DEF NoRestore
  <2>2. CASE /\ restores[r].at = "plan"
             /\ restores'[r].receipts = PortableReceipts(r) \cup receipts
             /\ restores'[r].items = Envelope(r)["items"] \ restores'[r].receipts
    <3>1. restores[r].backup \in Backups
      BY <2>2 DEF RestoresPlaced, RestorePlaced, TypeOK
    <3> QED BY <1>0, <2>2, <3>1 DEF OnlyBorn, PortableReceipts, Envelope, Parts, Tables
  <2>3. CASE restores'[r] = Pass(r, "shells", restores[r].items) \/ InsertMoves(r)
    <3>1. restores'[r].items = restores[r].items /\ restores'[r].receipts = restores[r].receipts
      <4>1. PICK step \in {"shells", "children", "references"}, left \in SUBSET Items :
              restores'[r] = Pass(r, step, left)
        BY <2>0, <2>3 DEF InsertMoves, RestoreRecord
      <4>2. Pass(r, step, left).items = restores[r].items /\ Pass(r, step, left).receipts = restores[r].receipts
        BY PassRow
      <4> QED BY <4>1, <4>2
    <3> QED BY <1>0, <2>0, <3>1
  <2> QED BY <1>0, <2>0, <2>1, <2>2, <2>3 DEF RestoreMoves
<1> QED BY <1>1, <1>2, <1>3 DEF OnlyBorn

LEMMA KnownStep ==
  ASSUME TypeOK, ExcusedTyped, ErasedIsKnown, [Next]_vars
  PROVE  ErasedIsKnown'
<1>1. CASE LoseDatabase
  BY <1>1, LossFacts DEF ErasedIsKnown
<1>2. CASE ~LoseDatabase
  <2>1. \A i \in erased' \ erased : i \in receipts'
    BY LedgersMove, PurgeExcuses
  <2>2. receipts \subseteq receipts' /\ ledger \subseteq ledger' /\ excused.items \subseteq excused'.items
    BY <1>2, LedgersMove
  <2> QED BY <2>1, <2>2 DEF ErasedIsKnown
<1> QED BY <1>1, <1>2

\* While a restore has an item in its plan, its row only gains, or it is excused.
LEMMA PlannedRowGrows ==
  ASSUME TypeOK, ExcusedTyped, OnlyBorn, RestoresPlaced, [Next]_vars, ~LoseDatabase,
         NEW r \in Restores, restores[r].at \notin {"idle", "ledger"},
         NEW i \in restores[r].items, i \notin excused'.items
  PROVE  /\ i \in Items /\ i \notin erased' /\ Inserted(r, i)
         /\ rows[i] # "none" => rows'[i] # "none"
         /\ rows[i] \in {"children", "whole"} => rows'[i] \in {"children", "whole"}
         /\ rows[i] = "whole" => rows'[i] = "whole"
<1>1. i \in born /\ i \in Items
  BY DEF OnlyBorn, TypeOK
<1>2. excused.items \subseteq excused'.items
  BY LedgersMove
<1>3. i \notin erased /\ Inserted(r, i)
  BY <1>2 DEF RestoresPlaced, RestorePlaced
<1>4. ~PurgeItem(i)
  BY PurgeExcuses
<1>5. i \notin erased'
  BY <1>3, <1>4, LedgersMove
<1>6. RowMoves(i)
  BY <1>1, RowsMove
<1> QED BY <1>1, <1>3, <1>4, <1>5, <1>6 DEF RowMoves

\* What the pass of a restore leaves of its call.
LEMMA PassFacts ==
  ASSUME TypeOK, NEW r \in Restores, NEW step \in {"shells", "children", "references"},
         NEW left \in SUBSET Items, restores'[r] = Pass(r, step, left)
  PROVE  /\ restores'[r].backup = restores[r].backup /\ restores'[r].items = restores[r].items
         /\ left # {} => restores'[r].at = step /\ restores'[r].left = left
         /\ left = {} /\ step = "shells" =>
              /\ restores'[r].at = (IF restores[r].items = {} THEN "verify" ELSE "children")
              /\ restores'[r].left = restores[r].items
         /\ left = {} /\ step = "children" =>
              restores'[r].at = "references" /\ restores'[r].left = restores[r].items
         /\ left = {} /\ step = "references" => restores'[r].at = "verify" /\ restores'[r].left = {}
BY PassRow

LEMMA InsertStep ==
  ASSUME TypeOK, ExcusedTyped, OnlyBorn, RestoresPlaced, [Next]_vars, ~LoseDatabase,
         NEW r \in Restores, restores[r].at \notin {"idle", "ledger"}, InsertMoves(r)
  PROVE  /\ restores'[r].backup = restores[r].backup /\ restores'[r].items = restores[r].items
         /\ restores'[r].at \notin {"plan", "ledger", "target", "receipts"}
         /\ restores'[r].left \subseteq restores'[r].items
         /\ Envelope(r)' = Envelope(r) =>
              \A i \in restores[r].items \ excused'.items : i \notin erased' /\ Inserted(r, i)'
<1>0. /\ restores[r] \in RestoreRecord /\ RestorePlaced(r)
      /\ restores[r].left \subseteq restores[r].items /\ restores[r].items \subseteq Items
  BY DEF TypeOK, RestoresPlaced, RestorePlaced, RestoreRecord
<1>1. PICK j \in restores[r].left :
        /\ restores'[r] = Pass(r, restores[r].at, restores[r].left \ {j})
        /\ \/ restores[r].at = "shells" /\ rows'[j] = "shell"
           \/ /\ restores[r].at = "children"
              /\ rows'[j] = IF j \in Originals(r) THEN "children" ELSE "shell"
           \/ /\ restores[r].at = "references"
              /\ rows'[j] = IF rows[j] = "children" /\ j \in Envelope(r)["capture_events"]
                            THEN "whole" ELSE rows[j]
  BY DEF InsertMoves
<1> DEFINE left == restores[r].left \ {j}
           items == restores[r].items
<1>2. restores[r].at \in {"shells", "children", "references"} /\ left \in SUBSET Items
  BY <1>0, <1>1
<1>3. /\ restores'[r].backup = restores[r].backup /\ restores'[r].items = items
      /\ left # {} => restores'[r].at = restores[r].at /\ restores'[r].left = left
      /\ left = {} /\ restores[r].at = "shells" =>
           restores'[r].at = "children" /\ restores'[r].left = items
      /\ left = {} /\ restores[r].at = "children" =>
           restores'[r].at = "references" /\ restores'[r].left = items
      /\ left = {} /\ restores[r].at = "references" => restores'[r].at = "verify" /\ restores'[r].left = {}
  <2>1. restores'[r] = Pass(r, restores[r].at, left) /\ restores[r].items # {}
    BY <1>0, <1>1
  <2> HIDE DEF left, items
  <2>2. CASE restores[r].at = "shells"
    BY <1>2, <2>1, <2>2, PassFacts DEF items
  <2>3. CASE restores[r].at = "children"
    BY <1>2, <2>1, <2>3, PassFacts DEF items
  <2>4. CASE restores[r].at = "references"
    BY <1>2, <2>1, <2>4, PassFacts DEF items
  <2> QED BY <1>2, <2>2, <2>3, <2>4
<1>4. ASSUME Envelope(r)' = Envelope(r), NEW i \in items, i \notin excused'.items
      PROVE  i \notin erased' /\ Inserted(r, i)'
  <2>1. /\ i \notin erased' /\ Inserted(r, i)
        /\ rows[i] # "none" => rows'[i] # "none"
        /\ rows[i] \in {"children", "whole"} => rows'[i] \in {"children", "whole"}
        /\ rows[i] = "whole" => rows'[i] = "whole"
    BY <1>4, PlannedRowGrows
  <2>2. ReferencesHold(Envelope(r), items)
    BY <1>0 DEF RestorePlaced
  <2>3. CASE restores[r].at = "shells"
    BY <1>1, <1>3, <2>1, <2>3 DEF Inserted, Shelled, Filled, Linked
  <2>4. CASE restores[r].at = "children"
    BY <1>1, <1>3, <1>4, <2>1, <2>4 DEF Inserted, Shelled, Filled, Linked, Originals, Envelope
  <2>5. CASE restores[r].at = "references"
    BY <1>1, <1>3, <1>4, <2>1, <2>2, <2>5 DEF Inserted, Shelled, Filled, Linked, ReferencesHold
  <2> QED BY <1>2, <2>1, <2>3, <2>4, <2>5
<1> QED BY <1>0, <1>2, <1>3, <1>4

LEMMA RestoresStep ==
  ASSUME TypeOK, ExcusedTyped, OnlyBorn, BackupsPlaced, ErasedIsKnown, RestoresPlaced, [Next]_vars
  PROVE  RestoresPlaced'
<1>1. CASE LoseDatabase
  BY <1>1, LossFacts, NoRestoreRow DEF RestoresPlaced
<1>2. CASE ~LoseDatabase
  <2> SUFFICES ASSUME NEW r \in Restores, restores'[r] # NoRestore
               PROVE  restores'[r].at # "idle" /\ RestorePlaced(r)'
    BY NoRestoreRow DEF RestoresPlaced
  <2>0. /\ kept \subseteq kept' /\ kept \subseteq Backups
        /\ \A b \in kept : backups'[b].envelope = backups[b].envelope
        /\ RestoreMoves(r) /\ restores[r] \in RestoreRecord
        /\ restores[r].at = "idle" => restores[r] = NoRestore
        /\ restores[r].at # "idle" => RestorePlaced(r)
    BY LedgersMove, EnvelopesMove, RestoresMove DEF TypeOK, RestoresPlaced
  <2>1. CASE restores'[r] = restores[r]
    <3>1. restores[r].at # "idle" /\ RestorePlaced(r) /\ Envelope(r)' = Envelope(r)
      BY <2>0, <2>1 DEF RestorePlaced, Envelope
    <3>2. ASSUME restores[r].at # "ledger", NEW i \in restores[r].items, i \notin excused'.items
          PROVE  i \notin erased' /\ Inserted(r, i)'
      BY <1>2, <2>1, <3>1, <3>2, PlannedRowGrows DEF Inserted, Shelled, Filled, Linked
    <3>3. ASSUME restores[r].at = "ledger", NEW i \in restores[r].items, i \in erased', i \notin ledger'
          PROVE  i \in excused'.items
      <4>1. ledger \subseteq ledger' /\ excused.items \subseteq excused'.items /\ (i \in erased \/ PurgeItem(i))
        BY <3>3, LedgersMove
      <4> QED BY <3>1, <3>3, <4>1, PurgeExcuses DEF RestorePlaced
    <3> QED BY <2>0, <2>1, <3>1, <3>2, <3>3 DEF RestorePlaced
  <2>2. CASE /\ restores'[r].at = "plan" /\ restores'[r].items = {}
             /\ restores'[r].receipts = {} /\ restores'[r].left = {}
             /\ restores'[r].backup \in kept
    BY <2>0, <2>2 DEF RestorePlaced, ReferencesHold
  <2>2a. CASE /\ restores[r].at = "plan" /\ restores'[r].at = "ledger"
              /\ restores'[r].backup = restores[r].backup /\ restores'[r].left = restores[r].left
              /\ restores'[r].receipts = PortableReceipts(r) \cup receipts
              /\ restores'[r].items = Envelope(r)["items"] \ restores'[r].receipts
    <3>1. RestorePlaced(r) /\ restores'[r].left = {}
      BY <2>0, <2>2a DEF RestorePlaced
    <3>2. ASSUME NEW i \in restores'[r].items, i \in erased', i \notin ledger' PROVE i \in excused'.items
      <4>1. ~PurgeItem(i)
        BY <2>2a, PurgeExcuses
      <4>2. i \in erased /\ ledger \subseteq ledger' /\ excused.items \subseteq excused'.items
        BY <3>2, <4>1, LedgersMove
      <4> QED BY <2>2a, <3>2, <4>2 DEF ErasedIsKnown
    <3> QED BY <2>0, <2>2a, <3>1, <3>2 DEF RestorePlaced
  <2>3. CASE /\ restores[r].at = "ledger" /\ restores'[r].at = "target"
             /\ restores'[r].backup = restores[r].backup /\ restores'[r].left = restores[r].left
             /\ restores'[r].items = restores[r].items \ ledger
             /\ ReferencesHold(Envelope(r), restores'[r].items)
    <3>1. RestorePlaced(r) /\ Envelope(r)' = Envelope(r) /\ restores'[r].left = {}
      BY <2>0, <2>3 DEF RestorePlaced, Envelope
    <3>2. ASSUME NEW i \in restores'[r].items, i \notin excused'.items PROVE i \notin erased'
      <4>1. i \notin erased
        BY <2>3, <3>1, <3>2, LedgersMove DEF RestorePlaced
      <4>2. ~PurgeItem(i)
        BY <2>3, PurgeExcuses
      <4> QED BY <4>1, <4>2, LedgersMove
    <3> QED BY <2>0, <2>3, <3>1, <3>2 DEF RestorePlaced, Inserted, Shelled, Filled, Linked
  <2>4. CASE /\ <<restores[r].at, restores'[r].at>> \in {<<"target", "receipts">>, <<"verify", "verified">>}
             /\ restores'[r].backup = restores[r].backup /\ restores'[r].left = restores[r].left
             /\ restores'[r].receipts = restores[r].receipts /\ restores'[r].items = restores[r].items
    <3>1. /\ restores[r].at # "idle" /\ RestorePlaced(r) /\ Envelope(r)' = Envelope(r)
          /\ restores'[r].at \in {"receipts", "verified"}
          /\ restores'[r].at = "receipts" => restores'[r].left = {}
      BY <2>0, <2>4 DEF RestorePlaced, Envelope
    <3>2. ASSUME NEW i \in restores[r].items, i \notin excused'.items PROVE i \notin erased'
      BY <1>2, <2>4, <3>1, <3>2, PlannedRowGrows
    <3> QED BY <2>0, <2>4, <3>1, <3>2 DEF RestorePlaced, Inserted, Shelled, Filled, Linked
  <2>5. CASE restores[r].at = "receipts" /\ restores'[r] = Pass(r, "shells", restores[r].items)
    <3>0. restores[r].items \in SUBSET Items
      BY <2>0 DEF RestoreRecord
    <3>1. /\ RestorePlaced(r)
          /\ restores'[r].backup = restores[r].backup /\ restores'[r].items = restores[r].items
          /\ restores'[r].left = restores[r].items
          /\ restores'[r].at = IF restores[r].items = {} THEN "verify" ELSE "shells"
      BY <2>0, <2>5, <3>0, PassFacts
    <3>2. Envelope(r)' = Envelope(r)
      BY <2>0, <3>1 DEF RestorePlaced, Envelope
    <3>3. ASSUME NEW i \in restores[r].items, i \notin excused'.items PROVE i \notin erased'
      BY <1>2, <2>5, <3>3, PlannedRowGrows
    <3> QED BY <2>0, <2>5, <3>1, <3>2, <3>3 DEF RestorePlaced, Inserted, Shelled, Filled, Linked
  <2>6. CASE InsertMoves(r)
    <3>1. restores[r].at \notin {"idle", "ledger"} /\ RestorePlaced(r)
      BY <2>0, <2>6 DEF InsertMoves, NoRestore, RestorePlaced
    <3>2. /\ restores'[r].backup = restores[r].backup /\ restores'[r].items = restores[r].items
          /\ restores'[r].at \notin {"plan", "ledger", "target", "receipts"}
          /\ restores'[r].left \subseteq restores'[r].items
          /\ Envelope(r)' = Envelope(r) =>
               \A i \in restores[r].items \ excused'.items : i \notin erased' /\ Inserted(r, i)'
      BY <1>2, <2>6, <3>1, InsertStep
    <3>3. Envelope(r)' = Envelope(r)
      BY <2>0, <3>1, <3>2 DEF RestorePlaced, Envelope
    <3>4. restores'[r].at # "idle"
      BY <2>0, <2>6, PassFacts DEF InsertMoves, RestoreRecord
    <3> QED BY <2>0, <3>1, <3>2, <3>3, <3>4 DEF RestorePlaced
  <2> QED BY <2>0, <2>1, <2>2, <2>2a, <2>3, <2>4, <2>5, <2>6 DEF RestoreMoves
<1> QED BY <1>1, <1>2

LEMMA ResurrectionStep ==
  ASSUME IInv, [Next]_vars
  PROVE  NoResurrection'
<1>0. TypeOK /\ NoResurrection /\ ExcusedTyped /\ OnlyBorn /\ BackupsPlaced /\ RestoresPlaced
  BY DEF IInv, NoResurrection
<1>1. ExcusedTyped' /\ losses' \in 0 .. MaxLosses
  BY <1>0, LedgersMove
<1>2. CanonicalTyped' /\ ArtifactsTyped'
  BY <1>0, CanonicalType, ArtifactsType
<1>3. restores' \in [Restores -> RestoreRecord]
  BY <1>0, RestoresMove
<1>4. TypeOK'
  BY <1>1, <1>2, <1>3 DEF TypeOK, CanonicalTyped, ArtifactsTyped, ExcusedTyped
<1>5. ASSUME NEW i \in erased', i \notin excused'.items PROVE rows'[i] = "none"
  <2>0. i \in Items /\ i \in born'
    BY <1>4 DEF TypeOK
  <2>1. CASE LoseDatabase
    BY <2>0, <2>1, LossFacts
  <2>2. CASE PurgeItem(i)
    BY <1>0, <2>0, <2>2, PurgeExcuses DEF TypeOK
  <2>3. CASE ~LoseDatabase /\ ~PurgeItem(i)
    <3>1. i \in erased /\ i \in born /\ excused.items \subseteq excused'.items
      BY <1>0, <2>3, LedgersMove DEF TypeOK
    <3>2. rows[i] = "none"
      BY <1>0, <1>5, <3>1 DEF NoResurrection
    <3>3. ~\E r \in Restores : i \in restores[r].left
      <4> SUFFICES ASSUME NEW r \in Restores, i \in restores[r].left PROVE FALSE
        OBVIOUS
      <4>1. restores[r].at # "idle"
        BY <1>0 DEF RestoresPlaced, NoRestore
      <4>2. i \in restores[r].items /\ restores[r].at # "ledger"
        BY <1>0, <4>1 DEF RestoresPlaced, RestorePlaced
      <4> QED BY <1>0, <1>5, <2>3, <3>1, <4>1, <4>2, PlannedRowGrows DEF RestoresPlaced, RestorePlaced
    <3> QED BY <1>0, <2>0, <2>3, <3>1, <3>2, <3>3, RowsMove DEF RowMoves
  <2> QED BY <2>1, <2>2, <2>3
<1> QED BY <1>4, <1>5 DEF NoResurrection

LEMMA NextInv == IInv /\ [Next]_vars => IInv'
<1> SUFFICES ASSUME IInv, [Next]_vars PROVE IInv'
  OBVIOUS
<1>1. /\ TypeOK /\ ExcusedTyped /\ OnlyBorn /\ BackupsPlaced /\ ErasedIsKnown /\ RestoresPlaced
  BY DEF IInv, NoResurrection
<1>2. NoResurrection' /\ ExcusedTyped'
  BY <1>1, ResurrectionStep, LedgersMove
<1>3. OnlyBorn' /\ BackupsPlaced' /\ ErasedIsKnown' /\ RestoresPlaced'
  BY <1>1, OnlyBornStep, BackupsStep, KnownStep, RestoresStep
<1> QED BY <1>2, <1>3 DEF IInv

\* The inductive invariant behind backups and restores: a purge is remembered
\* by a receipt that every plan reads (restore.service.ts:105-131), a restore
\* works off its plan pass by pass, and an object is found by its row.
THEOREM Invariance == Spec => []IInv
<1>1. Init => IInv
  BY InitInv
<1>2. IInv /\ [Next]_vars => IInv'
  BY NextInv
<1> QED BY <1>1, <1>2, PTL DEF Spec

\* Every reachable state is well typed.
THEOREM TypeCorrect == Spec => []TypeOK
<1>1. IInv => TypeOK
  BY DEF IInv, NoResurrection
<1> QED BY <1>1, Invariance, PTL

\* A purged item does not come back with any restore
\* (restore.service.ts:105-131), unless one of the two premises excuses it.
THEOREM PurgedStaysGone == Spec => []NoResurrection
<1>1. IInv => NoResurrection
  BY DEF IInv
<1> QED BY <1>1, Invariance, PTL

\* A copy that outlived its retention is found again, wherever the call that
\* wrote it or the cleanup died (backup.service.ts:46-90).
THEOREM CopiesAreFound == Spec => []ForgottenByNobody
<1>1. IInv => ForgottenByNobody
  BY DEF IInv, NoResurrection, TypeOK, ForgottenByNobody, BackupsPlaced, BackupPlaced, BackupRecord
<1> QED BY <1>1, Invariance, PTL

-----------------------------------------------------------------------------
(* What a restore that verified its work vouches for.                      *)

LEMMA OnlyVerified ==
  ASSUME TypeOK, RestoresPlaced, [Next]_vars, NEW r \in Restores,
         restores[r].at = "verify", restores'[r].at = "verified"
  PROVE  VerifyRestoredState(r)
<1>1. ASSUME restores' = restores PROVE FALSE
  BY <1>1
<1>2. ASSUME NEW i \in Items, Capture(i) \/ PurgeStep(i) PROVE restores' = restores
  BY <1>2 DEF Capture, PurgeStep, DeleteBytes, MarkDeleted, PurgeItem, MirrorPurgeReceipt
<1>3. ASSUME NEW b \in Backups, BackupStep(b) PROVE restores' = restores
  BY <1>3
  DEF BackupStep, CreateHostedBackup, ReadTable, PutBackup, MarkVerifying, MarkComplete,
      BackupThrows, MarkFailed, DeleteFailed, BackupDies, ReadHostedBackup, FindExpired
<1>4. ASSUME CleanupStep \/ Lapse \/ UNCHANGED vars PROVE restores' = restores
  BY <1>4 DEF CleanupStep, DeleteExpired, MarkExpired, CleanupThrows, Lapse, vars
<1>5. CASE LoseDatabase
  BY <1>5, LossFacts, NoRestoreRow
<1>6. ASSUME NEW s \in Restores, RestoreStep(s) PROVE VerifyRestoredState(r)
  <2>1. r = s
    BY <1>6, CallMoves
  <2>2. restores'[r] # NoRestore
    BY NoRestoreRow
  <2> QED
    BY <1>6, <2>1, <2>2, NoRestoreRow
    DEF RestoreStep, BeginRestore, ReadReceipts, Plan, Planned, CheckTarget, RestoreReceipts, RestoreItemShell,
        RestoreItemChildren, RestoreDeferredReferences, Inserts, CompleteRestore, RestoreStops,
        Ended, TypeOK
<1> QED BY <1>1, <1>2, <1>3, <1>4, <1>5, <1>6 DEF Next

LEMMA ExactWhenVerified ==
  ASSUME IInv, NEW r \in Restores, VerifyRestoredState(r), restores'[r].at = "verified",
         restores[r].items \cap excused.items = {}
  PROVE  /\ RowsOf("items") = restores[r].items
         /\ restores[r].items \cap Envelope(r)["capture_events"] \subseteq RowsOf("capture_events")
<1>1. TypeOK /\ RestorePlaced(r) /\ restores[r].at = "verify"
  BY DEF IInv, NoResurrection, RestoresPlaced, VerifyRestoredState
<1>2. restores[r].items \subseteq Items
  BY <1>1 DEF TypeOK, RestoreRecord
<1>3. \A i \in restores[r].items : Inserted(r, i)
  BY <1>1 DEF RestorePlaced
<1>4. restores[r].items \subseteq RowsOf("items")
  BY <1>1, <1>2, <1>3 DEF Inserted, Shelled, RowsOf
<1>5. restores[r].items \cap Envelope(r)["capture_events"] \subseteq RowsOf("capture_events")
  BY <1>1, <1>2, <1>3 DEF Inserted, Linked, RowsOf
<1>6. Cardinality(RowsOf("items")) = Cardinality(restores[r].items)
  <2>1. restores'[r] # NoRestore
    BY NoRestoreRow
  <2> QED BY <1>1, <2>1 DEF VerifyRestoredState, Ended, TypeOK
<1>7. IsFiniteSet(RowsOf("items"))
  <2>1. RowsOf("items") \in SUBSET Items
    BY DEF RowsOf
  <2> QED BY <2>1, BackupAssumption, FS_Subset
<1> QED BY <1>4, <1>5, <1>6, <1>7, FS_Subset

\* A restore that verified its work left exactly its plan in the database
\* (restore.service.ts:122-175), whatever ran in between.
THEOREM ExactRestore == Spec => RestoreIsExact
<1> DEFINE Exact ==
      \A r \in Restores :
        LET plan == restores[r].items
            envelope == backups[restores[r].backup].envelope
        IN restores[r].at = "verify" /\ restores'[r].at = "verified" /\ plan \cap excused.items = {} =>
             /\ RowsOf("items") = plan
             /\ plan \cap envelope["capture_events"] \subseteq RowsOf("capture_events")
<1>1. IInv /\ [Next]_vars => [Exact]_vars
  <2> SUFFICES ASSUME IInv, [Next]_vars PROVE Exact
    OBVIOUS
  <2>1. TypeOK /\ RestoresPlaced
    BY DEF IInv, NoResurrection
  <2> QED BY <2>1, OnlyVerified, ExactWhenVerified DEF Envelope
<1>2. [][Exact]_vars => RestoreIsExact
  BY PTL DEF RestoreIsExact
<1> QED BY <1>1, <1>2, Invariance, PTL DEF Spec
================================================================================
