---- MODULE NotionSync ----
(***************************************************************************)
(* The projection of items into Notion: the trigger that numbers an item's *)
(* projections, the rows of sync_attempts, the runs of sync.worker.ts over *)
(* them, the owner's retry and recreation, and as much of a purge as       *)
(* touches a page.                                                         *)
(*                                                                         *)
(* A run is one iteration of the worker's loop: it has leased an attempt,  *)
(* reads the item, talks to Notion and writes the outcome, one statement   *)
(* or one request at a time.  An attempt becomes due and a lease lapses at *)
(* any time.  Notion is external: a request has its effect before the      *)
(* client gives up on it or not at all, and a query sees every page that   *)
(* exists.                                                                 *)
(***************************************************************************)
EXTENDS Naturals, FiniteSets

CONSTANTS
  Items,            \* rows of items
  Pages,            \* ids Notion can give to a page
  Attempts,         \* ids a row of sync_attempts can get
  Runs,             \* iterations of the worker in flight
  MaxVersion,       \* bound of items.projection_version
  MaxAttempts,      \* attempts before a retryable failure is final
  MaxManualRetries,
  MaxFaults,        \* bound of dead runs and of leases lapsing under a run
  None

ASSUME SyncAssumption ==
  /\ None \notin Items \cup Pages \cup Attempts \cup Runs
  /\ MaxVersion \in Nat /\ MaxManualRetries \in Nat /\ MaxFaults \in Nat
  /\ MaxAttempts \in Nat \ {0}

VARIABLES
  items,     \* the columns of items the projection uses
  attempts,  \* sync_attempts, destination notion
  runs,      \* iterations of processNotionSyncJobs
  pages,     \* the pages in the Notion database
  faults,
  overtaken, \* history: a run went on after its attempt was no longer its own
  dropped,   \* history: a run died, or its item was deleted, before it re-enqueued
  unseen     \* history: a purge found no link to a page that there is

vars == <<items, attempts, runs, pages, faults, overtaken, dropped, unseen>>

\* synced: projection_hash is set.  purge: the next purge step that concerns Notion.
ItemRecord ==
  [state : {"live", "deleted", "gone"}, scheduled : BOOLEAN,
   version : 0 .. MaxVersion, synced : BOOLEAN,
   page : Pages \cup {None}, missing : BOOLEAN,
   approving : BOOLEAN, purge : {"none", "freeze", "archive", "erase", "done"}]

NewItem ==
  [state |-> "live", scheduled |-> FALSE, version |-> 0, synced |-> FALSE,
   page |-> None, missing |-> FALSE, approving |-> FALSE, purge |-> "none"]

GoneItem == [NewItem EXCEPT !.state = "gone", !.purge = "done"]

AttemptRecord ==
  [item : Items \cup {None},
   status : {"absent", "pending", "processing", "complete", "failed", "erased"},
   tries : 0 .. MaxAttempts, retries : 0 .. MaxManualRetries,
   code : {"none", "missing", "superseded", "other"},
   owner : Runs \cup {None}, lapsed : BOOLEAN, retrying : BOOLEAN]

AbsentAttempt ==
  [item |-> None, status |-> "absent", tries |-> 0, retries |-> 0, code |-> "none",
   owner |-> None, lapsed |-> FALSE, retrying |-> FALSE]

\* page and version: what the run has read of the item, or the page it has found
\* or made since.
RunRecord ==
  [phase : {"idle", "read", "query", "update", "create", "persist", "complete",
            "requeue", "missing", "retry", "fail"},
   attempt : Attempts \cup {None}, item : Items \cup {None}, version : 0 .. MaxVersion,
   page : Pages \cup {None}, code : {"none", "missing", "other"}]

IdleRun ==
  [phase |-> "idle", attempt |-> None, item |-> None, version |-> 0, page |-> None,
   code |-> "none"]

PageRecord ==
  [item : Items \cup {None}, state : {"absent", "live", "gone"}, version : 0 .. MaxVersion]

Gone(page) == [page EXCEPT !.state = "gone", !.version = 0]

AbsentPage == [item |-> None, state |-> "absent", version |-> 0]

\* Rows, runs and pages are well formed; exactly the leased attempts have an owner.
TypeOK ==
  /\ items \in [Items -> ItemRecord]
  /\ attempts \in [Attempts -> AttemptRecord]
  /\ \A a \in Attempts : attempts[a].owner # None <=> attempts[a].status = "processing"
  /\ runs \in [Runs -> RunRecord]
  /\ pages \in [Pages -> PageRecord]
  /\ faults \in 0 .. MaxFaults
  /\ overtaken \in BOOLEAN /\ dropped \in BOOLEAN /\ unseen \in BOOLEAN

Init ==
  /\ items = [i \in Items |-> NewItem]
  /\ attempts = [a \in Attempts |-> AbsentAttempt]
  /\ runs = [r \in Runs |-> IdleRun]
  /\ pages = [p \in Pages |-> AbsentPage]
  /\ faults = 0
  /\ overtaken = FALSE
  /\ dropped = FALSE
  /\ unseen = FALSE

-----------------------------------------------------------------------------
(* The rows of sync_attempts.                                              *)

Active(a) == attempts[a].status \in {"pending", "processing"}

ActiveOf(i) == {a \in Attempts : Active(a) /\ attempts[a].item = i}

\* Ids are fresh UUIDs: any unused one will do.
Room == \E a \in Attempts : attempts[a].status = "absent"

WithAttempt(rows, i) ==
  [rows EXCEPT ![CHOOSE a \in Attempts : attempts[a].status = "absent"] =
     [AbsentAttempt EXCEPT !.item = i, !.status = "pending"]]

\* INSERT ... WHERE NOT EXISTS an active attempt of the item.
Enqueued(i, rows) ==
  IF ActiveOf(i) # {} THEN rows = attempts
  ELSE Room /\ rows = WithAttempt(attempts, i)

\* The end of a hold.  Only a failed row is read again: its counters and its code.
Ended(attempt, status, code) ==
  IF status = "complete" \/ code = "superseded"
  THEN [AbsentAttempt EXCEPT !.item = attempt.item, !.status = status, !.code = code]
  ELSE [attempt EXCEPT !.status = status, !.owner = None, !.lapsed = FALSE,
                       !.code = IF status = "failed" THEN code ELSE "none"]

\* A statement that fails the active attempts of an item.
FailedAll(i, code) ==
  [a \in Attempts |->
     IF a \in ActiveOf(i) THEN Ended(attempts[a], "failed", code) ELSE attempts[a]]

-----------------------------------------------------------------------------
(* Capture, edits and the owner.                                           *)

ScheduleSync(i) ==
  /\ ~items[i].scheduled
  /\ items[i].state # "gone"
  /\ Enqueued(i, attempts')
  /\ items' = [items EXCEPT ![i].scheduled = TRUE]
  /\ UNCHANGED <<runs, pages, faults, overtaken, dropped, unseen>>

\* Whatever changes a projected column of a live item: an owner edit, an enrichment,
\* a new processing status.
ChangeProjection(i) ==
  /\ items[i].state = "live"
  /\ items[i].version < MaxVersion
  /\ items' = [items EXCEPT ![i].version = @ + 1, ![i].synced = FALSE]
  /\ Enqueued(i, attempts')
  /\ UNCHANGED <<runs, pages, faults, overtaken, dropped, unseen>>

\* deleted_at is not a projected column.  A restore during a purge is in Purge.
SetDeleted(i, state) ==
  /\ items[i].purge = "none"
  /\ items[i].state \in {"live", "deleted"} \ {state}
  /\ items' = [items EXCEPT ![i].state = state]
  /\ UNCHANGED <<attempts, runs, pages, faults, overtaken, dropped, unseen>>

\* manuallyRetrySyncAttempt checks the attempt and its item ...
CheckRetry(a) ==
  /\ attempts[a].status = "failed" /\ ~attempts[a].retrying
  /\ attempts[a].code \notin {"superseded", "missing"}
  /\ items[attempts[a].item].state = "live"
  /\ ~items[attempts[a].item].missing
  /\ attempts[a].retries < MaxManualRetries
  /\ attempts' = [attempts EXCEPT ![a].retrying = TRUE]
  /\ UNCHANGED <<items, runs, pages, faults, overtaken, dropped, unseen>>

\* ... and its UPDATE looks at the attempt alone, whose count is as it was read.
ManuallyRetrySync(a) ==
  /\ attempts[a].status = "failed" /\ attempts[a].retrying
  /\ attempts[a].retries < MaxManualRetries
  /\ ActiveOf(attempts[a].item) = {}  \* idx_sync_attempts_active_unique
  /\ attempts' = [attempts EXCEPT ![a].status = "pending", ![a].code = "none",
                                  ![a].retries = @ + 1, ![a].retrying = FALSE]
  /\ UNCHANGED <<items, runs, pages, faults, overtaken, dropped, unseen>>

\* approveNotionRecreation checks that the page is missing ...
CheckRecreation(i) ==
  /\ items[i].state = "live" /\ items[i].missing /\ items[i].page # None
  /\ ~items[i].approving
  /\ items' = [items EXCEPT ![i].approving = TRUE]
  /\ UNCHANGED <<attempts, runs, pages, faults, overtaken, dropped, unseen>>

\* ... and its batch, which repeats none of that, drops the link, supersedes the
\* active attempt and inserts a new one; the foreign key refuses it once the item
\* is gone.
ApproveRecreation(i) ==
  /\ items[i].approving
  /\ \/ /\ items[i].state # "gone"
        /\ items' = [items EXCEPT ![i].approving = FALSE, ![i].page = None,
                                  ![i].missing = FALSE]
        /\ Room /\ attempts' = WithAttempt(FailedAll(i, "superseded"), i)
     \/ /\ items' = [items EXCEPT ![i].approving = FALSE]
        /\ UNCHANGED attempts
  /\ UNCHANGED <<runs, pages, faults, overtaken, dropped, unseen>>

-----------------------------------------------------------------------------
(* Notion.                                                                 *)

Live(i) == {p \in Pages : pages[p].state = "live" /\ pages[p].item = i}

NewPage ==
  IF \E p \in Pages : pages[p].state = "absent"
  THEN CHOOSE p \in Pages : pages[p].state = "absent" ELSE None

\* Somebody deletes a page by hand.
DeletePage(p) ==
  /\ pages[p].state = "live"
  /\ pages' = [pages EXCEPT ![p] = Gone(@)]
  /\ UNCHANGED <<items, attempts, runs, faults, overtaken, dropped, unseen>>

-----------------------------------------------------------------------------
(* A run.                                                                  *)

\* The guard of every write to an attempt: owner, status and an unexpired lease.
Holds(r) ==
  LET attempt == attempts[runs[r].attempt]
  IN attempt.status = "processing" /\ attempt.owner = r /\ ~attempt.lapsed

StillOwner(r) ==
  LET attempt == attempts[runs[r].attempt]
  IN attempt.status = "processing" /\ attempt.owner = r

\* The history: a step of a run that somebody else has put out of office.
Acts(r) == overtaken' = (overtaken \/ ~StillOwner(r))

Goes(r, phase) == runs' = [runs EXCEPT ![r].phase = phase]

\* What a run goes on to need: nothing of the item's content after a failure.
Fails(r, phase, code) ==
  runs' = [runs EXCEPT ![r] =
             [@ EXCEPT !.phase = phase, !.code = code, !.version = 0, !.page = None]]

\* A request without effect: refused for good, or worth another attempt.
RequestFails(r) == \E outcome \in {"retry", "fail"} : Fails(r, outcome, "other")

Completes(r) == runs' = [runs EXCEPT ![r].phase = "complete", ![r].page = None]

Ends(r) == runs' = [runs EXCEPT ![r] = IdleRun]

Working(r, a) == runs[r].phase # "idle" /\ runs[r].attempt = a

\* Every invocation has a fresh owner id: any idle run will do.
FreeRun ==
  IF \E r \in Runs : runs[r].phase = "idle"
  THEN CHOOSE r \in Runs : runs[r].phase = "idle" ELSE None

LeaseSyncAttempt(r, a) ==
  /\ r = FreeRun
  /\ \/ attempts[a].status = "pending"
     \/ attempts[a].status = "processing" /\ attempts[a].lapsed
  /\ attempts' = [attempts EXCEPT ![a].status = "processing", ![a].owner = r,
                                  ![a].lapsed = FALSE]
  /\ runs' = [runs EXCEPT ![r] = [IdleRun EXCEPT !.phase = "read", !.attempt = a,
                                                 !.item = attempts[a].item]]
  /\ UNCHANGED <<items, pages, faults, overtaken, dropped, unseen>>

\* A deleted item, or one that is gone, fails the attempt for good.
ReadItem(r) ==
  /\ runs[r].phase = "read"
  /\ LET i == runs[r].item
     IN IF items[i].state = "live"
        THEN runs' = [runs EXCEPT ![r].version = items[i].version,
                        ![r].page = items[i].page,
                        ![r].phase = IF items[i].page = None THEN "query" ELSE "update"]
        ELSE Fails(r, "fail", "other")
  /\ UNCHANGED <<items, attempts, pages, faults, overtaken, dropped, unseen>>

\* Faulty variant: no query before the page is created.
QueryNothing(r) ==
  /\ runs[r].phase = "query"
  /\ Goes(r, "create")
  /\ UNCHANGED <<items, attempts, pages, faults, overtaken, dropped, unseen>>

\* findPagesByCaptureId: adopt the page there is, refuse to choose among several.
QueryPages(r) ==
  /\ runs[r].phase = "query"
  /\ \/ Live(runs[r].item) = {} /\ Goes(r, "create")
     \/ /\ Cardinality(Live(runs[r].item)) = 1
        /\ \E p \in Live(runs[r].item) :
             runs' = [runs EXCEPT ![r].page = p, ![r].phase = "update"]
     \/ Cardinality(Live(runs[r].item)) > 1 /\ Fails(r, "fail", "other")
     \/ RequestFails(r)
  /\ UNCHANGED <<items, attempts, pages, faults, overtaken, dropped, unseen>>

\* PATCH of a page.  An error may reach the worker after the page has changed; a page
\* that is gone is answered with 404, or with 400 when it is archived.
UpdatePage(r) ==
  /\ runs[r].phase = "update"
  /\ LET p == runs[r].page
     IN \/ /\ pages[p].state = "live"
           /\ pages' = [pages EXCEPT ![p].version = runs[r].version]
           /\ Goes(r, "persist") \/ Fails(r, "retry", "other")
        \/ /\ pages[p].state = "gone"
           /\ Fails(r, "missing", "none") \/ Fails(r, "fail", "other")
           /\ UNCHANGED pages
        \/ /\ RequestFails(r)
           /\ UNCHANGED pages
  /\ Acts(r)
  /\ UNCHANGED <<items, attempts, faults, dropped, unseen>>

\* POST of a page, whose answer may get lost.
CreatePage(r) ==
  /\ runs[r].phase = "create"
  /\ \/ /\ NewPage # None
        /\ pages' = [pages EXCEPT ![NewPage] = [item |-> runs[r].item, state |-> "live",
                                                version |-> runs[r].version]]
        /\ \/ runs' = [runs EXCEPT ![r].page = NewPage, ![r].phase = "persist"]
           \/ Fails(r, "retry", "other")
     \/ /\ RequestFails(r)
        /\ UNCHANGED pages
  /\ Acts(r)
  /\ UNCHANGED <<items, attempts, faults, dropped, unseen>>

\* Faulty variant: the hash is stored whatever version the row has by now.
PersistAnyVersion(r) ==
  /\ runs[r].phase = "persist"
  /\ LET i == runs[r].item
     IN IF items[i].state # "gone" /\ items[i].page \in {None, runs[r].page}
        THEN /\ items' = [items EXCEPT ![i].page = runs[r].page, ![i].missing = FALSE,
                            ![i].synced = TRUE]
             /\ Completes(r)
        ELSE /\ Fails(r, "fail", "other")
             /\ UNCHANGED items
  /\ Acts(r)
  /\ UNCHANGED <<attempts, pages, faults, dropped, unseen>>

\* Faulty variant: a found page is stored without clearing the missing mark.
PersistStillMissing(r) ==
  /\ runs[r].phase = "persist"
  /\ LET i == runs[r].item
     IN IF items[i].state # "gone"
        THEN /\ items' = [items EXCEPT ![i].page = runs[r].page,
                            ![i].synced = (items[i].version = runs[r].version)]
             /\ Completes(r)
        ELSE /\ Fails(r, "fail", "other")
             /\ UNCHANGED items
  /\ Acts(r)
  /\ UNCHANGED <<attempts, pages, faults, dropped, unseen>>

\* The UPDATE that stores the link; the item may have been deleted, changed or purged
\* since it was read.
PersistPage(r) ==
  /\ runs[r].phase = "persist"
  /\ LET i == runs[r].item
     IN IF items[i].state # "gone" /\ items[i].page \in {None, runs[r].page}
        THEN /\ items' = [items EXCEPT ![i].page = runs[r].page, ![i].missing = FALSE,
                            ![i].synced = (items[i].version = runs[r].version)]
             /\ Completes(r)
        ELSE /\ Fails(r, "fail", "other")
             /\ UNCHANGED items
  /\ Acts(r)
  /\ UNCHANGED <<attempts, pages, faults, dropped, unseen>>

\* completeSyncAttempt; without the lease nothing is written and nothing re-enqueued.
CompleteSyncAttempt(r) ==
  /\ runs[r].phase = "complete"
  /\ IF Holds(r)
     THEN /\ attempts' = [attempts EXCEPT ![runs[r].attempt] = Ended(@, "complete", "none")]
          /\ Goes(r, "requeue")
     ELSE Ends(r) /\ UNCHANGED attempts
  /\ UNCHANGED <<items, pages, faults, overtaken, dropped, unseen>>

\* Faulty variant: nothing is enqueued after the completion.
RequeueNothing(r) ==
  /\ runs[r].phase = "requeue"
  /\ Ends(r)
  /\ UNCHANGED <<items, attempts, pages, faults, overtaken, dropped, unseen>>

\* What changed while the attempt was active could not be enqueued by the trigger.  A
\* change of an item deleted since then is not enqueued here, nor when it is restored.
RequeueSync(r) ==
  /\ runs[r].phase = "requeue"
  /\ LET i == runs[r].item
     IN /\ IF items[i].state = "live" /\ items[i].version > runs[r].version
           THEN Enqueued(i, attempts')
           ELSE UNCHANGED attempts
        /\ dropped' = (dropped \/ items[i].state = "deleted")
  /\ Ends(r)
  /\ UNCHANGED <<items, pages, faults, overtaken, unseen>>

\* After a 404: the item is marked, whatever its link is by now.
MarkMissing(r) ==
  /\ runs[r].phase = "missing"
  /\ items' = [items EXCEPT ![runs[r].item].missing = items[runs[r].item].state # "gone"]
  /\ Fails(r, "fail", "missing")
  /\ Acts(r)
  /\ UNCHANGED <<attempts, pages, faults, dropped, unseen>>

\* failSyncAttempt, after which the next attempt of the batch is taken.
FailSyncAttempt(r) ==
  /\ runs[r].phase \in {"retry", "fail"}
  /\ LET a == runs[r].attempt
         tries == attempts[a].tries + 1
         again == runs[r].phase = "retry" /\ tries < MaxAttempts
     IN IF Holds(r)
        THEN attempts' = [attempts EXCEPT ![a] =
               [Ended(@, IF again THEN "pending" ELSE "failed", runs[r].code)
                  EXCEPT !.tries = IF tries > MaxAttempts THEN MaxAttempts ELSE tries]]
        ELSE UNCHANGED attempts
  /\ Ends(r)
  /\ UNCHANGED <<items, pages, faults, overtaken, dropped, unseen>>

\* The invocation ends, or a statement throws once the attempt is no longer held.
RunDies(r) ==
  /\ runs[r].phase # "idle"
  /\ faults < MaxFaults
  /\ faults' = faults + 1
  /\ dropped' = (dropped \/ runs[r].phase = "requeue")
  /\ Ends(r)
  /\ UNCHANGED <<items, attempts, pages, overtaken, unseen>>

\* A statement throws inside the try block: SYNC_INTERNAL_ERROR, which is retryable.
\* At the re-enqueueing the attempt is complete and the failure finds nothing to do.
RunThrows(r) ==
  /\ runs[r].phase \in {"read", "persist", "complete", "requeue"}
  /\ faults < MaxFaults
  /\ faults' = faults + 1
  /\ dropped' = (dropped \/ runs[r].phase = "requeue")
  /\ Fails(r, "retry", "other")
  /\ UNCHANGED <<items, attempts, pages, overtaken, unseen>>

Lapse(a) ==
  /\ attempts[a].status = "processing" /\ ~attempts[a].lapsed
  /\ attempts' = [attempts EXCEPT ![a].lapsed = TRUE]
  /\ UNCHANGED <<items, runs, pages, overtaken, dropped, unseen>>

AbandonedLeaseLapses(a) ==
  Lapse(a) /\ ~Working(attempts[a].owner, a) /\ UNCHANGED faults

\* The run that holds the attempt is slow: a batch of 25 items shares two minutes.
LeaseLapses(a) ==
  /\ Lapse(a) /\ Working(attempts[a].owner, a)
  /\ faults < MaxFaults /\ faults' = faults + 1

-----------------------------------------------------------------------------
(* A purge, as far as it concerns Notion.                                  *)

\* The owner confirms the purge of a deleted item.
StartPurge(i) ==
  /\ items[i].purge = "none" /\ items[i].state = "deleted"
  /\ items' = [items EXCEPT ![i].purge = "freeze"]
  /\ UNCHANGED <<attempts, runs, pages, faults, overtaken, dropped, unseen>>

FreezeItemWork(i) ==
  /\ items[i].purge = "freeze"
  /\ attempts' = FailedAll(i, "other")
  /\ items' = [items EXCEPT ![i].purge = "archive"]
  /\ UNCHANGED <<runs, pages, faults, overtaken, dropped, unseen>>

\* archiveProjection: not_linked without a link, else the page is archived; a page that
\* is gone already counts as archived.  An error leaves the step to be taken again.
ArchiveProjection(i) ==
  /\ items[i].purge = "archive"
  /\ items' = [items EXCEPT ![i].purge = "erase"]
  /\ IF items[i].page = None THEN UNCHANGED pages
     ELSE pages' = [pages EXCEPT ![items[i].page] = Gone(@)]
  /\ unseen' = (unseen \/ (items[i].page = None /\ Live(i) # {}))
  /\ UNCHANGED <<attempts, runs, faults, overtaken, dropped>>

\* The canonical batch: the item goes, with its attempts.
PurgeItem(i) ==
  /\ items[i].purge = "erase"
  /\ attempts' = [a \in Attempts |->
       IF attempts[a].item = i THEN [AbsentAttempt EXCEPT !.status = "erased"]
       ELSE attempts[a]]
  /\ items' = [items EXCEPT ![i] = GoneItem]
  /\ UNCHANGED <<runs, pages, faults, overtaken, dropped, unseen>>

-----------------------------------------------------------------------------
Owner ==
  \E i \in Items :
    \/ ScheduleSync(i) \/ ChangeProjection(i)
    \/ SetDeleted(i, "deleted") \/ SetDeleted(i, "live")
    \/ CheckRecreation(i) \/ ApproveRecreation(i)
    \/ StartPurge(i)

PurgeStep == \E i \in Items : FreezeItemWork(i) \/ ArchiveProjection(i) \/ PurgeItem(i)

Advance(r) ==
  \/ ReadItem(r) \/ QueryPages(r) \/ UpdatePage(r) \/ CreatePage(r) \/ PersistPage(r)
  \/ CompleteSyncAttempt(r) \/ RequeueSync(r) \/ MarkMissing(r) \/ FailSyncAttempt(r)

Next ==
  \/ Owner
  \/ PurgeStep
  \/ \E a \in Attempts : CheckRetry(a) \/ ManuallyRetrySync(a) \/ AbandonedLeaseLapses(a) \/ LeaseLapses(a)
  \/ \E p \in Pages : DeletePage(p)
  \/ \E r \in Runs : Advance(r) \/ RunDies(r) \/ RunThrows(r)
  \/ \E r \in Runs, a \in Attempts : LeaseSyncAttempt(r, a)

Spec == Init /\ [][Next]_vars

-----------------------------------------------------------------------------
(* Properties.                                                             *)

\* All is well typed, and as long as no run goes on without its attempt, an item has at
\* most one page in Notion, none but the linked one once it has a link, and none at all
\* once it is purged: answers that got lost, pages deleted by hand and approved recreations
\* included (syncItem, approveNotionRecreation, archiveProjection).  Excused are the pages a
\* purge could not know of, since their link was never stored.
OnePage ==
  /\ TypeOK
  /\ ~overtaken => \A i \in Items :
       /\ Cardinality(Live(i)) <= 1
       /\ items[i].page # None => Live(i) \subseteq {items[i].page}
       /\ items[i].state = "gone" => Live(i) = {} \/ unseen

\* An item that has left capture and whose page lags behind its row has work in sight:
\* an active attempt, a run about to enqueue one, or a failed attempt the owner is shown.
\* Neither an edit during a sync nor a failure loses the update (sync.worker.ts:178).
NoUpdateLost ==
  ~overtaken /\ ~dropped => \A i \in Items :
    (items[i].state = "live" /\ items[i].scheduled /\ ~items[i].synced /\ items[i].purge = "none")
      => \/ ActiveOf(i) # {}
         \/ \E a \in Attempts : attempts[a].item = i /\ attempts[a].status = "failed"
         \/ \E r \in Runs : runs[r].phase = "requeue" /\ runs[r].item = i

\* A row with a projection hash has a page that shows the row's version, unless somebody
\* deleted the page; the CASE of the persisting UPDATE and the trigger keep it so.
SyncedIsShown ==
  ~overtaken => \A i \in Items :
    items[i].synced /\ items[i].page \in Live(i)
      => pages[items[i].page].version = items[i].version

\* A page the owner is asked to recreate is not there: no item with a live linked page
\* is marked missing (notion_missing_at).
MissingIsGone ==
  ~overtaken => \A i \in Items : items[i].missing => items[i].page \notin Live(i)
====
