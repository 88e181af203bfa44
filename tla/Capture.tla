-------------------------------- MODULE Capture --------------------------------
(***************************************************************************)
(* Saving a capture: the text and file forms of the web client, the iOS    *)
(* Shortcut, the handlers that serve them and the cleanup of attachments.  *)
(*                                                                         *)
(* Every submission has an idempotency key of its own. A form or a         *)
(* Shortcut keeps it until the server confirmed it, and sends the same     *)
(* request again when it does not know the outcome. A file travels in four *)
(* requests (init, PUT of the bytes, finalize, capture) under a            *)
(* reservation that expires; the Shortcut sends everything in one request  *)
(* and the server makes a reservation for each.                            *)
(*                                                                         *)
(* A request is served in steps, one for each await that touches D1 or R2, *)
(* and it is served to its end whether or not the client still waits. Its  *)
(* Worker may be evicted at any step, and a statement may fail, or commit  *)
(* and lose its answer.                                                    *)
(*                                                                         *)
(* The texts of the model are one text, so that two text captures are      *)
(* duplicates of each other; a file has no deduplication key.              *)
(***************************************************************************)
EXTENDS Naturals, FiniteSets

CONSTANTS
  Keys,         \* idempotency keys: one submission each
  Attachments,  \* upload reservations
  Requests,     \* requests the server can be serving at once
  MaxRemoved,   \* bound of the attachments an operator deletes
  None,         \* no key, no reservation, no request
  Mixes         \* which kinds of submission are made: functions of Keys

Kinds == {"text", "file", "shortcut", "none"}

ASSUME CaptureAssumption ==
  /\ Mixes \subseteq [Keys -> Kinds]
  /\ None \notin Keys \cup Attachments \cup Requests
  /\ MaxRemoved \in Nat

VARIABLES
  kind,      \* the kind of each submission; "none" is never submitted
  clients,   \* the form or the Shortcut that holds each submission
  requests,  \* the requests being served
  events,    \* capture_events by idempotency key, with the items they made
  holder,    \* item_deduplication_keys: whose item holds the text
  jobs,      \* times processing was scheduled for the item of a key
  rows,      \* attachments
  objects,   \* the R2 objects, named by the row they belong to
  expired,   \* reservations past their expires_at
  cleaner,   \* the scheduled cleanup of expired attachments
  removed,   \* attachments whose object the operator's DELETE has removed
  excused    \* history: attachments one of the premises below is about

vars == <<kind, clients, requests, events, holder, jobs, rows, objects,
          expired, cleaner, removed, excused>>
server == <<events, holder, jobs, rows, objects, expired, cleaner, removed, excused>>

-----------------------------------------------------------------------------
(* Records *)

\* next is the request a form sends next, reservation the key of its upload,
\* attachment the id it got back; error is the last message, offers the
\* "Restart expired upload" button.
NewClient ==
  [phase |-> "form", next |-> "capture", reservation |-> None,
   attachment |-> None, request |-> None, error |-> "none", offers |-> FALSE]

ClientRecord ==
  [phase : {"form", "ready", "waiting", "stopped", "saved", "discarded"},
   next : {"status", "init", "put", "finalize", "capture", "shortcut"},
   reservation : Attachments \cup {None}, attachment : Attachments \cup {None},
   request : Requests \cup {None},
   error : {"none", "expired", "unavailable", "conflict", "failed"},
   offers : BOOLEAN]

\* fresh: the attachment had not expired when the handler read the clock;
\* duplicateOf: the key whose item it found for the text; answer: what a
\* Shortcut request will answer once it has discarded its attachment.
Idle ==
  [op |-> "idle", at |-> "idle", key |-> None, attachment |-> None,
   fresh |-> TRUE, duplicateOf |-> None, answer |-> "failed"]

RequestRecord ==
  [op : {"idle", "init", "put", "finalize", "capture", "shortcut"},
   at : {"idle", "init", "read", "store", "mark", "lookup", "duplicate",
         "require", "create", "raced", "schedule", "reserve", "discard",
         "orphan"},
   key : Keys \cup {None}, attachment : Attachments \cup {None},
   fresh : BOOLEAN, duplicateOf : Keys \cup {None},
   answer : {"saved", "conflict", "expired", "failed"}]

\* print is the request fingerprint: the part of it that can differ between
\* two requests of one key is the attachment id, which a Shortcut leaves out.
NoEvent == [stored |-> FALSE, item |-> None, attachment |-> None, print |-> None]

EventRecord ==
  [stored : BOOLEAN, item : Keys \cup {None},
   attachment : Attachments \cup {None}, print : Attachments \cup {None}]

NoRow == [status |-> "absent", item |-> None]

RowRecord ==
  [status : {"absent", "pending", "uploaded", "finalized", "linked", "orphaned",
             "deleted"},
   item : Keys \cup {None}]

NoCleanup == [at |-> "idle", attachment |-> None]

Init ==
  /\ kind \in Mixes
  /\ clients = [k \in Keys |-> NewClient]
  /\ requests = [r \in Requests |-> Idle]
  /\ events = [k \in Keys |-> NoEvent]
  /\ holder = None
  /\ jobs = [k \in Keys |-> 0]
  /\ rows = [a \in Attachments |-> NoRow]
  /\ objects = {}
  /\ expired = {}
  /\ cleaner = NoCleanup
  /\ removed = {}
  /\ excused = {}

-----------------------------------------------------------------------------
(* The clients *)

\* UUIDs nobody has used yet.
Unused ==
  {a \in Attachments : /\ rows[a] = NoRow
                       /\ \A k \in Keys : clients[k].reservation /= a
                       /\ \A r \in Requests : requests[r].attachment /= a}

FirstRequest(k) ==
  CASE kind[k] = "file" -> "init"
    [] kind[k] = "shortcut" -> "shortcut"
    [] OTHER -> "capture"

\* submit: the operation and its key are made once, and kept before anything
\* is sent.
Submit(k) ==
  /\ kind[k] /= "none"
  /\ clients[k].phase = "form"
  /\ \E a \in IF kind[k] = "file" THEN Unused ELSE {None} :
       clients' = [clients EXCEPT ![k] =
         [@ EXCEPT !.phase = "ready", !.next = FirstRequest(k), !.reservation = a]]
  /\ UNCHANGED <<kind, requests, server>>

FirstStep(op) ==
  CASE op = "init" -> "init"
    [] op \in {"put", "finalize"} -> "read"
    [] OTHER -> "lookup"

\* The attachment a request names: init names the reservation, the later ones
\* the id the server confirmed.
Names(c) == IF c.next = "init" THEN c.reservation ELSE c.attachment

Send(k, r) ==
  /\ clients[k].phase = "ready"
  /\ clients[k].next /= "status"
  /\ requests[r] = Idle
  /\ requests' = [requests EXCEPT ![r] =
       [Idle EXCEPT !.op = clients[k].next, !.at = FirstStep(clients[k].next),
                    !.key = k, !.attachment = Names(clients[k])]]
  /\ clients' = [clients EXCEPT ![k] = [@ EXCEPT !.phase = "waiting", !.request = r]]
  /\ UNCHANGED <<kind, server>>

\* A retry of a file whose attachment id is known asks the server first.
ResumesWith(k) ==
  IF kind[k] = "file" /\ clients[k].attachment /= None THEN "status"
  ELSE FirstRequest(k)

Stopped(k, error, offers) ==
  [clients[k] EXCEPT !.phase = "stopped", !.next = ResumesWith(k),
                     !.request = None, !.error = error, !.offers = offers]

\* What each confirmed request leads to.
Advanced(k, op) ==
  CASE op = "init" -> [clients[k] EXCEPT !.phase = "ready", !.next = "put",
                         !.request = None, !.attachment = clients[k].reservation]
    [] op = "put" -> [clients[k] EXCEPT !.phase = "ready", !.next = "finalize",
                        !.request = None]
    [] op = "finalize" -> [clients[k] EXCEPT !.phase = "ready", !.next = "capture",
                             !.request = None]
    [] OTHER -> [clients[k] EXCEPT !.phase = "saved", !.request = None]

\* Request r ends with an answer, which reaches the client if it still waits.
\* The page offers a restart when the message it shows holds UPLOAD_EXPIRED;
\* the message of a server's UPLOAD_EXPIRED does not.
Reply(r, answer) ==
  LET k == requests[r].key
      c == IF answer = "saved" THEN Advanced(k, requests[r].op)
           ELSE Stopped(k, answer, FALSE)
  IN /\ requests' = [requests EXCEPT ![r] = Idle]
     /\ clients' = [clients EXCEPT ![k] = IF @.request = r THEN c ELSE @]

\* Resuming an upload: the server's row decides which request comes next.
CheckStatus(k) ==
  LET a == clients[k].attachment
      status == rows[a].status
      resumed == CASE status = "pending" -> "put"
                   [] status = "uploaded" -> "finalize"
                   [] OTHER -> "capture"
  IN /\ clients[k].phase = "ready"
     /\ clients[k].next = "status"
     /\ clients' = [clients EXCEPT ![k] =
          IF status \in {"orphaned", "deleted"} THEN Stopped(k, "unavailable", FALSE)
          ELSE IF status /= "linked" /\ a \in expired THEN Stopped(k, "expired", TRUE)
          ELSE [@ EXCEPT !.next = resumed]]
     /\ UNCHANGED <<kind, requests, server>>

Retry(k) ==
  /\ clients[k].phase = "stopped"
  /\ clients' = [clients EXCEPT ![k] =
       [@ EXCEPT !.phase = "ready", !.error = "none", !.offers = FALSE]]
  /\ UNCHANGED <<kind, requests, server>>

\* restartExpired: another reservation under the same idempotency key.
RestartExpired(k) ==
  /\ clients[k].phase = "stopped"
  /\ clients[k].offers
  /\ \E a \in Unused :
       clients' = [clients EXCEPT ![k] =
         [@ EXCEPT !.next = "init", !.reservation = a, !.attachment = None,
                   !.error = "none", !.offers = FALSE]]
  /\ UNCHANGED <<kind, requests, server>>

\* The answer is lost, the owner stops the request, or the page is reloaded
\* and finds the operation it kept. The server does not notice.
LoseAnswer(k) ==
  /\ clients[k].phase = "waiting"
  /\ clients' = [clients EXCEPT ![k] = Stopped(k, "failed", FALSE)]
  /\ UNCHANGED <<kind, requests, server>>

\* The owner discards the local retry, or closes a page that keeps nothing.
Discard(k) ==
  /\ clients[k].phase \in {"ready", "waiting", "stopped"}
  /\ clients' = [clients EXCEPT ![k] = [NewClient EXCEPT !.phase = "discarded"]]
  /\ UNCHANGED <<kind, requests, server>>

-----------------------------------------------------------------------------
(* Handlers: helpers *)

At(r, op, step) == requests[r].op = op /\ requests[r].at = step

GoesTo(r, step) ==
  /\ requests' = [requests EXCEPT ![r].at = step]
  /\ UNCHANGED clients

\* A Shortcut request discards the attachment it made before it answers
\* anything but its own capture; the other requests just answer.
EndsWith(r, answer) ==
  IF requests[r].op = "shortcut"
  THEN /\ requests' = [requests EXCEPT ![r] = [@ EXCEPT !.at = "discard", !.answer = answer]]
       /\ UNCHANGED clients
  ELSE Reply(r, answer)

SetStatus(a, status) == rows' = [rows EXCEPT ![a].status = status]

-----------------------------------------------------------------------------
(* The handlers of uploads *)

\* POST /uploads/init. A reservation that exists is answered again, unless it
\* is over. Two that race end as if one came first: the loser of the insert
\* looks again.
InitUpload(r) ==
  LET a == requests[r].attachment IN
  /\ At(r, "init", "init")
  /\ \/ /\ rows[a] = NoRow
        /\ SetStatus(a, "pending")
        /\ Reply(r, "saved")
     \/ /\ rows[a] /= NoRow
        /\ Reply(r, IF a \in expired /\ rows[a].status /= "linked" THEN "expired"
                    ELSE IF rows[a].status \in {"orphaned", "deleted"} THEN "unavailable"
                    ELSE "saved")
        /\ UNCHANGED rows
  /\ UNCHANGED <<kind, events, holder, jobs, objects, expired, cleaner, removed, excused>>

\* PUT /uploads/:id/content reads the row before it reads the body.
ReadPending(r) ==
  LET a == requests[r].attachment IN
  /\ At(r, "put", "read")
  /\ \/ rows[a].status /= "pending" /\ Reply(r, "conflict")
     \/ rows[a].status = "pending" /\ a \in expired /\ Reply(r, "expired")
     \/ rows[a].status = "pending" /\ a \notin expired /\ GoesTo(r, "store")
  /\ UNCHANGED <<kind, server>>

\* Premise: bytes that arrive once the reservation expired, or its object was
\* deleted, may come after the ones that were removed.
StoreBytes(r) ==
  LET a == requests[r].attachment IN
  /\ At(r, "put", "store")
  /\ objects' = objects \cup {a}
  /\ excused' = IF a \in expired \cup removed THEN excused \cup {a} ELSE excused
  /\ GoesTo(r, "mark")
  /\ UNCHANGED <<kind, events, holder, jobs, rows, expired, cleaner, removed>>

MarkUploaded(r) ==
  LET a == requests[r].attachment IN
  /\ At(r, "put", "mark")
  /\ IF rows[a].status = "pending" THEN SetStatus(a, "uploaded") ELSE UNCHANGED rows
  /\ Reply(r, "saved")
  /\ UNCHANGED <<kind, events, holder, jobs, objects, expired, cleaner, removed, excused>>

\* POST /uploads/:id/finalize: the row, then the head of the object.
CheckUploaded(r) ==
  LET a == requests[r].attachment
      complete == rows[a].status \in {"uploaded", "finalized"}
  IN /\ At(r, "finalize", "read")
     /\ \/ complete /\ a \notin expired /\ a \in objects /\ GoesTo(r, "mark")
        \/ complete /\ a \in expired /\ Reply(r, "expired")
        \/ ~complete /\ Reply(r, "conflict")
        \/ complete /\ a \notin objects /\ Reply(r, "conflict")
     /\ UNCHANGED <<kind, server>>

MarkFinalized(r) ==
  LET a == requests[r].attachment IN
  /\ At(r, "finalize", "mark")
  /\ IF rows[a].status \in {"uploaded", "finalized"} THEN SetStatus(a, "finalized")
     ELSE UNCHANGED rows
  /\ Reply(r, "saved")
  /\ UNCHANGED <<kind, events, holder, jobs, objects, expired, cleaner, removed, excused>>

-----------------------------------------------------------------------------
(* CaptureService.save *)

\* The fingerprint of a request: see NoEvent.
Fingerprint(r) == IF requests[r].op = "shortcut" THEN None ELSE requests[r].attachment

\* Faulty variant: any request of a stored key is answered as its replay.
ReplaysAnything(r) ==
  /\ events[requests[r].key].stored
  /\ EndsWith(r, "saved")

\* A stored event answers the request again, if it is the same request. The
\* Shortcut discards the attachment of a request that was answered so.
Replays(r) ==
  LET k == requests[r].key IN
  /\ events[k].stored
  /\ EndsWith(r, IF events[k].print = Fingerprint(r) THEN "saved" ELSE "conflict")

LookUpKey(r) ==
  /\ requests[r].at = "lookup"
  /\ requests[r].op = "shortcut" => requests[r].attachment /= None
  /\ \/ Replays(r)
     \/ ~events[requests[r].key].stored /\ GoesTo(r, "duplicate")
  /\ UNCHANGED <<kind, server>>

\* The duplicate, the clock, and requireLinkableAttachment's way out when
\* there is no attachment.
LookUpDuplicate(r) ==
  LET a == requests[r].attachment IN
  /\ requests[r].at = "duplicate"
  /\ requests' = [requests EXCEPT ![r] =
       [@ EXCEPT !.at = IF a = None THEN "create" ELSE "require",
                 !.duplicateOf = IF kind[requests[r].key] = "text" THEN holder ELSE None,
                 !.fresh = a \notin expired]]
  /\ UNCHANGED <<kind, clients, server>>

RequireLinkableAttachment(r) ==
  LET row == rows[requests[r].attachment]
      linkable == row.status = "finalized" /\ row.item = None
  IN /\ requests[r].at = "require"
     /\ \/ ~linkable /\ EndsWith(r, "conflict")
        \/ linkable /\ ~requests[r].fresh /\ EndsWith(r, "expired")
        \/ linkable /\ requests[r].fresh /\ GoesTo(r, "create")
     /\ UNCHANGED <<kind, server>>

\* Faulty variant: INSERT OR IGNORE of the deduplication key for originals too.
AdmittedTwice(r) ==
  LET k == requests[r].key
      a == requests[r].attachment
  IN /\ ~events[k].stored
     /\ a /= None => rows[a].status = "finalized" /\ rows[a].item = None /\ requests[r].fresh

\* What the constraints and capture_event_attachment_must_be_linkable let
\* into the database: a new key, a text no other item holds unless the event
\* is a duplicate's, a finalized attachment nobody links.
Admitted(r) ==
  LET k == requests[r].key
      a == requests[r].attachment
  IN /\ ~events[k].stored
     /\ a /= None => rows[a].status = "finalized" /\ rows[a].item = None /\ requests[r].fresh
     /\ kind[k] = "text" /\ requests[r].duplicateOf = None => holder = None

\* The batch: the item unless it is a duplicate, the event that links the
\* attachment, the deduplication key. It may commit and lose its answer.
\* Premise: an attachment may be linked after it expired, since the trigger
\* compares expires_at with the clock the handler read before.
Create(r) ==
  LET k == requests[r].key
      a == requests[r].attachment
      d == requests[r].duplicateOf
      i == IF d = None THEN k ELSE d
  IN /\ requests[r].at = "create"
     /\ Admitted(r)
     /\ events' = [events EXCEPT ![k] =
          [stored |-> TRUE, item |-> i, attachment |-> a, print |-> Fingerprint(r)]]
     /\ rows' = IF a = None THEN rows ELSE [rows EXCEPT ![a] = [status |-> "linked", item |-> i]]
     /\ holder' = IF kind[k] = "text" /\ holder = None THEN i ELSE holder
     /\ excused' = IF a \in expired THEN excused \cup {a} ELSE excused
     /\ \/ GoesTo(r, "schedule")
        \/ GoesTo(r, "raced")
     /\ UNCHANGED <<kind, jobs, objects, expired, cleaner, removed>>

\* A constraint refuses the batch, or D1 does.
CreateThrows(r) ==
  /\ requests[r].at = "create"
  /\ GoesTo(r, "raced")
  /\ UNCHANGED <<kind, server>>

\* What a failed batch is taken for: the same request that came first, or a
\* duplicate that did, for which the batch is tried once more.
LookAgain(r) ==
  /\ requests[r].at = "raced"
  /\ \/ Replays(r)
     \/ /\ ~events[requests[r].key].stored
        /\ kind[requests[r].key] = "text"
        /\ requests[r].duplicateOf = None
        /\ holder /= None
        /\ requests' = [requests EXCEPT ![r] =
             [@ EXCEPT !.at = "create", !.duplicateOf = holder]]
        /\ UNCHANGED clients
     \/ /\ ~events[requests[r].key].stored
        /\ (kind[requests[r].key] /= "text" \/ requests[r].duplicateOf /= None \/ holder = None)
        /\ EndsWith(r, "failed")
  /\ UNCHANGED <<kind, server>>

\* scheduleProcessing, for the item a capture made; its failure is logged and
\* the capture is saved all the same.
ScheduleProcessing(r) ==
  LET k == requests[r].key IN
  /\ requests[r].at = "schedule"
  /\ \/ /\ requests[r].duplicateOf = None
        /\ jobs' = [jobs EXCEPT ![k] = @ + 1]
     \/ UNCHANGED jobs
  /\ Reply(r, "saved")
  /\ UNCHANGED <<kind, events, holder, rows, objects, expired, cleaner, removed, excused>>

-----------------------------------------------------------------------------
(* ShortcutCaptureService.save *)

ReplayShortcut(r) ==
  LET k == requests[r].key IN
  /\ At(r, "shortcut", "lookup")
  /\ requests[r].attachment = None
  /\ \/ events[k].stored /\ Reply(r, "saved")
     \/ ~events[k].stored /\ GoesTo(r, "reserve")
  /\ UNCHANGED <<kind, server>>

ReserveShortcut(r) ==
  /\ At(r, "shortcut", "reserve")
  /\ \E a \in Unused :
       /\ SetStatus(a, "pending")
       /\ requests' = [requests EXCEPT ![r] = [@ EXCEPT !.at = "store", !.attachment = a]]
  /\ UNCHANGED <<kind, clients, events, holder, jobs, objects, expired, cleaner, removed, excused>>

\* The bytes and the check of what was stored.
StoreShortcutBytes(r) ==
  /\ At(r, "shortcut", "store")
  /\ objects' = objects \cup {requests[r].attachment}
  /\ excused' = IF requests[r].attachment \in expired \cup removed
                THEN excused \cup {requests[r].attachment} ELSE excused
  /\ GoesTo(r, "mark")
  /\ UNCHANGED <<kind, events, holder, jobs, rows, expired, cleaner, removed>>

\* markUploaded and markFinalized: the row is the request's own, and cleanup
\* treats the status between them as the ones around it.
MarkShortcutStored(r) ==
  LET a == requests[r].attachment IN
  /\ At(r, "shortcut", "mark")
  /\ IF rows[a].status = "pending" THEN SetStatus(a, "finalized") ELSE UNCHANGED rows
  /\ GoesTo(r, "lookup")
  /\ UNCHANGED <<kind, events, holder, jobs, objects, expired, cleaner, removed, excused>>

\* discard deletes the object, then gives the row up; either may fail and is
\* then left alone. Premises: it does not ask whether its own batch linked the
\* row after all, and a failed delete leaves bytes that nobody looks for.
DiscardObject(r) ==
  LET a == requests[r].attachment IN
  /\ At(r, "shortcut", "discard")
  /\ \/ /\ objects' = objects \ {a}
        /\ excused' = IF rows[a].item /= None THEN excused \cup {a} ELSE excused
     \/ /\ excused' = IF a \in objects THEN excused \cup {a} ELSE excused
        /\ UNCHANGED objects
  /\ GoesTo(r, "orphan")
  /\ UNCHANGED <<kind, events, holder, jobs, rows, expired, cleaner, removed>>

\* markOrphaned
GivesUp(a) ==
  IF rows[a].item = None /\ rows[a].status /= "deleted" THEN SetStatus(a, "orphaned")
  ELSE UNCHANGED rows

DiscardRow(r) ==
  /\ At(r, "shortcut", "orphan")
  /\ GivesUp(requests[r].attachment) \/ UNCHANGED rows
  /\ Reply(r, requests[r].answer)
  /\ UNCHANGED <<kind, events, holder, jobs, objects, expired, cleaner, removed, excused>>

-----------------------------------------------------------------------------
(* Failures, the clock and the cleanup *)

\* A statement inside the try of a Shortcut request throws.
ShortcutThrows(r) ==
  /\ requests[r].op = "shortcut"
  /\ requests[r].attachment /= None
  /\ requests[r].at \in {"store", "mark", "lookup", "duplicate", "require", "raced"}
  /\ EndsWith(r, "failed")
  /\ UNCHANGED <<kind, server>>

\* Any other throws, or the Worker is evicted.
RequestDies(r) ==
  /\ requests[r] /= Idle
  /\ Reply(r, "failed")
  /\ UNCHANGED <<kind, server>>

Unlinked(a) ==
  /\ rows[a].item = None
  /\ rows[a].status \in {"pending", "uploaded", "finalized"}

Expire(a) ==
  /\ Unlinked(a)
  /\ a \notin expired
  /\ expired' = expired \cup {a}
  /\ UNCHANGED <<kind, clients, requests, events, holder, jobs, rows, objects,
                 cleaner, removed, excused>>

\* cleanupExpiredAttachments, for one of the rows it listed.
FindExpiredOrphan(a) ==
  /\ cleaner = NoCleanup
  /\ Unlinked(a)
  /\ a \in expired
  /\ cleaner' = [at |-> "delete", attachment |-> a]
  /\ UNCHANGED <<kind, clients, requests, events, holder, jobs, rows, objects,
                 expired, removed, excused>>

\* Faulty variant: only finalized uploads are taken to have bytes.
DeleteFinalizedObject ==
  /\ cleaner.at = "delete"
  /\ objects' = IF rows[cleaner.attachment].status = "finalized"
                THEN objects \ {cleaner.attachment} ELSE objects
  /\ cleaner' = [cleaner EXCEPT !.at = "mark"]
  /\ UNCHANGED <<kind, clients, requests, events, holder, jobs, rows, expired, removed, excused>>

DeleteObject ==
  /\ cleaner.at = "delete"
  /\ objects' = objects \ {cleaner.attachment}
  /\ cleaner' = [cleaner EXCEPT !.at = "mark"]
  /\ UNCHANGED <<kind, clients, requests, events, holder, jobs, rows, expired, removed, excused>>

MarkOrphaned ==
  /\ cleaner.at = "mark"
  /\ GivesUp(cleaner.attachment)
  /\ cleaner' = NoCleanup
  /\ UNCHANGED <<kind, clients, requests, events, holder, jobs, objects,
                 expired, removed, excused>>

\* DELETE /attachments/:id, whatever the attachment's status: its object ...
DeleteAttachment(a) ==
  /\ rows[a] /= NoRow
  /\ a \notin removed /\ Cardinality(removed) < MaxRemoved
  /\ objects' = objects \ {a}
  /\ removed' = removed \cup {a}
  /\ UNCHANGED <<kind, clients, requests, events, holder, jobs, rows, expired, cleaner, excused>>

\* ... and its row, unless the request dies before.
MarkDeleted(a) ==
  /\ a \in removed
  /\ SetStatus(a, "deleted")
  /\ UNCHANGED <<kind, clients, requests, events, holder, jobs, objects,
                 expired, cleaner, removed, excused>>

CleanupDies ==
  /\ cleaner /= NoCleanup
  /\ cleaner' = NoCleanup
  /\ UNCHANGED <<kind, clients, requests, events, holder, jobs, rows, objects,
                 expired, removed, excused>>

-----------------------------------------------------------------------------

ClientStep(k) ==
  \/ Submit(k)
  \/ \E r \in Requests : Send(k, r)
  \/ CheckStatus(k)
  \/ Retry(k)
  \/ RestartExpired(k)
  \/ LoseAnswer(k)
  \/ Discard(k)

UploadStep(r) ==
  \/ InitUpload(r)
  \/ ReadPending(r)
  \/ StoreBytes(r)
  \/ MarkUploaded(r)
  \/ CheckUploaded(r)
  \/ MarkFinalized(r)

CaptureStep(r) ==
  \/ LookUpKey(r)
  \/ LookUpDuplicate(r)
  \/ RequireLinkableAttachment(r)
  \/ Create(r)
  \/ CreateThrows(r)
  \/ LookAgain(r)
  \/ ScheduleProcessing(r)

ShortcutStep(r) ==
  \/ ReplayShortcut(r)
  \/ ReserveShortcut(r)
  \/ StoreShortcutBytes(r)
  \/ MarkShortcutStored(r)
  \/ DiscardObject(r)
  \/ DiscardRow(r)
  \/ ShortcutThrows(r)

CleanupStep ==
  \/ \E a \in Attachments : FindExpiredOrphan(a)
  \/ DeleteObject
  \/ MarkOrphaned
  \/ CleanupDies

Next ==
  \/ \E k \in Keys : ClientStep(k)
  \/ \E r \in Requests : UploadStep(r) \/ CaptureStep(r) \/ ShortcutStep(r) \/ RequestDies(r)
  \/ \E a \in Attachments : Expire(a) \/ DeleteAttachment(a) \/ MarkDeleted(a)
  \/ CleanupStep

Spec == Init /\ [][Next]_vars

-----------------------------------------------------------------------------
(* Properties *)

\* Type correctness.
TypeOK ==
  /\ kind \in Mixes
  /\ clients \in [Keys -> ClientRecord]
  /\ requests \in [Requests -> RequestRecord]
  /\ events \in [Keys -> EventRecord]
  /\ holder \in Keys \cup {None}
  /\ jobs \in [Keys -> 0..1]
  /\ rows \in [Attachments -> RowRecord]
  /\ objects \subseteq Attachments
  /\ expired \subseteq Attachments
  /\ cleaner \in [at : {"idle", "delete", "mark"}, attachment : Attachments \cup {None}]
  /\ removed \subseteq Attachments /\ excused \subseteq Attachments

\* All is well typed, and saved means kept. Whatever was lost, repeated, raced or cleaned up on the
\* way, a client that was told so, and lets go of its copy, has an item; a
\* file is linked to that item, its bytes are in the bucket, and a form's is
\* the very reservation its page went through. Premises: the attachment was
\* linked after it expired (capture.service.ts:82 reads the clock,
\* attachment.service.ts:9 deletes, capture.repository.ts:252 commits), its
\* own Shortcut request discarded it (shortcut.service.ts:341-346), or the
\* operator deleted it.
SavedIsKept ==
  /\ TypeOK
  /\ \A k \in Keys : clients[k].phase = "saved" =>
       LET e == events[k] IN
         /\ e.stored
         /\ events[e.item].stored /\ events[e.item].item = e.item
         /\ kind[k] /= "text" =>
              \/ /\ rows[e.attachment] = [status |-> "linked", item |-> e.item]
                 /\ e.attachment \in objects \cup excused
              \/ e.attachment \in removed
         /\ kind[k] = "file" => e.attachment = clients[k].attachment

\* Two captures of one text that race make one item: the other is an event of
\* it, and processing is scheduled for the item alone
\* (capture.service.ts:94-155, capture.repository.ts:292).
OneOriginal ==
  \A k \in Keys : events[k].stored =>
    /\ kind[k] = "text" => events[k].item = holder
    /\ jobs[k] > 0 => events[k].item = k

\* Private bytes are not left behind: no object outlives its row, whichever of
\* the upload, the capture, the discard, the cleanup and the operator's DELETE
\* came last, unless the upload ended after its reservation or its deletion did,
\* or the delete itself failed (attachment.routes.ts:250-263 and 366-378,
\* shortcut.service.ts:233-247).
NoStrandedObject ==
  \A a \in objects : rows[a].status \in {"orphaned", "deleted"} => a \in excused

================================================================================
