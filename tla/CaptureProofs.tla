----------------------------- MODULE CaptureProofs -----------------------------
(***************************************************************************)
(* Theorems about Capture.  Each part of the invariant speaks of one       *)
(* client, request, event or row and of what the others leave it to rely on.*)
(* A step moves one client or one request, so the parts about the others   *)
(* are kept by what they may share: the event of a key, the status of a row*)
(* and the bytes in the bucket.                                            *)
(***************************************************************************)
EXTENDS Capture, FiniteSetTheorems, TLAPS

\* Where a request of each kind can stand.
Steps(op) ==
  CASE op = "init" -> {"init"}
    [] op = "put" -> {"read", "store", "mark"}
    [] op = "finalize" -> {"read", "mark"}
    [] op = "capture" -> {"lookup", "duplicate", "require", "create", "raced", "schedule"}
    [] OTHER -> {"lookup", "reserve", "store", "mark", "duplicate", "require", "create",
                 "raced", "schedule", "discard", "orphan"}

\* A client sends what its kind of submission needs, for the reservation it has made; who
\* waits, waits for a request of its own, and who was told "saved" has an event.
ClientKnown(k) ==
  LET c == clients[k] IN
  /\ c.attachment \in {None, c.reservation}
  /\ c.phase /= "waiting" => c.request = None
  /\ c.phase \in {"form", "discarded"} => c.reservation = None
  /\ c.offers => kind[k] = "file"
  /\ c.phase \in {"ready", "waiting", "stopped"} =>
       \/ /\ kind[k] = "file" /\ c.reservation \in Attachments
          /\ c.next \in {"status", "init", "put", "finalize", "capture"}
          /\ c.next /= "init" => c.attachment = c.reservation
       \/ kind[k] = "text" /\ c.next = "capture" /\ c.reservation = None
       \/ kind[k] = "shortcut" /\ c.next = "shortcut" /\ c.reservation = None
  /\ c.phase = "waiting" =>
       /\ c.request \in Requests /\ c.next /= "status"
       /\ requests[c.request].key = k /\ requests[c.request].op = c.next
       /\ c.next /= "shortcut" => requests[c.request].attachment = Names(c)
  /\ c.phase = "saved" =>
       events[k].stored /\ (kind[k] = "file" => events[k].attachment = c.attachment)

\* The bytes are there, or it is known why they may not be.
Sound(a) == a \in objects \cup removed \cup expired

\* A request has the attachment it needs, and what it has found still holds.
RequestKnown(r) ==
  LET q == requests[r]
      k == q.key
  IN IF q.op = "idle" THEN q = Idle
     ELSE /\ k \in Keys /\ q.at \in Steps(q.op)
          /\ \/ q.op \in {"init", "put", "finalize", "capture"} /\ kind[k] = "file"
                /\ q.attachment \in Attachments
             \/ q.op = "capture" /\ kind[k] = "text" /\ q.attachment = None
             \/ /\ q.op = "shortcut" /\ kind[k] = "shortcut"
                /\ q.at = "reserve" => q.attachment = None
                /\ q.at \notin {"lookup", "reserve"} => q.attachment \in Attachments
          /\ q.duplicateOf /= None => kind[k] = "text" /\ q.duplicateOf = holder
          /\ q.at = "schedule" =>
               /\ events[k].stored /\ events[k].attachment = q.attachment
               /\ q.duplicateOf = None => events[k].item = k /\ jobs[k] = 0
          /\ q.at \in {"discard", "orphan"} /\ q.answer = "saved" => events[k].stored
          /\ q.op \in {"finalize", "shortcut"} /\ q.at = "mark" => Sound(q.attachment)
          /\ q.at = "orphan" => q.attachment \notin objects \/ q.attachment \in excused

\* One request at most schedules the processing of a capture.
OneSchedules ==
  \A r, s \in Requests :
    requests[r].at = "schedule" /\ requests[s].at = "schedule" /\ requests[r].key = requests[s].key
      => r = s

\* The attachment of a Shortcut request is its own.
OwnAttachment ==
  \A r \in Requests : requests[r].op = "shortcut" /\ requests[r].attachment /= None =>
    /\ \A s \in Requests \ {r} : requests[s].attachment /= requests[r].attachment
    /\ \A k \in Keys : clients[k].reservation /= requests[r].attachment

\* What a stored event promises.
EventKnown(k) ==
  LET e == events[k] IN
  /\ e.stored =>
       /\ e.item \in Keys /\ events[e.item].stored /\ events[e.item].item = e.item
       /\ kind[k] = "text" => e.item = holder
       /\ kind[k] /= "shortcut" => e.print = e.attachment
       /\ kind[k] /= "text" =>
            /\ e.attachment \in Attachments
            /\ \/ /\ rows[e.attachment] = [status |-> "linked", item |-> e.item]
                  /\ e.attachment \in objects \cup excused
               \/ e.attachment \in removed
  /\ jobs[k] > 0 => e.stored /\ e.item = k

HolderKnown == holder /= None => events[holder].stored /\ events[holder].item = holder

\* Somebody may still ask for the attachment.
Named(a) ==
  \/ \E k \in Keys : clients[k].reservation = a
  \/ \E r \in Requests : requests[r].attachment = a

Discarding(a) ==
  \E r \in Requests : requests[r].attachment = a /\ requests[r].at \in {"discard", "orphan"}

\* What the status of a row says of its bytes, as long as anybody asks.
RowKnown(a) ==
  /\ rows[a].status = "finalized" /\ Named(a) /\ ~Discarding(a) => Sound(a)
  /\ rows[a].status = "orphaned" /\ Named(a) => a \in expired
  /\ rows[a].status = "deleted" => a \in removed
  /\ a \in removed => a \notin objects \/ a \in excused
  /\ rows[a].status \in {"orphaned", "deleted"} => a \notin objects \/ a \in excused

\* The cleanup takes expired attachments; one that was linked since is excused.
CleanerKnown ==
  /\ cleaner.at \in {"delete", "mark"} =>
       /\ cleaner.attachment \in expired
       /\ rows[cleaner.attachment].item /= None => cleaner.attachment \in excused
  /\ cleaner.at = "mark" =>
       cleaner.attachment \notin objects \/ cleaner.attachment \in excused

\* The inductive invariant.
IInv ==
  /\ TypeOK
  /\ \A k \in Keys : ClientKnown(k) /\ EventKnown(k)
  /\ \A r \in Requests : RequestKnown(r)
  /\ OneSchedules /\ OwnAttachment /\ HolderKnown
  /\ \A a \in Attachments : RowKnown(a)
  /\ CleanerKnown

-----------------------------------------------------------------------------
(* Constants, records *)

LEMMA NoneApart ==
  None \notin Keys /\ None \notin Attachments /\ None \notin Requests
  /\ (\A m \in Mixes : m \in [Keys -> Kinds])
BY CaptureAssumption

LEMMA IdleTyped == Idle \in RequestRecord
BY DEF Idle, RequestRecord

LEMMA NewClientTyped == NewClient \in ClientRecord
BY DEF NewClient, ClientRecord

LEMMA NoRowTyped == NoRow \in RowRecord
BY DEF NoRow, RowRecord

\* What a client that stops keeps and forgets.
LEMMA StoppedFields ==
  ASSUME clients \in [Keys -> ClientRecord], NEW k \in Keys,
         NEW error \in {"none", "expired", "unavailable", "conflict", "failed"},
         NEW c, c = Stopped(k, error, FALSE) \/ c = Stopped(k, error, TRUE)
  PROVE  /\ c \in ClientRecord
         /\ c.phase = "stopped" /\ c.next = ResumesWith(k) /\ c.request = None
         /\ c = Stopped(k, error, FALSE) => c.offers = FALSE
         /\ c.reservation = clients[k].reservation /\ c.attachment = clients[k].attachment
<1> DEFINE next == ResumesWith(k)
           one == [clients[k] EXCEPT !.phase = "stopped"]
           two == [one EXCEPT !.next = next]
           three == [two EXCEPT !.request = None]
           four == [three EXCEPT !.error = error]
           shut == [four EXCEPT !.offers = FALSE]
           open == [four EXCEPT !.offers = TRUE]
<1>1. next \in {"status", "init", "put", "finalize", "capture", "shortcut"}
  BY DEF ResumesWith, FirstRequest
<1>2. Stopped(k, error, FALSE) = shut /\ Stopped(k, error, TRUE) = open
  BY DEF Stopped
<1> HIDE DEF next
<1>3. /\ one \in ClientRecord /\ one.phase = "stopped"
      /\ one.reservation = clients[k].reservation /\ one.attachment = clients[k].attachment
  BY DEF ClientRecord
<1> HIDE DEF one
<1>4. /\ two \in ClientRecord /\ two.phase = "stopped" /\ two.next = next
      /\ two.reservation = clients[k].reservation /\ two.attachment = clients[k].attachment
  BY <1>1, <1>3 DEF ClientRecord
<1> HIDE DEF two
<1>5. /\ three \in ClientRecord /\ three.phase = "stopped" /\ three.next = next
      /\ three.request = None
      /\ three.reservation = clients[k].reservation /\ three.attachment = clients[k].attachment
  BY <1>4 DEF ClientRecord
<1> HIDE DEF three
<1>6. /\ four \in ClientRecord /\ four.phase = "stopped" /\ four.next = next
      /\ four.request = None
      /\ four.reservation = clients[k].reservation /\ four.attachment = clients[k].attachment
  BY <1>5 DEF ClientRecord
<1> HIDE DEF four
<1>7. /\ shut \in ClientRecord /\ shut.phase = "stopped" /\ shut.next = next
      /\ shut.request = None /\ shut.offers = FALSE
      /\ shut.reservation = clients[k].reservation /\ shut.attachment = clients[k].attachment
  BY <1>6 DEF ClientRecord
<1>8. /\ open \in ClientRecord /\ open.phase = "stopped" /\ open.next = next
      /\ open.request = None
      /\ open.reservation = clients[k].reservation /\ open.attachment = clients[k].attachment
  BY <1>6 DEF ClientRecord
<1> HIDE DEF shut, open
<1>9. c = shut \/ c = open
  BY <1>2, Zenon
<1>10. c = Stopped(k, error, FALSE) => c = shut
  BY <1>2, Zenon
<1> QED
  BY <1>7, <1>8, <1>9, <1>10 DEF next

\* What a confirmed request leads to.
LEMMA AdvancedFields ==
  ASSUME clients \in [Keys -> ClientRecord], NEW k \in Keys,
         NEW op \in {"init", "put", "finalize", "capture", "shortcut"}
  PROVE  LET c == Advanced(k, op)
             saved == op \in {"capture", "shortcut"}
         IN /\ c \in ClientRecord /\ c.request = None
            /\ c.reservation = clients[k].reservation
            /\ c.offers = clients[k].offers
            /\ c.phase = IF saved THEN "saved" ELSE "ready"
            /\ c.attachment = IF op = "init" THEN clients[k].reservation
                              ELSE clients[k].attachment
            /\ op = "init" => c.next = "put"
            /\ op = "put" => c.next = "finalize"
            /\ op = "finalize" => c.next = "capture"
<1> DEFINE old == clients[k]
           ready == [old EXCEPT !.phase = "ready"]
<1>0. /\ old \in ClientRecord
      /\ ready \in ClientRecord /\ ready.phase = "ready"
      /\ ready.reservation = old.reservation /\ ready.attachment = old.attachment
      /\ ready.offers = old.offers
  BY DEF ClientRecord
<1> HIDE DEF ready
<1>1. CASE op = "init"
  <2> DEFINE two == [ready EXCEPT !.next = "put"]
             three == [two EXCEPT !.request = None]
             four == [three EXCEPT !.attachment = old.reservation]
  <2>1. Advanced(k, op) = four
    BY <1>1 DEF Advanced, ready
  <2>2. /\ two \in ClientRecord /\ two.phase = "ready" /\ two.next = "put"
        /\ two.reservation = old.reservation /\ two.offers = old.offers
    BY <1>0 DEF ClientRecord
  <2> HIDE DEF two
  <2>3. /\ three \in ClientRecord /\ three.phase = "ready" /\ three.next = "put"
        /\ three.reservation = old.reservation /\ three.offers = old.offers
        /\ three.request = None
    BY <2>2 DEF ClientRecord
  <2> HIDE DEF three
  <2>4. /\ four \in ClientRecord /\ four.phase = "ready" /\ four.next = "put"
        /\ four.reservation = old.reservation /\ four.offers = old.offers
        /\ four.request = None /\ four.attachment = old.reservation
    BY <1>0, <2>3 DEF ClientRecord
  <2> HIDE DEF four
  <2> QED
    BY <1>1, <2>1, <2>4
<1>2. ASSUME NEW next \in {"finalize", "capture"}
      PROVE  LET c == [[ready EXCEPT !.next = next] EXCEPT !.request = None] IN
               /\ c \in ClientRecord /\ c.phase = "ready" /\ c.next = next
               /\ c.reservation = old.reservation /\ c.offers = old.offers
               /\ c.request = None /\ c.attachment = old.attachment
  <2> DEFINE two == [ready EXCEPT !.next = next]
             three == [two EXCEPT !.request = None]
  <2>2. /\ two \in ClientRecord /\ two.phase = "ready" /\ two.next = next
        /\ two.reservation = old.reservation /\ two.offers = old.offers
        /\ two.attachment = old.attachment
    BY <1>0 DEF ClientRecord
  <2> HIDE DEF two
  <2>3. /\ three \in ClientRecord /\ three.phase = "ready" /\ three.next = next
        /\ three.reservation = old.reservation /\ three.offers = old.offers
        /\ three.request = None /\ three.attachment = old.attachment
    BY <2>2 DEF ClientRecord
  <2> QED
    BY <2>3 DEF two
<1>3. CASE op = "put"
  <2>1. Advanced(k, op) = [[ready EXCEPT !.next = "finalize"] EXCEPT !.request = None]
    BY <1>3 DEF Advanced, ready
  <2> QED
    BY <1>2, <1>3, <2>1
<1>4. CASE op = "finalize"
  <2>1. Advanced(k, op) = [[ready EXCEPT !.next = "capture"] EXCEPT !.request = None]
    BY <1>4 DEF Advanced, ready
  <2> QED
    BY <1>2, <1>4, <2>1
<1>5. CASE op \in {"capture", "shortcut"}
  <2> DEFINE one == [old EXCEPT !.phase = "saved"]
             two == [one EXCEPT !.request = None]
  <2>1. Advanced(k, op) = two
    BY <1>5 DEF Advanced
  <2>2. /\ one \in ClientRecord /\ one.phase = "saved"
        /\ one.reservation = old.reservation /\ one.attachment = old.attachment
        /\ one.offers = old.offers
    BY <1>0 DEF ClientRecord
  <2> HIDE DEF one
  <2>3. /\ two \in ClientRecord /\ two.phase = "saved" /\ two.request = None
        /\ two.reservation = old.reservation /\ two.attachment = old.attachment
        /\ two.offers = old.offers
    BY <2>2 DEF ClientRecord
  <2> HIDE DEF two
  <2> QED
    BY <1>5, <2>1, <2>3
<1> QED
  BY <1>1, <1>3, <1>4, <1>5

-----------------------------------------------------------------------------
(* Clients and requests *)

\* What clients and requests know of each other.
FrontKnown ==
  /\ clients \in [Keys -> ClientRecord] /\ requests \in [Requests -> RequestRecord]
  /\ \A k \in Keys : ClientKnown(k)
  /\ OwnAttachment

\* The step is one of request r alone.
Touches(r) ==
  /\ requests' \in [Requests -> RequestRecord]
  /\ \A s \in Requests \ {r} : requests'[s] = requests[s]

\* Request r goes on, and answers nobody.
Goes(r) ==
  /\ Touches(r) /\ clients' = clients
  /\ requests'[r].op = requests[r].op /\ requests'[r].key = requests[r].key
  /\ requests'[r].attachment = requests[r].attachment
  /\ requests[r].at \in {"discard", "orphan"} => requests'[r].at \in {"discard", "orphan"}

EventsKept == \A k \in Keys : events[k].stored => events'[k] = events[k]

\* Nobody asks for an attachment that has a row and nobody asked for before.
Fewer ==
  \A a \in Attachments : rows[a] /= NoRow =>
    /\ Named(a)' => Named(a)
    /\ Named(a)' /\ ~Discarding(a)' => ~Discarding(a)

\* A request that goes on leaves what is known of clients and requests true.
LEMMA GoingFront ==
  ASSUME FrontKnown, NEW r \in Requests, Goes(r), kind' = kind, EventsKept
  PROVE  FrontKnown' /\ Fewer
<1>1. /\ clients' = clients /\ requests' \in [Requests -> RequestRecord]
      /\ \A s \in Requests : /\ requests'[s].op = requests[s].op
                             /\ requests'[s].key = requests[s].key
                             /\ requests'[s].attachment = requests[s].attachment
                             /\ requests[s].at \in {"discard", "orphan"}
                                  => requests'[s].at \in {"discard", "orphan"}
  BY DEF Goes, Touches
<1>2. ASSUME NEW k \in Keys PROVE ClientKnown(k)'
  <2>1. ClientKnown(k)
    BY DEF FrontKnown
  <2> QED
    BY <1>1, <2>1 DEF ClientKnown, Names, EventsKept
<1>3. OwnAttachment'
  BY <1>1 DEF FrontKnown, OwnAttachment
<1>4. Fewer
  BY <1>1 DEF Fewer, Named, Discarding
<1> QED
  BY <1>1, <1>2, <1>3, <1>4 DEF FrontKnown

\* An answer leaves what is known of clients and requests true, if "saved" is told of an
\* event that is stored.
LEMMA ReplyFront ==
  ASSUME FrontKnown, NEW r \in Requests, RequestKnown(r), requests[r].op /= "idle",
         kind' = kind, EventsKept,
         NEW answer \in {"saved", "conflict", "expired", "unavailable", "failed"},
         Reply(r, answer),
         answer = "saved" /\ requests[r].op \in {"capture", "shortcut"} =>
           /\ events'[requests[r].key].stored
           /\ kind[requests[r].key] = "file" =>
                events'[requests[r].key].attachment = requests[r].attachment
  PROVE  /\ FrontKnown' /\ Fewer
         /\ Touches(r) /\ requests'[r] = Idle
         /\ requests[r].op = "shortcut" =>
              \A a \in Attachments : a = requests[r].attachment => ~Named(a)'
<1>a. /\ requests[r].key \in Keys
      /\ requests[r].op \in {"init", "put", "finalize", "capture", "shortcut"}
  BY DEF RequestKnown, FrontKnown, RequestRecord
<1>b. PICK k \in Keys : k = requests[r].key
  BY <1>a
<1>c. PICK op \in {"init", "put", "finalize", "capture", "shortcut"} : op = requests[r].op
  BY <1>a
<1>d. clients \in [Keys -> ClientRecord]
  BY DEF FrontKnown
<1>e. answer /= "saved" => answer \in {"none", "expired", "unavailable", "conflict", "failed"}
  OBVIOUS
<1> DEFINE c == IF answer = "saved" THEN Advanced(k, op) ELSE Stopped(k, answer, FALSE)
<1>1. requests[r].key = k /\ requests[r].op = op
  BY <1>b, <1>c
<1>2. /\ Touches(r) /\ requests'[r] = Idle
      /\ DOMAIN clients' = Keys
      /\ \A j \in Keys \ {k} : clients'[j] = clients[j]
      /\ clients[k].request = r => clients'[k] = c
      /\ clients[k].request /= r => clients'[k] = clients[k]
  <2> DEFINE new == IF clients[k].request = r THEN c ELSE clients[k]
             key == requests[r].key
             told == IF answer = "saved" THEN Advanced(key, requests[r].op)
                     ELSE Stopped(key, answer, FALSE)
  <2>1. /\ requests' = [requests EXCEPT ![r] = Idle]
        /\ clients' = [clients EXCEPT ![key] = IF clients[key].request = r THEN told ELSE clients[key]]
    BY Zenon DEF Reply
  <2>2. key = k /\ told = c
    BY <1>1
  <2> HIDE DEF key, told, c
  <2>3. clients' = [clients EXCEPT ![k] = new]
    BY <2>1, <2>2
  <2>4. new = IF clients[k].request = r THEN c ELSE clients[k]
    OBVIOUS
  <2> HIDE DEF new
  <2> QED
    BY <2>1, <2>3, <2>4, IdleTyped DEF FrontKnown, Touches
<1>s. ASSUME answer /= "saved"
      PROVE  /\ c \in ClientRecord
             /\ c.phase = "stopped" /\ c.next = ResumesWith(k) /\ c.request = None
             /\ c.offers = FALSE
             /\ c.reservation = clients[k].reservation /\ c.attachment = clients[k].attachment
  <2>1. c = Stopped(k, answer, FALSE)
    BY <1>s
  <2> HIDE DEF c
  <2>2. answer \in {"none", "expired", "unavailable", "conflict", "failed"}
    BY <1>e, <1>s
  <2>3. /\ c \in ClientRecord
        /\ c.phase = "stopped" /\ c.next = ResumesWith(k) /\ c.request = None
        /\ c = Stopped(k, answer, FALSE) => c.offers = FALSE
        /\ c.reservation = clients[k].reservation /\ c.attachment = clients[k].attachment
    BY ONLY <1>d, <2>1, <2>2, StoppedFields, ZenonT(60)
  <2> QED
    BY ONLY <2>1, <2>3, Zenon
<1>3. /\ c \in ClientRecord /\ c.request = None
      /\ c.reservation = clients[k].reservation
  <2>1. CASE answer = "saved"
    BY <1>1, <2>1, AdvancedFields DEF FrontKnown
  <2> QED
    BY <1>s, <2>1
<1>4. ASSUME clients[k].request = r PROVE ClientKnown(k)'
  <2> DEFINE old == clients[k]
  <2>1. /\ clients'[k] = c /\ ClientKnown(k) /\ old \in ClientRecord /\ r /= None
    BY <1>1, <1>2, <1>4, NoneApart DEF FrontKnown
  <2>2. /\ old.phase = "waiting" /\ old.next /= "status" /\ op = old.next
        /\ op /= "shortcut" => requests[r].attachment = Names(old)
        /\ old.attachment \in {None, old.reservation}
        /\ old.offers => kind[k] = "file"
        /\ \/ /\ kind[k] = "file" /\ old.reservation \in Attachments
              /\ old.next \in {"status", "init", "put", "finalize", "capture"}
              /\ old.next /= "init" => old.attachment = old.reservation
           \/ kind[k] = "text" /\ old.next = "capture" /\ old.reservation = None
           \/ kind[k] = "shortcut" /\ old.next = "shortcut" /\ old.reservation = None
    BY <1>1, <1>4, <2>1 DEF ClientKnown
  <2>3. CASE answer = "saved"
    <3>1. c = Advanced(k, op)
      BY <2>3
    <3> HIDE DEF c
    <3>2. /\ c.request = None /\ c.reservation = old.reservation /\ c.offers = old.offers
          /\ c.phase = IF op \in {"capture", "shortcut"} THEN "saved" ELSE "ready"
          /\ c.attachment = IF op = "init" THEN old.reservation ELSE old.attachment
          /\ op = "init" => c.next = "put"
          /\ op = "put" => c.next = "finalize"
          /\ op = "finalize" => c.next = "capture"
      BY <1>1, <3>1, AdvancedFields DEF FrontKnown
    <3>3. CASE op \in {"capture", "shortcut"}
      <4>1. c.phase = "saved" /\ c.attachment = old.attachment
        BY <3>2, <3>3
      <4>2. kind[k] = "file" => events'[k].attachment = c.attachment
        BY <1>1, <2>2, <2>3, <3>3, <4>1 DEF Names
      <4> QED
        BY <1>1, <2>1, <2>2, <2>3, <3>2, <3>3, <4>1, <4>2 DEF ClientKnown
    <3>4. CASE op \in {"init", "put", "finalize"}
      <4>1. /\ c.phase = "ready" /\ kind[k] = "file" /\ c.attachment = c.reservation
            /\ c.next \in {"put", "finalize", "capture"}
        BY <2>2, <3>2, <3>4
      <4> QED
        BY <2>1, <2>2, <3>2, <4>1 DEF ClientKnown
    <3> QED
      BY <1>1, <3>3, <3>4
  <2>4. CASE answer /= "saved"
    <3> HIDE DEF c
    <3>2. /\ c.phase = "stopped" /\ c.next = ResumesWith(k) /\ c.request = None
          /\ c.offers = FALSE
          /\ c.reservation = old.reservation /\ c.attachment = old.attachment
      BY ONLY <1>s, <2>4
    <3>3. \/ /\ kind[k] = "file" /\ c.reservation \in Attachments
             /\ c.next \in {"status", "init", "put", "finalize", "capture"}
             /\ c.next /= "init" => c.attachment = c.reservation
          \/ kind[k] = "text" /\ c.next = "capture" /\ c.reservation = None
          \/ kind[k] = "shortcut" /\ c.next = "shortcut" /\ c.reservation = None
      BY <2>2, <3>2 DEF ResumesWith, FirstRequest
    <3> QED
      BY <2>1, <2>2, <3>2, <3>3 DEF ClientKnown
  <2> QED
    BY <2>3, <2>4
<1>5. ASSUME NEW j \in Keys, clients'[j] = clients[j] PROVE ClientKnown(j)'
  <2>1. ClientKnown(j)
    BY DEF FrontKnown
  <2>2. CASE clients[j].phase = "waiting" /\ clients[j].request = r
    <3>1. k = j
      BY <1>1, <2>1, <2>2 DEF ClientKnown
    <3>2. clients'[k] = c /\ clients[k].request = r /\ r /= None
      BY <1>2, <2>2, <3>1, NoneApart
    <3> QED
      BY <1>3, <1>5, <3>1, <3>2
  <2>3. CASE clients[j].phase = "waiting" /\ clients[j].request /= r
    <3>1. requests'[clients[j].request] = requests[clients[j].request]
      BY <1>2, <2>1, <2>3 DEF ClientKnown, Touches
    <3> QED
      BY <1>5, <2>1, <2>3, <3>1 DEF ClientKnown, Names
  <2>4. CASE clients[j].phase /= "waiting"
    BY <1>5, <2>1, <2>4 DEF ClientKnown, EventsKept
  <2> QED
    BY <2>2, <2>3, <2>4
<1>6. ASSUME NEW j \in Keys PROVE ClientKnown(j)'
  <2>1. CASE j = k /\ clients[k].request = r
    BY <1>4, <2>1
  <2>2. CASE j /= k \/ clients[k].request /= r
    <3>1. clients'[j] = clients[j]
      BY <1>2, <2>2
    <3> QED
      BY <1>5, <3>1
  <2> QED
    BY <2>1, <2>2
<1>7. \A j \in Keys : clients'[j].reservation = clients[j].reservation
  BY <1>2, <1>3
<1>8. clients' \in [Keys -> ClientRecord]
  <2>1. \A j \in Keys : clients'[j] \in ClientRecord
    BY <1>2, <1>3 DEF FrontKnown
  <2>2. clients' = [j \in Keys |-> clients'[j]]
    <3> DEFINE key == requests[r].key
               reply == IF answer = "saved" THEN Advanced(key, requests[r].op)
                        ELSE Stopped(key, answer, FALSE)
               new == IF clients[key].request = r THEN reply ELSE clients[key]
    <3>1. clients' = [clients EXCEPT ![key] = new]
      BY Zenon DEF Reply
    <3> HIDE DEF new, key
    <3> QED
      BY <3>1 DEF FrontKnown
  <2> QED
    BY <2>1, <2>2
<1> HIDE DEF c
<1>9. \A s \in Requests \ {r} : requests'[s] = requests[s]
  BY <1>2 DEF Touches
<1>10. Idle.attachment = None /\ Idle.op = "idle" /\ Idle.at = "idle"
  BY DEF Idle
<1>11. OwnAttachment'
  BY <1>2, <1>7, <1>9, <1>10 DEF OwnAttachment, FrontKnown
<1>12. ASSUME requests[r].op = "shortcut", NEW a \in Attachments, a = requests[r].attachment
       PROVE  ~Named(a)'
  BY <1>2, <1>7, <1>9, <1>10, <1>12, NoneApart DEF OwnAttachment, FrontKnown, Named
<1>13. ASSUME NEW a \in Attachments, Named(a)' PROVE Named(a) /\ (~Discarding(a)' => ~Discarding(a))
  <2>1. Named(a)
    BY <1>2, <1>7, <1>9, <1>10, <1>13, NoneApart DEF Named
  <2>2. ASSUME Discarding(a), ~Discarding(a)' PROVE FALSE
    <3>1. requests[r].attachment = a /\ requests[r].at \in {"discard", "orphan"}
      BY <1>9, <2>2 DEF Discarding
    <3>2. requests[r].op = "shortcut"
      BY <1>1, <3>1 DEF RequestKnown, Steps
    <3> QED
      BY <1>12, <1>13, <3>1, <3>2
  <2> QED
    BY <2>1, <2>2
<1>14. Fewer
  BY <1>13, Zenon DEF Fewer
<1> QED
  BY <1>2, <1>6, <1>8, <1>11, <1>12, <1>14, Zenon DEF FrontKnown, Touches

LEMMA FrontIsKnown == IInv => FrontKnown
BY DEF IInv, TypeOK, FrontKnown

\* What a client does on its own, for its own submission.
LEMMA ClientMoves ==
  ASSUME IInv, NEW k \in Keys, NEW c \in ClientRecord,
         clients' = [clients EXCEPT ![k] = c], UNCHANGED <<kind, requests, server>>,
         ClientKnown(k)', c.reservation \in {clients[k].reservation, None} \cup Unused
  PROVE  IInv'
<1>1. /\ kind' = kind /\ requests' = requests /\ events' = events /\ holder' = holder
      /\ jobs' = jobs /\ rows' = rows /\ objects' = objects /\ expired' = expired
      /\ cleaner' = cleaner /\ removed' = removed /\ excused' = excused
  BY DEF server
<1>2. /\ clients' \in [Keys -> ClientRecord] /\ clients'[k] = c
      /\ \A j \in Keys \ {k} : clients'[j] = clients[j]
  BY DEF IInv, TypeOK
<1>3. TypeOK'
  BY <1>1, <1>2 DEF IInv, TypeOK
<1>4. ASSUME NEW j \in Keys PROVE ClientKnown(j)' /\ EventKnown(j)'
  <2>1. ClientKnown(j) /\ EventKnown(j)
    BY DEF IInv
  <2>2. EventKnown(j)'
    BY <1>1, <2>1 DEF EventKnown
  <2>3. CASE j = k
    BY <2>2, <2>3
  <2>4. CASE j /= k
    <3>1. clients'[j] = clients[j]
      BY <1>2, <2>4
    <3> QED
      BY <1>1, <2>1, <2>2, <3>1 DEF ClientKnown, Names
  <2> QED
    BY <2>3, <2>4
<1>5. \A s \in Requests : RequestKnown(s)'
  BY <1>1 DEF IInv, RequestKnown, Sound
<1>6. OneSchedules' /\ HolderKnown' /\ CleanerKnown'
  BY <1>1 DEF IInv, OneSchedules, HolderKnown, CleanerKnown
<1>7. OwnAttachment'
  <2>1. \A r \in Requests : requests[r].attachment /= None => requests[r].attachment \in Attachments
    BY DEF IInv, TypeOK, RequestRecord
  <2>2. \A r \in Requests : requests[r].attachment /= None /\ c.reservation = requests[r].attachment
           => c.reservation = clients[k].reservation
    BY <2>1 DEF Unused
  <2> QED
    BY <1>1, <1>2, <2>2 DEF IInv, OwnAttachment
<1>8. ASSUME NEW a \in Attachments PROVE RowKnown(a)'
  <2>1. RowKnown(a)
    BY DEF IInv
  <2>2. rows[a] /= NoRow /\ Named(a)' => Named(a)
    BY <1>1, <1>2, NoneApart DEF Named, Unused
  <2>3. Discarding(a)' <=> Discarding(a)
    BY <1>1 DEF Discarding
  <2>4. rows[a].status \in {"finalized", "orphaned"} => rows[a] /= NoRow
    BY DEF NoRow
  <2> QED
    BY <1>1, <2>1, <2>2, <2>3, <2>4 DEF RowKnown, Sound
<1> QED
  BY <1>3, <1>4, <1>5, <1>6, <1>7, <1>8 DEF IInv

LEMMA SubmitStep ==
  ASSUME IInv, NEW k \in Keys, Submit(k)
  PROVE  IInv'
<1> DEFINE next == FirstRequest(k)
<1>1. PICK a \in IF kind[k] = "file" THEN Unused ELSE {None} :
        clients' = [clients EXCEPT ![k] =
          [[[@ EXCEPT !.phase = "ready"] EXCEPT !.next = next] EXCEPT !.reservation = a]]
  BY DEF Submit
<1> DEFINE one == [clients[k] EXCEPT !.phase = "ready"]
           two == [one EXCEPT !.next = next]
           three == [two EXCEPT !.reservation = a]
<1>2. /\ clients[k] \in ClientRecord /\ ClientKnown(k) /\ clients[k].phase = "form"
      /\ UNCHANGED <<kind, requests, server>> /\ kind[k] /= "none" /\ kind[k] \in Kinds
  <2>1. clients[k].phase = "form" /\ UNCHANGED <<kind, requests, server>> /\ kind[k] /= "none"
    BY Zenon DEF Submit
  <2> QED
    BY <2>1, NoneApart DEF IInv, TypeOK
<1>3. clients' = [clients EXCEPT ![k] = three]
  BY <1>1
<1>4. next \in {"init", "shortcut", "capture"} /\ a \in Attachments \cup {None}
  BY DEF FirstRequest, Unused
<1>5. (kind[k] = "file" => next = "init") /\ (kind[k] = "shortcut" => next = "shortcut")
      /\ (kind[k] = "text" => next = "capture")
  BY DEF FirstRequest
<1> HIDE DEF next
<1>6. /\ one \in ClientRecord /\ one.phase = "ready" /\ one.request = clients[k].request
      /\ one.reservation = clients[k].reservation /\ one.attachment = clients[k].attachment
      /\ one.offers = clients[k].offers
  BY <1>2 DEF ClientRecord
<1> HIDE DEF one
<1>7. /\ two \in ClientRecord /\ two.phase = "ready" /\ two.request = clients[k].request
      /\ two.attachment = clients[k].attachment
      /\ two.offers = clients[k].offers /\ two.next = next
  BY <1>4, <1>6 DEF ClientRecord
<1> HIDE DEF two
<1>8. /\ three \in ClientRecord /\ three.phase = "ready" /\ three.request = clients[k].request
      /\ three.attachment = clients[k].attachment
      /\ three.offers = clients[k].offers /\ three.next = next /\ three.reservation = a
  BY <1>4, <1>7 DEF ClientRecord
<1> HIDE DEF three
<1>9. three.request = None /\ three.attachment = None
      /\ (three.offers => kind[k] = "file")
  BY <1>2, <1>8 DEF ClientKnown
<1>10. clients'[k] = three
  BY <1>3 DEF IInv, TypeOK
<1>11. \/ kind[k] = "file" /\ a \in Attachments /\ next = "init"
       \/ kind[k] = "text" /\ next = "capture" /\ a = None
       \/ kind[k] = "shortcut" /\ next = "shortcut" /\ a = None
  BY <1>2, <1>5 DEF Kinds, Unused
<1>12. ClientKnown(k)'
  BY <1>2, <1>8, <1>9, <1>10, <1>11 DEF ClientKnown
<1>13. a \in {None} \cup Unused
  OBVIOUS
<1> QED
  BY <1>2, <1>3, <1>8, <1>12, <1>13, ClientMoves

\* A client that stops, waiting or asking the server for the status of its upload.
LEMMA Stops ==
  ASSUME IInv, NEW k \in Keys, clients[k].phase \in {"ready", "waiting"},
         NEW error \in {"none", "expired", "unavailable", "conflict", "failed"},
         NEW c, clients' = [clients EXCEPT ![k] = c],
         \/ c = Stopped(k, error, FALSE)
         \/ c = Stopped(k, error, TRUE) /\ kind[k] = "file",
         UNCHANGED <<kind, requests, server>>
  PROVE  IInv'
<1>1. /\ c \in ClientRecord
      /\ c.phase = "stopped" /\ c.next = ResumesWith(k) /\ c.request = None
      /\ c.offers => kind[k] = "file"
      /\ c.reservation = clients[k].reservation /\ c.attachment = clients[k].attachment
  <2>1. clients \in [Keys -> ClientRecord]
    BY DEF IInv, TypeOK
  <2>2. /\ c \in ClientRecord
        /\ c.phase = "stopped" /\ c.next = ResumesWith(k) /\ c.request = None
        /\ c = Stopped(k, error, FALSE) => c.offers = FALSE
        /\ c.reservation = clients[k].reservation /\ c.attachment = clients[k].attachment
    BY ONLY <2>1, c = Stopped(k, error, FALSE) \/ c = Stopped(k, error, TRUE), StoppedFields, Zenon
  <2>3. c.offers = FALSE \/ kind[k] = "file"
    BY <2>2, Zenon
  <2> QED
    BY <2>2, <2>3
<1>3. clients'[k] = c
  BY DEF IInv, TypeOK
<1>4. ClientKnown(k)
  BY DEF IInv
<1>5. \/ /\ kind[k] = "file" /\ c.reservation \in Attachments
         /\ c.next \in {"status", "init", "put", "finalize", "capture"}
         /\ c.next /= "init" => c.attachment = c.reservation
      \/ kind[k] = "text" /\ c.next = "capture" /\ c.reservation = None
      \/ kind[k] = "shortcut" /\ c.next = "shortcut" /\ c.reservation = None
  BY <1>1, <1>4 DEF ResumesWith, FirstRequest, ClientKnown
<1>6. kind' = kind
  BY Zenon
<1>7. ClientKnown(k)'
  BY <1>1, <1>3, <1>4, <1>5, <1>6 DEF ClientKnown
<1> QED
  BY <1>1, <1>7, ClientMoves

LEMMA LoseAnswerStep ==
  ASSUME IInv, NEW k \in Keys, LoseAnswer(k)
  PROVE  IInv'
BY Stops DEF LoseAnswer

LEMMA CheckStatusStep ==
  ASSUME IInv, NEW k \in Keys, CheckStatus(k)
  PROVE  IInv'
<1> DEFINE a == clients[k].attachment
           status == rows[a].status
           resumed == CASE status = "pending" -> "put"
                        [] status = "uploaded" -> "finalize"
                        [] OTHER -> "capture"
           c == [clients[k] EXCEPT !.next = resumed]
<1>1. /\ clients[k].phase = "ready" /\ clients[k].next = "status"
      /\ UNCHANGED <<kind, requests, server>>
      /\ clients' = [clients EXCEPT ![k] =
          IF status \in {"orphaned", "deleted"} THEN Stopped(k, "unavailable", FALSE)
          ELSE IF status /= "linked" /\ a \in expired THEN Stopped(k, "expired", TRUE)
          ELSE [@ EXCEPT !.next = resumed]]
  BY Zenon DEF CheckStatus
<1>2. resumed \in {"put", "finalize", "capture"}
  OBVIOUS
<1> HIDE DEF resumed
<1>3. ClientKnown(k) /\ clients[k] \in ClientRecord
  BY DEF IInv, TypeOK
<1>4. /\ kind[k] = "file" /\ clients[k].reservation \in Attachments
      /\ clients[k].attachment = clients[k].reservation
  BY <1>1, <1>3 DEF ClientKnown
<1>5. CASE clients' = [clients EXCEPT ![k] = Stopped(k, "unavailable", FALSE)]
  BY <1>1, <1>5, Stops
<1>6. CASE clients' = [clients EXCEPT ![k] = Stopped(k, "expired", TRUE)]
  BY <1>1, <1>4, <1>6, Stops
<1>7. CASE clients' = [clients EXCEPT ![k] = c]
  <2>1. /\ c \in ClientRecord /\ c.phase = "ready" /\ c.next = resumed
        /\ c.reservation = clients[k].reservation /\ c.attachment = clients[k].attachment
        /\ c.request = clients[k].request /\ c.offers = clients[k].offers
    BY <1>1, <1>2, <1>3 DEF ClientRecord
  <2> HIDE DEF c
  <2>2. clients'[k] = c
    BY <1>7 DEF IInv, TypeOK
  <2>3. kind' = kind
    BY <1>1, Zenon
  <2>4. c.request = None
    BY <1>1, <1>3, <2>1 DEF ClientKnown
  <2>5. ClientKnown(k)'
    BY <1>2, <1>4, <2>1, <2>2, <2>3, <2>4 DEF ClientKnown
  <2> QED
    BY <1>1, <1>7, <2>1, <2>5, ClientMoves
<1>8. \/ clients' = [clients EXCEPT ![k] = Stopped(k, "unavailable", FALSE)]
      \/ clients' = [clients EXCEPT ![k] = Stopped(k, "expired", TRUE)]
      \/ clients' = [clients EXCEPT ![k] = c]
  BY <1>1
<1> QED
  BY <1>5, <1>6, <1>7, <1>8

LEMMA RetryStep ==
  ASSUME IInv, NEW k \in Keys, Retry(k)
  PROVE  IInv'
<1> DEFINE one == [clients[k] EXCEPT !.phase = "ready"]
           two == [one EXCEPT !.error = "none"]
           c == [two EXCEPT !.offers = FALSE]
<1>1. /\ clients[k].phase = "stopped" /\ UNCHANGED <<kind, requests, server>>
  BY Zenon DEF Retry
<1>2. clients' = [clients EXCEPT ![k] = c]
  BY DEF Retry
<1>3. ClientKnown(k) /\ clients[k] \in ClientRecord
  BY DEF IInv, TypeOK
<1>4. /\ one \in ClientRecord /\ one.phase = "ready" /\ one.next = clients[k].next
      /\ one.reservation = clients[k].reservation /\ one.attachment = clients[k].attachment
      /\ one.request = clients[k].request
  BY <1>3 DEF ClientRecord
<1> HIDE DEF one
<1>5. /\ two \in ClientRecord /\ two.phase = "ready" /\ two.next = clients[k].next
      /\ two.reservation = clients[k].reservation /\ two.attachment = clients[k].attachment
      /\ two.request = clients[k].request
  BY <1>4 DEF ClientRecord
<1> HIDE DEF two
<1>6. /\ c \in ClientRecord /\ c.phase = "ready" /\ c.next = clients[k].next
      /\ c.reservation = clients[k].reservation /\ c.attachment = clients[k].attachment
      /\ c.request = clients[k].request /\ c.offers = FALSE
  BY <1>5 DEF ClientRecord
<1> HIDE DEF c
<1>7. clients'[k] = c
  BY <1>2 DEF IInv, TypeOK
<1>8. kind' = kind
  BY <1>1, Zenon
<1>9. ClientKnown(k)'
  BY <1>1, <1>3, <1>6, <1>7, <1>8 DEF ClientKnown
<1> QED
  BY <1>1, <1>2, <1>6, <1>9, ClientMoves

LEMMA RestartExpiredStep ==
  ASSUME IInv, NEW k \in Keys, RestartExpired(k)
  PROVE  IInv'
<1>1. /\ clients[k].phase = "stopped" /\ clients[k].offers
      /\ UNCHANGED <<kind, requests, server>>
  BY Zenon DEF RestartExpired
<1>2. PICK a \in Unused :
        clients' = [clients EXCEPT ![k] =
          [[[[[@ EXCEPT !.next = "init"] EXCEPT !.reservation = a] EXCEPT !.attachment = None]
             EXCEPT !.error = "none"] EXCEPT !.offers = FALSE]]
  BY DEF RestartExpired
<1> DEFINE one == [clients[k] EXCEPT !.next = "init"]
           two == [one EXCEPT !.reservation = a]
           three == [two EXCEPT !.attachment = None]
           four == [three EXCEPT !.error = "none"]
           c == [four EXCEPT !.offers = FALSE]
<1>3. clients' = [clients EXCEPT ![k] = c]
  BY <1>2
<1>4. ClientKnown(k) /\ clients[k] \in ClientRecord /\ a \in Attachments
  BY DEF IInv, TypeOK, Unused
<1>5. /\ one \in ClientRecord /\ one.phase = "stopped" /\ one.next = "init"
      /\ one.request = clients[k].request
  BY <1>1, <1>4 DEF ClientRecord
<1> HIDE DEF one
<1>6. /\ two \in ClientRecord /\ two.phase = "stopped" /\ two.next = "init"
      /\ two.request = clients[k].request /\ two.reservation = a
  BY <1>4, <1>5 DEF ClientRecord
<1> HIDE DEF two
<1>7. /\ three \in ClientRecord /\ three.phase = "stopped" /\ three.next = "init"
      /\ three.request = clients[k].request /\ three.reservation = a
      /\ three.attachment = None
  BY <1>6 DEF ClientRecord
<1> HIDE DEF three
<1>8. /\ four \in ClientRecord /\ four.phase = "stopped" /\ four.next = "init"
      /\ four.request = clients[k].request /\ four.reservation = a
      /\ four.attachment = None
  BY <1>7 DEF ClientRecord
<1> HIDE DEF four
<1>9. /\ c \in ClientRecord /\ c.phase = "stopped" /\ c.next = "init"
      /\ c.request = clients[k].request /\ c.reservation = a
      /\ c.attachment = None /\ c.offers = FALSE
  BY <1>8 DEF ClientRecord
<1> HIDE DEF c
<1>10. clients'[k] = c
  BY <1>3 DEF IInv, TypeOK
<1>11. kind' = kind
  BY <1>1, Zenon
<1>12. ClientKnown(k)'
  BY <1>1, <1>4, <1>9, <1>10, <1>11 DEF ClientKnown
<1> QED
  BY <1>1, <1>3, <1>9, <1>12, ClientMoves

LEMMA DiscardStep ==
  ASSUME IInv, NEW k \in Keys, Discard(k)
  PROVE  IInv'
<1> DEFINE new == NewClient
           c == [new EXCEPT !.phase = "discarded"]
<1>1. UNCHANGED <<kind, requests, server>> /\ clients' = [clients EXCEPT ![k] = c]
  BY Zenon DEF Discard
<1>2. /\ new \in ClientRecord /\ new.reservation = None /\ new.attachment = None
      /\ new.request = None /\ new.offers = FALSE
  BY NewClientTyped DEF NewClient
<1> HIDE DEF new
<1>3. /\ c \in ClientRecord /\ c.reservation = None /\ c.attachment = None
      /\ c.request = None /\ c.offers = FALSE /\ c.phase = "discarded"
  BY <1>2 DEF ClientRecord
<1> HIDE DEF c
<1>4. clients'[k] = c
  BY <1>1 DEF IInv, TypeOK
<1>5. kind' = kind
  BY <1>1, Zenon
<1>6. ClientKnown(k)'
  BY <1>3, <1>4, <1>5 DEF ClientKnown
<1> QED
  BY <1>1, <1>3, <1>6, ClientMoves

LEMMA SendStep ==
  ASSUME IInv, NEW k \in Keys, NEW r \in Requests, Send(k, r)
  PROVE  IInv'
<1> DEFINE old == clients[k]
           ready == [old EXCEPT !.phase = "waiting"]
           c == [ready EXCEPT !.request = r]
           op == old.next
           first == FirstStep(op)
           named == Names(old)
           idle == Idle
           one == [idle EXCEPT !.op = op]
           two == [one EXCEPT !.at = first]
           three == [two EXCEPT !.key = k]
           q == [three EXCEPT !.attachment = named]
<1>1. /\ clients[k].phase = "ready" /\ clients[k].next /= "status" /\ requests[r] = Idle
      /\ UNCHANGED <<kind, server>>
  BY Zenon DEF Send
<1>2. clients' = [clients EXCEPT ![k] = c]
  BY DEF Send
<1>3. requests' = [requests EXCEPT ![r] = q]
  BY DEF Send
<1>4. /\ kind' = kind /\ events' = events /\ holder' = holder
      /\ jobs' = jobs /\ rows' = rows /\ objects' = objects /\ expired' = expired
      /\ cleaner' = cleaner /\ removed' = removed /\ excused' = excused
  BY <1>1 DEF server
<1>5. /\ old \in ClientRecord /\ ClientKnown(k)
      /\ op \in {"init", "put", "finalize", "capture", "shortcut"}
  BY <1>1 DEF IInv, TypeOK, ClientRecord
<1>6. /\ ready \in ClientRecord /\ ready.phase = "waiting" /\ ready.next = op
      /\ ready.reservation = old.reservation /\ ready.attachment = old.attachment
      /\ ready.offers = old.offers
  BY <1>5 DEF ClientRecord
<1> HIDE DEF ready
<1>7. /\ c \in ClientRecord /\ c.phase = "waiting" /\ c.next = op /\ c.request = r
      /\ c.reservation = old.reservation /\ c.attachment = old.attachment
      /\ c.offers = old.offers
  BY <1>6 DEF ClientRecord
<1> HIDE DEF c
<1>8. /\ first \in {"init", "read", "lookup"} /\ first \in Steps(op)
      /\ first = "lookup" <=> op \in {"capture", "shortcut"}
  BY <1>5 DEF FirstStep, Steps
<1>9. /\ named \in Attachments \cup {None} /\ Names(c) = named
      /\ named \in {None, old.reservation}
  BY <1>5, <1>7 DEF Names, ClientKnown, ClientRecord
<1>10. /\ idle \in RequestRecord /\ idle.fresh = TRUE /\ idle.duplicateOf = None
       /\ idle.op = "idle" /\ idle.key = None /\ idle.answer = "failed" /\ idle.attachment = None
  BY IdleTyped DEF Idle
<1> HIDE DEF first, named, idle
<1>11. /\ one \in RequestRecord /\ one.op = op /\ one.duplicateOf = None
  BY <1>5, <1>10 DEF RequestRecord
<1> HIDE DEF one
<1>12. /\ two \in RequestRecord /\ two.op = op /\ two.duplicateOf = None /\ two.at = first
  BY <1>8, <1>11 DEF RequestRecord
<1> HIDE DEF two
<1>13. /\ three \in RequestRecord /\ three.op = op /\ three.duplicateOf = None
       /\ three.at = first /\ three.key = k
  BY <1>12 DEF RequestRecord
<1> HIDE DEF three
<1>14. /\ q \in RequestRecord /\ q.op = op /\ q.duplicateOf = None
       /\ q.at = first /\ q.key = k /\ q.attachment = named
  BY <1>9, <1>13 DEF RequestRecord
<1> HIDE DEF q
<1>15. /\ clients' \in [Keys -> ClientRecord] /\ clients'[k] = c
       /\ \A j \in Keys \ {k} : clients'[j] = clients[j]
  BY <1>2, <1>7 DEF IInv, TypeOK
<1>16. /\ requests' \in [Requests -> RequestRecord] /\ requests'[r] = q
       /\ \A s \in Requests \ {r} : requests'[s] = requests[s]
  BY <1>3, <1>14 DEF IInv, TypeOK
<1>17. requests[r].op = "idle" /\ requests[r].key = None /\ requests[r].attachment = None
       /\ requests[r].at = "idle"
  BY <1>1 DEF Idle
<1>18. \/ /\ kind[k] = "file" /\ old.reservation \in Attachments
          /\ op \in {"init", "put", "finalize", "capture"}
          /\ named = old.reservation
       \/ kind[k] = "text" /\ op = "capture" /\ old.reservation = None
       \/ kind[k] = "shortcut" /\ op = "shortcut" /\ old.reservation = None
  BY <1>1, <1>5 DEF ClientKnown, named, Names
<1>19. TypeOK'
  BY <1>4, <1>15, <1>16 DEF IInv, TypeOK
<1>20. ASSUME NEW j \in Keys PROVE ClientKnown(j)' /\ EventKnown(j)'
  <2>1. ClientKnown(j) /\ EventKnown(j)
    BY DEF IInv
  <2>2. EventKnown(j)'
    BY <1>4, <2>1 DEF EventKnown
  <2>3. CASE j = k
    <3>1. Names(c) = requests'[r].attachment /\ requests'[r].op = op /\ requests'[r].key = k
      BY <1>9, <1>14, <1>16
    <3>2. old.attachment \in {None, old.reservation} /\ (old.offers => kind[k] = "file")
      BY <1>5 DEF ClientKnown
    <3>3. op /= "init" /\ kind[k] = "file" => c.attachment = c.reservation
      BY <1>1, <1>5, <1>7 DEF ClientKnown
    <3>4. clients'[k] = c /\ kind'[k] = kind[k]
      BY <1>4, <1>15
    <3>5. ClientKnown(k)'
      BY <1>7, <1>18, <3>1, <3>2, <3>3, <3>4, <1>5 DEF ClientKnown
    <3> QED
      BY <2>2, <2>3, <3>5
  <2>4. CASE j /= k
    <3>1. clients'[j] = clients[j]
      BY <1>15, <2>4
    <3>2. clients[j].phase = "waiting" =>
            requests'[clients[j].request] = requests[clients[j].request]
      BY <1>16, <1>17, <2>1, NoneApart DEF ClientKnown
    <3>3. ClientKnown(j)'
      BY <1>4, <2>1, <3>1, <3>2 DEF ClientKnown, Names
    <3> QED
      BY <2>2, <3>3
  <2> QED
    BY <2>3, <2>4
<1>21. ASSUME NEW s \in Requests PROVE RequestKnown(s)'
  <2>1. CASE s = r
    <3>1. /\ kind'[k] = kind[k] /\ requests'[r] = q
          /\ first \notin {"schedule", "discard", "orphan", "mark", "reserve"}
          /\ op = "shortcut" => first = "lookup"
          /\ kind[k] = "text" => named = None
      BY <1>4, <1>8, <1>9, <1>16, <1>18
    <3>2. q.op /= "idle" /\ q.op = op /\ q.at = first
      BY <1>5, <1>14
    <3>3. RequestKnown(r)'
      BY <1>5, <1>8, <1>9, <1>14, <1>18, <3>1, <3>2 DEF RequestKnown
    <3> QED
      BY <2>1, <3>3
  <2>2. CASE s /= r
    <3>1. requests'[s] = requests[s] /\ RequestKnown(s)
      BY <1>16, <2>2 DEF IInv
    <3> QED
      BY <1>4, <3>1 DEF RequestKnown, Sound
  <2> QED
    BY <2>1, <2>2
<1>22. HolderKnown' /\ CleanerKnown'
  BY <1>4 DEF IInv, HolderKnown, CleanerKnown
<1>23. OneSchedules'
  <2>1. q.at /= "schedule"
    BY <1>8, <1>14
  <2> QED
    BY <1>16, <2>1 DEF IInv, OneSchedules
<1>24. OwnAttachment'
  <2>1. \A j \in Keys : clients'[j].reservation = clients[j].reservation
    BY <1>7, <1>15
  <2>2. q.op = "shortcut" => q.attachment = None
    BY <1>9, <1>14, <1>18
  <2>3. q.attachment \in {None, clients[k].reservation}
    BY <1>9, <1>14
  <2> QED
    BY <1>16, <2>1, <2>2, <2>3 DEF IInv, OwnAttachment
<1>25. ASSUME NEW a \in Attachments PROVE RowKnown(a)'
  <2>1. RowKnown(a)
    BY DEF IInv
  <2>2. Named(a)' => Named(a)
    <3>1. \A j \in Keys : clients'[j].reservation = clients[j].reservation
      BY <1>7, <1>15
    <3>2. q.attachment = a => clients[k].reservation = a
      BY <1>9, <1>14, NoneApart
    <3> QED
      BY <1>16, <3>1, <3>2 DEF Named
  <2>3. Discarding(a) => Discarding(a)'
    BY <1>16, <1>17 DEF Discarding
  <2> QED
    BY <1>4, <2>1, <2>2, <2>3 DEF RowKnown, Sound
<1> QED
  BY <1>19, <1>20, <1>21, <1>22, <1>23, <1>24, <1>25 DEF IInv

-----------------------------------------------------------------------------
(* Requests *)

\* What request s has found of its attachment a still holds.
AttachmentKept(s, a) ==
  /\ Sound(a) => Sound(a)'
  /\ requests[s].op = "shortcut" /\ (a \notin objects \/ a \in excused) =>
       a \notin objects' \/ a \in excused'

\* What a request knows is lost neither by what others do nor by itself, as long as it
\* stays where it is.
LEMMA OthersStay ==
  ASSUME NEW s \in Requests, requests'[s] = requests[s], RequestKnown(s),
         kind' = kind, EventsKept, holder /= None => holder' = holder,
         requests[s].at = "schedule" => jobs'[requests[s].key] = jobs[requests[s].key],
         \A a \in Attachments : a = requests[s].attachment => AttachmentKept(s, a)
  PROVE  RequestKnown(s)'
<1> PICK q : q = requests[s]
  OBVIOUS
<1> PICK a : a = q.attachment
  OBVIOUS
<1>1. CASE q.op = "idle"
  BY <1>1 DEF RequestKnown
<1>2. CASE q.op /= "idle"
  <2>1. PICK k \in Keys : k = q.key
    BY <1>2 DEF RequestKnown
  <2>2. events[k].stored => events'[k] = events[k]
    BY DEF EventsKept
  <2>3. q.duplicateOf /= None /\ q.duplicateOf = holder => holder' = holder
    OBVIOUS
  <2>4. a \in Attachments => AttachmentKept(s, a)
    OBVIOUS
  <2>5. q.at \in {"mark", "orphan"} /\ q.op \in {"finalize", "shortcut"} => a \in Attachments
    BY <1>2 DEF RequestKnown
  <2>6. q.at = "orphan" => q.op = "shortcut"
    BY <1>2 DEF RequestKnown, Steps
  <2> QED
    BY <1>2, <2>1, <2>2, <2>3, <2>4, <2>5, <2>6 DEF RequestKnown, AttachmentKept, Sound
<1> QED
  BY <1>1, <1>2

\* A step of a request that changes the status of rows at most.
LEMMA Reads ==
  ASSUME IInv, NEW r \in Requests, Touches(r), FrontKnown', Fewer, RequestKnown(r)',
         requests'[r].at /= "schedule",
         UNCHANGED <<kind, events, holder, jobs, objects, expired, cleaner, removed, excused>>,
         rows' \in [Attachments -> RowRecord],
         \A b \in Attachments : rows'[b].item = rows[b].item,
         \A b \in Attachments :
           \/ rows'[b] = rows[b]
           \/ /\ RowKnown(b)'
              /\ rows[b].status /= "linked" \/ rows[b].item = None \/ b \in removed
  PROVE  IInv'
<1>1. /\ kind' = kind /\ events' = events /\ holder' = holder
      /\ jobs' = jobs /\ objects' = objects /\ expired' = expired
      /\ cleaner' = cleaner /\ removed' = removed /\ excused' = excused
  OBVIOUS
<1>2. TypeOK'
  BY <1>1 DEF IInv, TypeOK, FrontKnown
<1>3. ASSUME NEW k \in Keys PROVE ClientKnown(k)' /\ EventKnown(k)'
  <2>1. EventKnown(k) /\ events[k] \in EventRecord
    BY DEF IInv, TypeOK
  <2>2. ClientKnown(k)'
    BY DEF FrontKnown
  <2>3. events[k].stored /\ kind[k] /= "text" =>
          \/ rows'[events[k].attachment] = rows[events[k].attachment]
          \/ events[k].attachment \in removed
    BY <2>1, NoneApart DEF EventKnown
  <2>4. EventKnown(k)'
    BY <1>1, <2>1, <2>3 DEF EventKnown
  <2> QED
    BY <2>2, <2>4
<1>4. ASSUME NEW s \in Requests PROVE RequestKnown(s)'
  <2>1. CASE s = r
    BY <2>1
  <2>2. CASE s /= r
    <3>1. requests'[s] = requests[s] /\ RequestKnown(s)
      BY <2>2 DEF Touches, IInv
    <3>2. EventsKept /\ \A a \in Attachments : AttachmentKept(s, a)
      BY <1>1 DEF EventsKept, AttachmentKept, Sound
    <3> QED
      BY <1>1, <3>1, <3>2, OthersStay
  <2> QED
    BY <2>1, <2>2
<1>5. OneSchedules'
  BY DEF IInv, OneSchedules, Touches
<1>6. OwnAttachment' /\ HolderKnown'
  BY <1>1 DEF FrontKnown, IInv, HolderKnown
<1>7. ASSUME NEW a \in Attachments PROVE RowKnown(a)'
  <2>1. CASE rows'[a] = rows[a]
    <3>1. RowKnown(a)
      BY DEF IInv
    <3>2. rows[a].status \in {"finalized", "orphaned"} => rows[a] /= NoRow
      BY DEF NoRow
    <3>3. rows[a].status \in {"finalized", "orphaned"} =>
            /\ Named(a)' => Named(a)
            /\ Named(a)' /\ ~Discarding(a)' => ~Discarding(a)
      BY <3>2 DEF Fewer
    <3> QED
      BY <1>1, <2>1, <3>1, <3>3 DEF RowKnown, Sound
  <2> QED
    BY <2>1
<1>8. CleanerKnown'
  <2>1. cleaner.at \in {"delete", "mark"} => cleaner.attachment \in Attachments
    BY DEF IInv, TypeOK, CleanerKnown
  <2> QED
    BY <1>1, <2>1 DEF IInv, CleanerKnown
<1> QED
  BY <1>2, <1>3, <1>4, <1>5, <1>6, <1>7, <1>8 DEF IInv

\* A request that reads and goes on to another step.
LEMMA GoesToFields ==
  ASSUME requests \in [Requests -> RequestRecord], NEW r \in Requests,
         NEW step \in {"idle", "init", "read", "store", "mark", "lookup", "duplicate",
                       "require", "create", "raced", "schedule", "reserve", "discard",
                       "orphan"},
         GoesTo(r, step)
  PROVE  /\ Touches(r) /\ clients' = clients
         /\ requests'[r].at = step
         /\ requests'[r].op = requests[r].op /\ requests'[r].key = requests[r].key
         /\ requests'[r].attachment = requests[r].attachment
         /\ requests'[r].duplicateOf = requests[r].duplicateOf
         /\ requests'[r].answer = requests[r].answer
<1> DEFINE q == [requests[r] EXCEPT !.at = step]
<1>1. requests' = [requests EXCEPT ![r] = q] /\ clients' = clients
  BY DEF GoesTo
<1>2. /\ q \in RequestRecord /\ q.at = step /\ q.op = requests[r].op
      /\ q.key = requests[r].key /\ q.attachment = requests[r].attachment
      /\ q.duplicateOf = requests[r].duplicateOf /\ q.answer = requests[r].answer
  BY DEF RequestRecord
<1> HIDE DEF q
<1>3. /\ requests' \in [Requests -> RequestRecord] /\ requests'[r] = q
      /\ \A s \in Requests \ {r} : requests'[s] = requests[s]
  BY <1>1, <1>2
<1> QED
  BY <1>1, <1>2, <1>3 DEF Touches

\* What r knows on its way to a step before the end.
LEMMA GoesToKnown ==
  ASSUME IInv, NEW r \in Requests, requests[r].op /= "idle",
         requests[r].at \notin {"discard", "orphan"},
         NEW step \in Steps(requests[r].op) \ {"schedule", "discard", "orphan"},
         step = "mark" /\ requests[r].op \in {"finalize", "shortcut"} =>
           \A a \in Attachments : a = requests[r].attachment => Sound(a)',
         requests[r].op = "shortcut" =>
           /\ step = "reserve" => requests[r].attachment = None
           /\ step \notin {"lookup", "reserve"} => requests[r].attachment \in Attachments,
         GoesTo(r, step), kind' = kind, EventsKept, holder /= None => holder' = holder
  PROVE  /\ Touches(r) /\ FrontKnown' /\ Fewer /\ RequestKnown(r)'
         /\ requests'[r].at = step
<1>1. /\ RequestKnown(r) /\ FrontKnown /\ requests \in [Requests -> RequestRecord]
      /\ requests[r].key \in Keys
  BY FrontIsKnown DEF IInv, TypeOK, RequestKnown
<1>2. step \in {"idle", "init", "read", "store", "mark", "lookup", "duplicate",
                "require", "create", "raced", "schedule", "reserve", "discard", "orphan"}
  BY DEF Steps
<1>3. /\ Touches(r) /\ clients' = clients
      /\ requests'[r].at = step
      /\ requests'[r].op = requests[r].op /\ requests'[r].key = requests[r].key
      /\ requests'[r].attachment = requests[r].attachment
      /\ requests'[r].duplicateOf = requests[r].duplicateOf
      /\ requests'[r].answer = requests[r].answer
  BY <1>1, <1>2, GoesToFields
<1>4. Goes(r)
  BY <1>3 DEF Goes
<1>5. FrontKnown' /\ Fewer
  BY <1>1, <1>4, GoingFront
<1>6. requests[r].duplicateOf /= None => holder' = holder
  BY <1>1, <1>3 DEF RequestKnown
<1>7. RequestKnown(r)'
  <2>1. step = "mark" /\ requests[r].op \in {"finalize", "shortcut"} =>
          requests[r].attachment \in objects' \cup removed' \cup expired'
    <3>1. step = "mark" /\ requests[r].op \in {"finalize", "shortcut"} =>
            requests[r].attachment \in Attachments
      BY <1>1 DEF RequestKnown
    <3> QED
      BY <3>1 DEF Sound
  <2> QED
    BY <1>1, <1>3, <1>6, <2>1 DEF RequestKnown, Sound
<1> QED
  BY <1>3, <1>5, <1>7

LEMMA GoesOn ==
  ASSUME IInv, NEW r \in Requests, requests[r].op /= "idle",
         requests[r].at \notin {"discard", "orphan"},
         NEW step \in Steps(requests[r].op) \ {"schedule", "discard", "orphan"},
         step = "mark" /\ requests[r].op \in {"finalize", "shortcut"} =>
           Sound(requests[r].attachment),
         requests[r].op = "shortcut" =>
           /\ step = "reserve" => requests[r].attachment = None
           /\ step \notin {"lookup", "reserve"} => requests[r].attachment \in Attachments,
         GoesTo(r, step), UNCHANGED <<kind, server>>
  PROVE  IInv'
<1>1. /\ kind' = kind /\ events' = events /\ holder' = holder
      /\ jobs' = jobs /\ rows' = rows /\ objects' = objects /\ expired' = expired
      /\ cleaner' = cleaner /\ removed' = removed /\ excused' = excused
  BY DEF server
<1>2. EventsKept
  BY <1>1 DEF EventsKept
<1>3. \A a \in Attachments : Sound(a)' <=> Sound(a)
  BY <1>1 DEF Sound
<1>4. /\ Touches(r) /\ FrontKnown' /\ Fewer /\ RequestKnown(r)'
      /\ requests'[r].at = step
  BY <1>1, <1>2, <1>3, GoesToKnown
<1>5. rows' \in [Attachments -> RowRecord]
  BY <1>1 DEF IInv, TypeOK
<1> QED
  BY <1>1, <1>4, <1>5, Reads

\* A request that reads, changes the status of rows at most, and answers.
LEMMA Answers ==
  ASSUME IInv, NEW r \in Requests, requests[r].op /= "idle",
         NEW answer \in {"saved", "conflict", "expired", "unavailable", "failed"},
         Reply(r, answer),
         answer = "saved" /\ requests[r].op \in {"capture", "shortcut"} =>
           /\ events[requests[r].key].stored
           /\ kind[requests[r].key] = "file" =>
                events[requests[r].key].attachment = requests[r].attachment,
         UNCHANGED <<kind, events, holder, jobs, objects, expired, cleaner, removed, excused>>,
         rows' \in [Attachments -> RowRecord],
         \A b \in Attachments : rows'[b].item = rows[b].item,
         \A b \in Attachments :
           \/ rows'[b] = rows[b]
           \/ /\ RowKnown(b)'
              /\ rows[b].status /= "linked" \/ rows[b].item = None \/ b \in removed
  PROVE  IInv'
<1>1. FrontKnown /\ RequestKnown(r)
  BY FrontIsKnown DEF IInv
<1>2. EventsKept
  BY DEF EventsKept
<1>3. answer = "saved" /\ requests[r].op \in {"capture", "shortcut"} =>
        /\ events'[requests[r].key].stored
        /\ kind[requests[r].key] = "file" =>
             events'[requests[r].key].attachment = requests[r].attachment
  OBVIOUS
<1>4. kind' = kind
  OBVIOUS
<1>5. /\ FrontKnown' /\ Fewer
      /\ Touches(r) /\ requests'[r] = Idle
  BY <1>1, <1>2, <1>3, <1>4, ReplyFront
<1>6. RequestKnown(r)' /\ requests'[r].at /= "schedule"
  BY <1>5 DEF RequestKnown, Idle
<1> QED
  BY <1>5, <1>6, Reads

LEMMA JustAnswers ==
  ASSUME IInv, NEW r \in Requests, requests[r].op /= "idle",
         NEW answer \in {"saved", "conflict", "expired", "unavailable", "failed"},
         Reply(r, answer),
         answer = "saved" /\ requests[r].op \in {"capture", "shortcut"} =>
           /\ events[requests[r].key].stored
           /\ kind[requests[r].key] = "file" =>
                events[requests[r].key].attachment = requests[r].attachment,
         UNCHANGED <<kind, server>>
  PROVE  IInv'
<1>1. /\ UNCHANGED <<kind, events, holder, jobs, objects, expired, cleaner, removed, excused>>
      /\ rows' = rows
  BY DEF server
<1>2. rows' \in [Attachments -> RowRecord]
  BY <1>1 DEF IInv, TypeOK
<1> QED
  BY <1>1, <1>2, Answers

LEMMA EndsWithStep ==
  ASSUME IInv, NEW r \in Requests, requests[r].op /= "idle",
         NEW answer \in {"saved", "conflict", "expired", "failed"},
         EndsWith(r, answer),
         requests[r].op = "shortcut" => requests[r].attachment /= None,
         answer = "saved" /\ requests[r].op \in {"capture", "shortcut"} =>
           /\ events[requests[r].key].stored
           /\ kind[requests[r].key] = "file" =>
                events[requests[r].key].attachment = requests[r].attachment,
         UNCHANGED <<kind, server>>
  PROVE  IInv'
<1>1. CASE requests[r].op /= "shortcut"
  <2>1. Reply(r, answer)
    BY <1>1, Zenon DEF EndsWith
  <2> QED
    BY <2>1, JustAnswers
<1>2. CASE requests[r].op = "shortcut"
  <2> DEFINE one == [requests[r] EXCEPT !.at = "discard"]
             q == [one EXCEPT !.answer = answer]
  <2>1. requests' = [requests EXCEPT ![r] = q] /\ clients' = clients
    BY <1>2 DEF EndsWith
  <2>2. /\ kind' = kind /\ events' = events /\ holder' = holder
        /\ jobs' = jobs /\ rows' = rows /\ objects' = objects /\ expired' = expired
        /\ cleaner' = cleaner /\ removed' = removed /\ excused' = excused
    BY DEF server
  <2>3. /\ requests \in [Requests -> RequestRecord] /\ FrontKnown /\ RequestKnown(r)
        /\ requests[r] \in RequestRecord /\ rows' \in [Attachments -> RowRecord]
    BY <2>2, FrontIsKnown DEF IInv, TypeOK
  <2>4. /\ one \in RequestRecord /\ one.at = "discard" /\ one.op = requests[r].op
        /\ one.key = requests[r].key /\ one.attachment = requests[r].attachment
        /\ one.duplicateOf = requests[r].duplicateOf
    BY <2>3 DEF RequestRecord
  <2> HIDE DEF one
  <2>5. /\ q \in RequestRecord /\ q.at = "discard" /\ q.op = requests[r].op
        /\ q.key = requests[r].key /\ q.attachment = requests[r].attachment
        /\ q.duplicateOf = requests[r].duplicateOf /\ q.answer = answer
    BY <2>4 DEF RequestRecord
  <2> HIDE DEF q
  <2>6. /\ Touches(r) /\ requests'[r] = q
    BY <2>1, <2>3, <2>5 DEF Touches
  <2>7. Goes(r) /\ EventsKept
    BY <2>1, <2>2, <2>5, <2>6 DEF Goes, EventsKept
  <2>8. FrontKnown' /\ Fewer
    BY <2>2, <2>3, <2>7, GoingFront
  <2>9. RequestKnown(r)'
    BY <1>2, <2>2, <2>3, <2>5, <2>6 DEF RequestKnown, Steps, RequestRecord
  <2> QED
    BY <2>2, <2>3, <2>5, <2>6, <2>8, <2>9, Reads
<1> QED
  BY <1>1, <1>2

LEMMA ReadPendingStep ==
  ASSUME IInv, NEW r \in Requests, ReadPending(r)
  PROVE  IInv'
<1>1. /\ requests[r].op = "put" /\ requests[r].at = "read" /\ UNCHANGED <<kind, server>>
      /\ Reply(r, "conflict") \/ Reply(r, "expired") \/ GoesTo(r, "store")
  BY Zenon DEF ReadPending, At
<1>2. CASE Reply(r, "conflict")
  BY <1>1, <1>2, JustAnswers
<1>3. CASE Reply(r, "expired")
  BY <1>1, <1>3, JustAnswers
<1>4. CASE GoesTo(r, "store")
  <2>1. "store" \in Steps(requests[r].op) \ {"schedule", "discard", "orphan"}
    BY <1>1 DEF Steps
  <2> QED
    BY <1>1, <1>4, <2>1, GoesOn
<1> QED
  BY <1>1, <1>2, <1>3, <1>4

LEMMA CheckUploadedStep ==
  ASSUME IInv, NEW r \in Requests, CheckUploaded(r)
  PROVE  IInv'
<1>1. /\ requests[r].op = "finalize" /\ requests[r].at = "read" /\ UNCHANGED <<kind, server>>
      /\ \/ Reply(r, "conflict")
         \/ Reply(r, "expired")
         \/ GoesTo(r, "mark") /\ requests[r].attachment \in objects
  BY Zenon DEF CheckUploaded, At
<1>2. CASE Reply(r, "conflict")
  BY <1>1, <1>2, JustAnswers
<1>3. CASE Reply(r, "expired")
  BY <1>1, <1>3, JustAnswers
<1>4. CASE GoesTo(r, "mark") /\ requests[r].attachment \in objects
  <2>1. "mark" \in Steps(requests[r].op) \ {"schedule", "discard", "orphan"}
    BY <1>1 DEF Steps
  <2>2. Sound(requests[r].attachment)
    BY <1>4 DEF Sound
  <2> QED
    BY <1>1, <1>4, <2>1, <2>2, GoesOn
<1> QED
  BY <1>1, <1>2, <1>3, <1>4

\* Where a capture stands: at these steps it is a request of the capture service, for an
\* attachment if it is a Shortcut's.
LEMMA CaptureAt ==
  ASSUME IInv, NEW r \in Requests,
         requests[r].at \in {"lookup", "duplicate", "require", "create", "raced", "schedule"}
  PROVE  /\ requests[r].op \in {"capture", "shortcut"} /\ requests[r].key \in Keys
         /\ requests[r].op = "shortcut" /\ requests[r].at /= "lookup" =>
              requests[r].attachment \in Attachments /\ requests[r].attachment /= None
         /\ {"duplicate", "require", "create", "raced"}
              \subseteq Steps(requests[r].op) \ {"schedule", "discard", "orphan"}
         /\ RequestKnown(r) /\ FrontKnown
<1>1. RequestKnown(r) /\ requests[r] \in RequestRecord
  BY DEF IInv, TypeOK
<1>2. requests[r].op /= "idle"
  BY <1>1 DEF RequestKnown, Idle
<1>3. requests[r].op \in {"capture", "shortcut"}
  BY <1>1, <1>2 DEF RequestKnown, Steps, RequestRecord
<1>4. {"duplicate", "require", "create", "raced"}
        \subseteq Steps(requests[r].op) \ {"schedule", "discard", "orphan"}
  BY <1>3 DEF Steps
<1>5. /\ requests[r].key \in Keys
      /\ requests[r].op = "shortcut" /\ requests[r].at /= "lookup" =>
           requests[r].attachment \in Attachments
  BY <1>1, <1>2 DEF RequestKnown
<1> QED
  BY <1>1, <1>3, <1>4, <1>5, NoneApart, FrontIsKnown

LEMMA ReplaysStep ==
  ASSUME IInv, NEW r \in Requests, requests[r].at \in {"lookup", "raced"},
         requests[r].op = "shortcut" => requests[r].attachment /= None,
         Replays(r), UNCHANGED <<kind, server>>
  PROVE  IInv'
<1> DEFINE same == events[requests[r].key].print = Fingerprint(r)
<1>1. /\ events[requests[r].key].stored
      /\ EndsWith(r, IF same THEN "saved" ELSE "conflict")
  BY Zenon DEF Replays
<1>2. requests[r].op \in {"capture", "shortcut"} /\ requests[r].key \in Keys /\ RequestKnown(r)
  BY CaptureAt
<1>3. CASE same
  <2>1. EndsWith(r, "saved")
    BY <1>1, <1>3
  <2>2. PICK k \in Keys : k = requests[r].key
    BY <1>2
  <2>3. EventKnown(k)
    BY DEF IInv
  <2>4. kind[k] = "file" => requests[r].op = "capture"
    BY <1>2, <2>2 DEF RequestKnown
  <2>5. kind[k] = "file" => events[k].attachment = requests[r].attachment
    BY <1>1, <1>3, <2>2, <2>3, <2>4 DEF EventKnown, Fingerprint
  <2> QED
    BY <1>1, <1>2, <2>1, <2>2, <2>5, EndsWithStep
<1>4. CASE ~same
  <2>1. EndsWith(r, "conflict")
    BY <1>1, <1>4
  <2> QED
    BY <1>2, <2>1, EndsWithStep
<1> QED
  BY <1>3, <1>4

LEMMA LookUpKeyStep ==
  ASSUME IInv, NEW r \in Requests, LookUpKey(r)
  PROVE  IInv'
<1>1. /\ requests[r].at = "lookup" /\ UNCHANGED <<kind, server>>
      /\ requests[r].op = "shortcut" => requests[r].attachment /= None
      /\ Replays(r) \/ GoesTo(r, "duplicate")
  BY Zenon DEF LookUpKey
<1>2. /\ requests[r].op \in {"capture", "shortcut"}
      /\ "duplicate" \in Steps(requests[r].op) \ {"schedule", "discard", "orphan"}
      /\ requests[r] \in RequestRecord
  BY <1>1, CaptureAt DEF IInv, TypeOK
<1>3. requests[r].op = "shortcut" => requests[r].attachment \in Attachments
  BY <1>1, <1>2 DEF RequestRecord
<1>4. CASE Replays(r)
  BY <1>1, <1>4, ReplaysStep
<1>5. CASE GoesTo(r, "duplicate")
  BY <1>1, <1>2, <1>3, <1>5, GoesOn
<1> QED
  BY <1>1, <1>4, <1>5

LEMMA RequireLinkableAttachmentStep ==
  ASSUME IInv, NEW r \in Requests, RequireLinkableAttachment(r)
  PROVE  IInv'
<1>1. /\ requests[r].at = "require" /\ UNCHANGED <<kind, server>>
      /\ EndsWith(r, "conflict") \/ EndsWith(r, "expired") \/ GoesTo(r, "create")
  BY Zenon DEF RequireLinkableAttachment
<1>2. /\ requests[r].op \in {"capture", "shortcut"}
      /\ "create" \in Steps(requests[r].op) \ {"schedule", "discard", "orphan"}
      /\ requests[r].op = "shortcut" =>
           requests[r].attachment \in Attachments /\ requests[r].attachment /= None
  BY <1>1, CaptureAt
<1>3. CASE EndsWith(r, "conflict")
  BY <1>1, <1>2, <1>3, EndsWithStep
<1>4. CASE EndsWith(r, "expired")
  BY <1>1, <1>2, <1>4, EndsWithStep
<1>5. CASE GoesTo(r, "create")
  BY <1>1, <1>2, <1>5, GoesOn
<1> QED
  BY <1>1, <1>3, <1>4, <1>5

LEMMA CreateThrowsStep ==
  ASSUME IInv, NEW r \in Requests, CreateThrows(r)
  PROVE  IInv'
<1>1. /\ requests[r].at = "create" /\ UNCHANGED <<kind, server>> /\ GoesTo(r, "raced")
  BY Zenon DEF CreateThrows
<1>2. /\ requests[r].op \in {"capture", "shortcut"}
      /\ "raced" \in Steps(requests[r].op) \ {"schedule", "discard", "orphan"}
      /\ requests[r].op = "shortcut" => requests[r].attachment \in Attachments
  BY <1>1, CaptureAt
<1> QED
  BY <1>1, <1>2, GoesOn

\* What a request learns of a duplicate is who holds the text.
LEMMA LearnsDuplicate ==
  ASSUME IInv, NEW r \in Requests, requests[r].at \in {"duplicate", "raced"},
         NEW q \in RequestRecord, requests' = [requests EXCEPT ![r] = q],
         clients' = clients, UNCHANGED <<kind, server>>,
         q.op = requests[r].op, q.key = requests[r].key,
         q.attachment = requests[r].attachment, q.at \in {"require", "create"},
         q.duplicateOf /= None => kind[requests[r].key] = "text" /\ q.duplicateOf = holder
  PROVE  IInv'
<1>1. /\ kind' = kind /\ events' = events /\ holder' = holder
      /\ jobs' = jobs /\ rows' = rows /\ objects' = objects /\ expired' = expired
      /\ cleaner' = cleaner /\ removed' = removed /\ excused' = excused
  BY DEF server
<1>2. /\ requests[r].op \in {"capture", "shortcut"} /\ requests[r].key \in Keys
      /\ {"duplicate", "require", "create", "raced"}
           \subseteq Steps(requests[r].op) \ {"schedule", "discard", "orphan"}
      /\ RequestKnown(r) /\ FrontKnown
      /\ requests[r].op = "shortcut" => requests[r].attachment \in Attachments
  BY CaptureAt
<1>3. Touches(r) /\ requests'[r] = q
  BY DEF Touches, IInv, TypeOK
<1>4. Goes(r) /\ EventsKept
  BY <1>1, <1>3 DEF Goes, EventsKept
<1>5. FrontKnown' /\ Fewer
  BY <1>1, <1>2, <1>4, GoingFront
<1>6. RequestKnown(r)'
  BY <1>1, <1>2, <1>3 DEF RequestKnown
<1>7. rows' \in [Attachments -> RowRecord]
  BY <1>1 DEF IInv, TypeOK
<1> QED
  BY <1>1, <1>3, <1>5, <1>6, <1>7, Reads

LEMMA LookUpDuplicateStep ==
  ASSUME IInv, NEW r \in Requests, LookUpDuplicate(r)
  PROVE  IInv'
<1> DEFINE a == requests[r].attachment
           step == IF a = None THEN "create" ELSE "require"
           found == IF kind[requests[r].key] = "text" THEN holder ELSE None
           fresh == a \notin expired
           one == [requests[r] EXCEPT !.at = step]
           two == [one EXCEPT !.duplicateOf = found]
           q == [two EXCEPT !.fresh = fresh]
<1>1. /\ requests[r].at = "duplicate" /\ clients' = clients /\ UNCHANGED <<kind, server>>
  BY Zenon DEF LookUpDuplicate
<1>2. requests' = [requests EXCEPT ![r] =
        [[[@ EXCEPT !.at = step] EXCEPT !.duplicateOf = found] EXCEPT !.fresh = fresh]]
  BY Zenon DEF LookUpDuplicate
<1>3. /\ step \in {"create", "require"} /\ found \in Keys \cup {None}
      /\ found /= None => kind[requests[r].key] = "text" /\ found = holder
      /\ fresh \in BOOLEAN /\ requests[r] \in RequestRecord
  BY DEF IInv, TypeOK
<1> HIDE DEF step, found, fresh
<1>4. requests' = [requests EXCEPT ![r] = q]
  BY <1>2
<1>5. /\ one \in RequestRecord /\ one.at = step /\ one.op = requests[r].op
      /\ one.key = requests[r].key /\ one.attachment = requests[r].attachment
  BY <1>3 DEF RequestRecord
<1> HIDE DEF one
<1>6. /\ two \in RequestRecord /\ two.at = step /\ two.op = requests[r].op
      /\ two.key = requests[r].key /\ two.attachment = requests[r].attachment
      /\ two.duplicateOf = found
  BY <1>3, <1>5 DEF RequestRecord
<1> HIDE DEF two
<1>7. /\ q \in RequestRecord /\ q.at = step /\ q.op = requests[r].op
      /\ q.key = requests[r].key /\ q.attachment = requests[r].attachment
      /\ q.duplicateOf = found
  BY <1>3, <1>6 DEF RequestRecord
<1> HIDE DEF q
<1> QED
  BY <1>1, <1>3, <1>4, <1>7, LearnsDuplicate

LEMMA LookAgainStep ==
  ASSUME IInv, NEW r \in Requests, LookAgain(r)
  PROVE  IInv'
<1> DEFINE one == [requests[r] EXCEPT !.at = "create"]
           q == [one EXCEPT !.duplicateOf = holder]
<1>1. /\ requests[r].at = "raced" /\ UNCHANGED <<kind, server>>
      /\ \/ Replays(r)
         \/ /\ kind[requests[r].key] = "text"
            /\ requests' = [requests EXCEPT ![r] =
                 [@ EXCEPT !.at = "create", !.duplicateOf = holder]]
            /\ clients' = clients
         \/ EndsWith(r, "failed")
  BY Zenon DEF LookAgain
<1>2. /\ requests[r].op \in {"capture", "shortcut"}
      /\ requests[r].op = "shortcut" =>
           requests[r].attachment \in Attachments /\ requests[r].attachment /= None
  BY <1>1, CaptureAt
<1>3. CASE Replays(r)
  BY <1>1, <1>2, <1>3, ReplaysStep
<1>4. CASE EndsWith(r, "failed")
  BY <1>1, <1>2, <1>4, EndsWithStep
<1>5. CASE /\ kind[requests[r].key] = "text"
           /\ requests' = [requests EXCEPT ![r] =
                [@ EXCEPT !.at = "create", !.duplicateOf = holder]]
           /\ clients' = clients
  <2>1. requests' = [requests EXCEPT ![r] = q]
    BY <1>5
  <2>2. requests[r] \in RequestRecord /\ holder \in Keys \cup {None}
    BY DEF IInv, TypeOK
  <2>3. /\ one \in RequestRecord /\ one.at = "create" /\ one.op = requests[r].op
        /\ one.key = requests[r].key /\ one.attachment = requests[r].attachment
    BY <2>2 DEF RequestRecord
  <2> HIDE DEF one
  <2>4. /\ q \in RequestRecord /\ q.at = "create" /\ q.op = requests[r].op
        /\ q.key = requests[r].key /\ q.attachment = requests[r].attachment
        /\ q.duplicateOf = holder
    BY <2>2, <2>3 DEF RequestRecord
  <2> HIDE DEF q
  <2> QED
    BY <1>1, <1>5, <2>1, <2>4, LearnsDuplicate
<1> QED
  BY <1>1, <1>3, <1>4, <1>5

LEMMA ReplayShortcutStep ==
  ASSUME IInv, NEW r \in Requests, ReplayShortcut(r)
  PROVE  IInv'
<1>1. /\ requests[r].op = "shortcut" /\ requests[r].at = "lookup"
      /\ requests[r].attachment = None /\ UNCHANGED <<kind, server>>
      /\ \/ events[requests[r].key].stored /\ Reply(r, "saved")
         \/ GoesTo(r, "reserve")
  BY Zenon DEF ReplayShortcut, At
<1>2. RequestKnown(r) /\ kind[requests[r].key] = "shortcut"
  BY <1>1 DEF IInv, RequestKnown
<1>3. CASE events[requests[r].key].stored /\ Reply(r, "saved")
  BY <1>1, <1>2, <1>3, JustAnswers
<1>4. CASE GoesTo(r, "reserve")
  <2>1. "reserve" \in Steps(requests[r].op) \ {"schedule", "discard", "orphan"}
    BY <1>1 DEF Steps
  <2> QED
    BY <1>1, <1>4, <2>1, GoesOn
<1> QED
  BY <1>1, <1>3, <1>4

LEMMA ShortcutThrowsStep ==
  ASSUME IInv, NEW r \in Requests, ShortcutThrows(r)
  PROVE  IInv'
<1>1. /\ requests[r].op = "shortcut" /\ requests[r].attachment /= None
      /\ EndsWith(r, "failed") /\ UNCHANGED <<kind, server>>
  BY Zenon DEF ShortcutThrows
<1> QED
  BY <1>1, EndsWithStep

LEMMA RequestDiesStep ==
  ASSUME IInv, NEW r \in Requests, RequestDies(r)
  PROVE  IInv'
<1>1. /\ requests[r] /= Idle /\ Reply(r, "failed") /\ UNCHANGED <<kind, server>>
  BY Zenon DEF RequestDies
<1>2. requests[r].op /= "idle"
  BY <1>1 DEF IInv, RequestKnown
<1> QED
  BY <1>1, <1>2, JustAnswers

-----------------------------------------------------------------------------
(* Rows *)

LEMMA SetStatusFields ==
  ASSUME rows \in [Attachments -> RowRecord], NEW a \in Attachments,
         NEW status \in {"absent", "pending", "uploaded", "finalized", "linked", "orphaned",
                         "deleted"},
         SetStatus(a, status)
  PROVE  /\ rows' \in [Attachments -> RowRecord] /\ rows'[a].status = status
         /\ \A b \in Attachments : rows'[b].item = rows[b].item
         /\ \A b \in Attachments \ {a} : rows'[b] = rows[b]
<1> DEFINE new == [rows[a] EXCEPT !.status = status]
<1>1. rows' = [rows EXCEPT ![a] = new]
  BY DEF SetStatus
<1>2. new \in RowRecord /\ new.status = status /\ new.item = rows[a].item
  BY DEF RowRecord
<1> HIDE DEF new
<1> QED
  BY <1>1, <1>2

LEMMA GivesUpFields ==
  ASSUME rows \in [Attachments -> RowRecord], NEW a \in Attachments,
         GivesUp(a) \/ UNCHANGED rows
  PROVE  /\ rows' \in [Attachments -> RowRecord]
         /\ \A b \in Attachments : rows'[b].item = rows[b].item
         /\ \A b \in Attachments \ {a} : rows'[b] = rows[b]
         /\ \/ rows'[a] = rows[a]
            \/ rows[a].item = None /\ rows'[a].status = "orphaned"
<1>1. CASE rows' = rows
  BY <1>1
<1>2. CASE rows[a].item = None /\ SetStatus(a, "orphaned")
  BY <1>2, SetStatusFields
<1>3. rows' = rows \/ (rows[a].item = None /\ SetStatus(a, "orphaned"))
  BY DEF GivesUp
<1> QED
  BY <1>1, <1>2, <1>3

\* The status of a row on its way to "finalized".
LEMMA StatusSteps ==
  ASSUME IInv, NEW a \in Attachments, NEW status \in {"pending", "uploaded", "finalized"},
         status = "finalized" => Sound(a), SetStatus(a, status),
         UNCHANGED <<kind, events, holder, jobs, objects, expired, cleaner, removed, excused>>
  PROVE  /\ rows' \in [Attachments -> RowRecord]
         /\ \A b \in Attachments : rows'[b].item = rows[b].item
         /\ \A b \in Attachments : rows'[b] = rows[b] \/ (b = a /\ RowKnown(b)')
<1>1. /\ rows' \in [Attachments -> RowRecord] /\ rows'[a].status = status
      /\ \A b \in Attachments : rows'[b].item = rows[b].item
      /\ \A b \in Attachments \ {a} : rows'[b] = rows[b]
  BY SetStatusFields DEF IInv, TypeOK
<1>2. RowKnown(a)
  BY DEF IInv
<1>3. RowKnown(a)'
  BY <1>1, <1>2 DEF RowKnown, Sound
<1> QED
  BY <1>1, <1>3

LEMMA InitUploadStep ==
  ASSUME IInv, NEW r \in Requests, InitUpload(r)
  PROVE  IInv'
<1>1. /\ requests[r].op = "init"
      /\ UNCHANGED <<kind, events, holder, jobs, objects, expired, cleaner, removed, excused>>
      /\ \/ /\ rows[requests[r].attachment] = NoRow
            /\ SetStatus(requests[r].attachment, "pending") /\ Reply(r, "saved")
         \/ /\ Reply(r, "expired") \/ Reply(r, "unavailable") \/ Reply(r, "saved")
            /\ rows' = rows
  BY Zenon DEF InitUpload, At
<1>2. PICK a \in Attachments : a = requests[r].attachment
  BY <1>1 DEF IInv, RequestKnown
<1>3. rows \in [Attachments -> RowRecord]
  BY DEF IInv, TypeOK
<1>4. CASE /\ rows[requests[r].attachment] = NoRow
           /\ SetStatus(requests[r].attachment, "pending") /\ Reply(r, "saved")
  <2>1. SetStatus(a, "pending") /\ rows[a].status /= "linked"
    BY <1>2, <1>4 DEF NoRow
  <2>2. /\ rows' \in [Attachments -> RowRecord]
        /\ \A b \in Attachments : rows'[b].item = rows[b].item
        /\ \A b \in Attachments : rows'[b] = rows[b] \/ (b = a /\ RowKnown(b)')
    BY <1>1, <2>1, StatusSteps
  <2> QED
    BY <1>1, <1>4, <2>1, <2>2, Answers
<1>5. ASSUME NEW answer \in {"expired", "unavailable", "saved"}, Reply(r, answer), rows' = rows
      PROVE  IInv'
  BY <1>1, <1>3, <1>5, Answers
<1> QED
  BY <1>1, <1>4, <1>5

LEMMA MarkUploadedStep ==
  ASSUME IInv, NEW r \in Requests, MarkUploaded(r)
  PROVE  IInv'
<1>1. /\ requests[r].op = "put" /\ Reply(r, "saved")
      /\ UNCHANGED <<kind, events, holder, jobs, objects, expired, cleaner, removed, excused>>
      /\ \/ /\ rows[requests[r].attachment].status = "pending"
            /\ SetStatus(requests[r].attachment, "uploaded")
         \/ rows' = rows
  BY Zenon DEF MarkUploaded, At
<1>2. PICK a \in Attachments : a = requests[r].attachment
  BY <1>1 DEF IInv, RequestKnown
<1>3. rows \in [Attachments -> RowRecord]
  BY DEF IInv, TypeOK
<1>4. CASE rows' = rows
  BY <1>1, <1>3, <1>4, Answers
<1>5. CASE /\ rows[requests[r].attachment].status = "pending"
           /\ SetStatus(requests[r].attachment, "uploaded")
  <2>1. SetStatus(a, "uploaded") /\ rows[a].status /= "linked"
    BY <1>2, <1>5
  <2>2. /\ rows' \in [Attachments -> RowRecord]
        /\ \A b \in Attachments : rows'[b].item = rows[b].item
        /\ \A b \in Attachments : rows'[b] = rows[b] \/ (b = a /\ RowKnown(b)')
    BY <1>1, <2>1, StatusSteps
  <2> QED
    BY <1>1, <2>1, <2>2, Answers
<1> QED
  BY <1>1, <1>4, <1>5

\* A row says "finalized" of bytes that were there when the request looked.
LEMMA MarkFinalizedStep ==
  ASSUME IInv, NEW r \in Requests, MarkFinalized(r)
  PROVE  IInv'
<1>1. /\ requests[r].op = "finalize" /\ requests[r].at = "mark" /\ Reply(r, "saved")
      /\ UNCHANGED <<kind, events, holder, jobs, objects, expired, cleaner, removed, excused>>
      /\ \/ /\ rows[requests[r].attachment].status \in {"uploaded", "finalized"}
            /\ SetStatus(requests[r].attachment, "finalized")
         \/ rows' = rows
  BY Zenon DEF MarkFinalized, At
<1>2. PICK a \in Attachments : a = requests[r].attachment
  BY <1>1 DEF IInv, RequestKnown
<1>3. rows \in [Attachments -> RowRecord]
  BY DEF IInv, TypeOK
<1>4. CASE rows' = rows
  BY <1>1, <1>3, <1>4, Answers
<1>5. CASE /\ rows[requests[r].attachment].status \in {"uploaded", "finalized"}
           /\ SetStatus(requests[r].attachment, "finalized")
  <2>1. SetStatus(a, "finalized") /\ rows[a].status /= "linked"
    BY <1>2, <1>5
  <2>2. Sound(a)
    BY <1>1, <1>2 DEF IInv, RequestKnown
  <2>3. /\ rows' \in [Attachments -> RowRecord]
        /\ \A b \in Attachments : rows'[b].item = rows[b].item
        /\ \A b \in Attachments : rows'[b] = rows[b] \/ (b = a /\ RowKnown(b)')
    BY <1>1, <2>1, <2>2, StatusSteps
  <2> QED
    BY <1>1, <2>1, <2>3, Answers
<1> QED
  BY <1>1, <1>4, <1>5

LEMMA MarkShortcutStoredStep ==
  ASSUME IInv, NEW r \in Requests, MarkShortcutStored(r)
  PROVE  IInv'
<1>1. /\ requests[r].op = "shortcut" /\ requests[r].at = "mark" /\ GoesTo(r, "lookup")
      /\ UNCHANGED <<kind, events, holder, jobs, objects, expired, cleaner, removed, excused>>
      /\ \/ /\ rows[requests[r].attachment].status = "pending"
            /\ SetStatus(requests[r].attachment, "finalized")
         \/ rows' = rows
  BY Zenon DEF MarkShortcutStored, At
<1>2. PICK a \in Attachments : a = requests[r].attachment
  BY <1>1 DEF IInv, RequestKnown
<1>3. rows \in [Attachments -> RowRecord]
  BY DEF IInv, TypeOK
<1>4. "lookup" \in Steps(requests[r].op) \ {"schedule", "discard", "orphan"}
  BY <1>1 DEF Steps
<1>5. EventsKept
  BY <1>1 DEF EventsKept
<1>6. /\ Touches(r) /\ FrontKnown' /\ Fewer /\ RequestKnown(r)' /\ requests'[r].at = "lookup"
  BY <1>1, <1>4, <1>5, GoesToKnown
<1>7. CASE rows' = rows
  BY <1>1, <1>3, <1>6, <1>7, Reads
<1>8. CASE /\ rows[requests[r].attachment].status = "pending"
           /\ SetStatus(requests[r].attachment, "finalized")
  <2>1. SetStatus(a, "finalized") /\ rows[a].status /= "linked"
    BY <1>2, <1>8
  <2>2. Sound(a)
    BY <1>1, <1>2 DEF IInv, RequestKnown
  <2>3. /\ rows' \in [Attachments -> RowRecord]
        /\ \A b \in Attachments : rows'[b].item = rows[b].item
        /\ \A b \in Attachments : rows'[b] = rows[b] \/ (b = a /\ RowKnown(b)')
    BY <1>1, <2>1, <2>2, StatusSteps
  <2> QED
    BY <1>1, <1>6, <2>1, <2>3, Reads
<1> QED
  BY <1>1, <1>7, <1>8

\* A Shortcut request takes a reservation nobody else has.
LEMMA ReserveShortcutStep ==
  ASSUME IInv, NEW r \in Requests, ReserveShortcut(r)
  PROVE  IInv'
<1>1. /\ requests[r].op = "shortcut" /\ requests[r].at = "reserve" /\ clients' = clients
      /\ UNCHANGED <<kind, events, holder, jobs, objects, expired, cleaner, removed, excused>>
  BY Zenon DEF ReserveShortcut, At
<1>2. PICK a \in Unused :
        /\ SetStatus(a, "pending")
        /\ requests' = [requests EXCEPT ![r] =
             [[@ EXCEPT !.at = "store"] EXCEPT !.attachment = a]]
  BY DEF ReserveShortcut
<1> DEFINE one == [requests[r] EXCEPT !.at = "store"]
           q == [one EXCEPT !.attachment = a]
<1>3. requests' = [requests EXCEPT ![r] = q]
  BY <1>2
<1>4. /\ a \in Attachments /\ rows[a] = NoRow
      /\ \A k \in Keys : clients[k].reservation /= a
      /\ \A s \in Requests : requests[s].attachment /= a
  BY <1>2 DEF Unused
<1>5. requests[r] \in RequestRecord /\ RequestKnown(r) /\ FrontKnown
      /\ requests[r].attachment = None
  BY <1>1, FrontIsKnown DEF IInv, TypeOK, RequestKnown
<1>6. /\ one \in RequestRecord /\ one.at = "store" /\ one.op = requests[r].op
      /\ one.key = requests[r].key /\ one.duplicateOf = requests[r].duplicateOf
  BY <1>5 DEF RequestRecord
<1> HIDE DEF one
<1>7. /\ q \in RequestRecord /\ q.at = "store" /\ q.op = requests[r].op
      /\ q.key = requests[r].key /\ q.duplicateOf = requests[r].duplicateOf
      /\ q.attachment = a
  BY <1>4, <1>6 DEF RequestRecord
<1> HIDE DEF q
<1>8. Touches(r) /\ requests'[r] = q
  BY <1>3, <1>7 DEF Touches, IInv, TypeOK
<1>9. RequestKnown(r)'
  BY <1>1, <1>4, <1>5, <1>7, <1>8 DEF RequestKnown, Steps
<1>10. ASSUME NEW k \in Keys PROVE ClientKnown(k)'
  <2>1. ClientKnown(k)
    BY DEF IInv
  <2>2. CASE clients[k].phase = "waiting"
    <3> DEFINE s == clients[k].request
    <3>1. /\ s \in Requests /\ requests'[s].key = requests[s].key
          /\ requests'[s].op = requests[s].op
          /\ requests[s].op /= "shortcut" => requests'[s].attachment = requests[s].attachment
      BY <1>1, <1>7, <1>8, <2>1, <2>2 DEF ClientKnown, Touches
    <3> QED
      BY <1>1, <2>1, <2>2, <3>1 DEF ClientKnown, Names
  <2>3. CASE clients[k].phase /= "waiting"
    BY <1>1, <2>1, <2>3 DEF ClientKnown
  <2> QED
    BY <2>2, <2>3
<1>11. OwnAttachment'
  BY <1>1, <1>4, <1>7, <1>8 DEF FrontKnown, IInv, OwnAttachment, Touches
<1>12. FrontKnown'
  BY <1>1, <1>5, <1>8, <1>10, <1>11 DEF FrontKnown, Touches
<1>13. Fewer
  <2>1. ASSUME NEW b \in Attachments, rows[b] /= NoRow
        PROVE  (Named(b)' => Named(b)) /\ (Discarding(b) => Discarding(b)')
    <3>1. b /= a
      BY <1>4, <2>1
    <3>2. Named(b)' => Named(b)
      BY <1>1, <1>7, <1>8, <3>1 DEF Named, Touches
    <3>3. Discarding(b) => Discarding(b)'
      BY <1>1, <1>8 DEF Discarding, Touches
    <3> QED
      BY <3>2, <3>3
  <2> QED
    BY <2>1 DEF Fewer
<1>14. /\ rows' \in [Attachments -> RowRecord]
       /\ \A b \in Attachments : rows'[b].item = rows[b].item
       /\ \A b \in Attachments : rows'[b] = rows[b] \/ (b = a /\ RowKnown(b)')
  BY <1>1, <1>2, <1>4, StatusSteps
<1>15. rows[a].status /= "linked" /\ requests'[r].at /= "schedule"
  BY <1>4, <1>7, <1>8 DEF NoRow
<1> QED
  BY <1>1, <1>8, <1>9, <1>12, <1>13, <1>14, <1>15, Reads

\* A Shortcut request gives its row up when nobody else can ask for it, and once it has
\* tried to delete the object.
LEMMA DiscardRowStep ==
  ASSUME IInv, NEW r \in Requests, DiscardRow(r)
  PROVE  IInv'
<1>1. /\ requests[r].op = "shortcut" /\ requests[r].at = "orphan"
      /\ Reply(r, requests[r].answer)
      /\ UNCHANGED <<kind, events, holder, jobs, objects, expired, cleaner, removed, excused>>
      /\ GivesUp(requests[r].attachment) \/ UNCHANGED rows
  BY Zenon DEF DiscardRow, At
<1>2. RequestKnown(r) /\ FrontKnown /\ requests[r] \in RequestRecord
  BY FrontIsKnown DEF IInv, TypeOK
<1>3. PICK a \in Attachments : a = requests[r].attachment
  BY <1>1, <1>2 DEF RequestKnown
<1>4. PICK answer \in {"saved", "conflict", "expired", "failed"} : answer = requests[r].answer
  BY <1>2 DEF RequestRecord
<1>5. Reply(r, answer)
  BY <1>1, <1>4
<1>6. answer = "saved" =>
        /\ events[requests[r].key].stored /\ kind[requests[r].key] = "shortcut"
  BY <1>1, <1>2, <1>4 DEF RequestKnown
<1>7. EventsKept
  BY <1>1 DEF EventsKept
<1>8. \A b \in Attachments : b = requests[r].attachment => ~Named(b)'
  BY <1>1, <1>2, <1>5, <1>6, <1>7, ReplyFront
<1>9. /\ rows' \in [Attachments -> RowRecord]
      /\ \A b \in Attachments : rows'[b].item = rows[b].item
      /\ \A b \in Attachments \ {a} : rows'[b] = rows[b]
      /\ \/ rows'[a] = rows[a]
         \/ rows[a].item = None /\ rows'[a].status = "orphaned"
  BY <1>1, <1>3, GivesUpFields DEF IInv, TypeOK
<1>10. rows'[a].status = "orphaned" => RowKnown(a)'
  <2>1. ~Named(a)'
    BY <1>3, <1>8
  <2>2. a \notin objects \/ a \in excused
    BY <1>1, <1>2, <1>3 DEF RequestKnown
  <2> QED
    BY <1>1, <2>1, <2>2 DEF RowKnown
<1> QED
  BY <1>1, <1>5, <1>6, <1>9, <1>10, Answers

-----------------------------------------------------------------------------
(* Objects *)

\* A step that concerns one attachment, its row or its object, and makes no event.
LEMMA Moves ==
  ASSUME IInv, NEW a \in Attachments,
         FrontKnown', Fewer, \A s \in Requests : RequestKnown(s)', OneSchedules',
         CleanerKnown', RowKnown(a)',
         UNCHANGED <<kind, events, holder, jobs>>,
         rows' \in [Attachments -> RowRecord],
         objects' \subseteq Attachments, expired' \subseteq Attachments,
         removed' \subseteq Attachments, excused' \subseteq Attachments,
         cleaner' \in [at : {"idle", "delete", "mark"}, attachment : Attachments \cup {None}],
         expired \subseteq expired', removed \subseteq removed', excused \subseteq excused',
         \A b \in Attachments \ {a} :
           rows'[b] = rows[b] /\ (b \in objects' <=> b \in objects) /\ (b \in removed' <=> b \in removed),
         rows[a].status = "linked" /\ rows[a].item /= None =>
           \/ a \in removed'
           \/ /\ rows'[a] = rows[a]
              /\ a \in objects \cup excused => a \in objects' \cup excused'
  PROVE  IInv'
<1>1. /\ kind' = kind /\ events' = events /\ holder' = holder /\ jobs' = jobs
  OBVIOUS
<1>2. TypeOK'
  BY <1>1 DEF IInv, TypeOK, FrontKnown
<1>3. ASSUME NEW k \in Keys PROVE ClientKnown(k)' /\ EventKnown(k)'
  <2> DEFINE e == events[k]
  <2>1. EventKnown(k) /\ ClientKnown(k)'
    BY DEF IInv, FrontKnown
  <2>2. ASSUME e.stored, kind[k] /= "text"
        PROVE  \/ /\ rows'[e.attachment] = [status |-> "linked", item |-> e.item]
                  /\ e.attachment \in objects' \cup excused'
               \/ e.attachment \in removed'
    <3>1. PICK b \in Attachments : b = e.attachment
      BY <2>1, <2>2 DEF EventKnown
    <3>2. PICK i \in Keys : i = e.item
      BY <2>1, <2>2 DEF EventKnown
    <3>3. \/ rows[b] = [status |-> "linked", item |-> i] /\ b \in objects \cup excused
          \/ b \in removed
      BY <2>1, <2>2, <3>1, <3>2 DEF EventKnown
    <3>4. rows[b] = [status |-> "linked", item |-> i] =>
            rows[b].status = "linked" /\ rows[b].item /= None
      BY NoneApart
    <3>5. CASE b = a
      BY <3>1, <3>2, <3>3, <3>4, <3>5
    <3>6. CASE b /= a
      BY <3>1, <3>2, <3>3, <3>6
    <3> QED
      BY <3>5, <3>6
  <2>3. EventKnown(k)'
    BY <1>1, <2>1, <2>2 DEF EventKnown
  <2> QED
    BY <2>1, <2>3
<1>4. OwnAttachment' /\ HolderKnown'
  BY <1>1 DEF FrontKnown, IInv, HolderKnown
<1>5. ASSUME NEW b \in Attachments PROVE RowKnown(b)'
  <2>1. CASE b = a
    BY <2>1
  <2>2. CASE b /= a
    <3>1. /\ RowKnown(b) /\ rows'[b] = rows[b] /\ (b \in objects' <=> b \in objects)
          /\ (b \in removed' <=> b \in removed)
      BY <2>2 DEF IInv
    <3>2. rows[b].status \in {"finalized", "orphaned"} => rows[b] /= NoRow
      BY DEF NoRow
    <3>3. rows[b].status \in {"finalized", "orphaned"} =>
            /\ Named(b)' => Named(b)
            /\ Named(b)' /\ ~Discarding(b)' => ~Discarding(b)
      BY <3>2 DEF Fewer
    <3> QED
      BY <3>1, <3>3 DEF RowKnown, Sound
  <2> QED
    BY <2>1, <2>2
<1> QED
  BY <1>2, <1>3, <1>4, <1>5 DEF IInv

\* The bytes of a reservation arrive, from the form's request or from a Shortcut's.
LEMMA Stores ==
  ASSUME IInv, NEW r \in Requests, NEW a \in Attachments, a = requests[r].attachment,
         requests[r].op \in {"put", "shortcut"}, requests[r].at = "store",
         objects' = objects \cup {a},
         excused' = IF a \in expired \cup removed THEN excused \cup {a} ELSE excused,
         GoesTo(r, "mark"),
         UNCHANGED <<kind, events, holder, jobs, rows, expired, cleaner, removed>>
  PROVE  IInv'
<1>1. /\ kind' = kind /\ events' = events /\ holder' = holder /\ jobs' = jobs
      /\ rows' = rows /\ expired' = expired /\ cleaner' = cleaner /\ removed' = removed
  OBVIOUS
<1>2. "mark" \in Steps(requests[r].op) \ {"schedule", "discard", "orphan"} /\ EventsKept
  BY <1>1 DEF Steps, EventsKept
<1>3. \A b \in Attachments : b = requests[r].attachment => Sound(b)'
  BY DEF Sound
<1>4. /\ Touches(r) /\ FrontKnown' /\ Fewer /\ RequestKnown(r)' /\ requests'[r].at = "mark"
  BY <1>1, <1>2, <1>3, GoesToKnown
<1>5. ASSUME NEW s \in Requests PROVE RequestKnown(s)'
  <2>1. CASE s = r
    BY <1>4, <2>1
  <2>2. CASE s /= r
    <3>1. requests'[s] = requests[s] /\ RequestKnown(s)
      BY <1>4, <2>2 DEF Touches, IInv
    <3>2. requests[s].op = "shortcut" => requests[s].attachment /= a
      BY <2>2, NoneApart DEF IInv, OwnAttachment
    <3>3. \A b \in Attachments : b = requests[s].attachment => AttachmentKept(s, b)
      BY <1>1, <3>2 DEF AttachmentKept, Sound
    <3> QED
      BY <1>1, <1>2, <3>1, <3>3, OthersStay
  <2> QED
    BY <2>1, <2>2
<1>6. OneSchedules'
  BY <1>4 DEF IInv, OneSchedules, Touches
<1>7. RowKnown(a) /\ Named(a)
  BY DEF IInv, Named
<1>8. RowKnown(a)'
  <2>1. a \in expired \cup removed => a \in excused'
    OBVIOUS
  <2>2. rows[a].status = "orphaned" => a \in expired
    BY <1>7 DEF RowKnown
  <2>3. rows[a].status = "deleted" => a \in removed
    BY <1>7 DEF RowKnown
  <2> QED
    BY <1>1, <2>1, <2>2, <2>3 DEF RowKnown, Sound
<1>9. excused \subseteq excused' /\ excused' \subseteq Attachments
  BY DEF IInv, TypeOK
<1>10. CleanerKnown'
  <2>1. CleanerKnown /\ (a \in expired => a \in excused')
    BY DEF IInv
  <2> QED
    BY <1>1, <1>9, <2>1 DEF CleanerKnown
<1>11. /\ rows' \in [Attachments -> RowRecord]
       /\ objects' \subseteq Attachments /\ expired' \subseteq Attachments
       /\ removed' \subseteq Attachments
       /\ cleaner' \in [at : {"idle", "delete", "mark"}, attachment : Attachments \cup {None}]
  BY <1>1 DEF IInv, TypeOK
<1> QED
  BY <1>1, <1>4, <1>5, <1>6, <1>8, <1>9, <1>10, <1>11, Moves

LEMMA StoreBytesStep ==
  ASSUME IInv, NEW r \in Requests, StoreBytes(r)
  PROVE  IInv'
<1>1. requests[r].op = "put" /\ requests[r].at = "store"
  BY Zenon DEF StoreBytes, At
<1>2. PICK a \in Attachments : a = requests[r].attachment
  BY <1>1 DEF IInv, RequestKnown
<1>3. /\ objects' = objects \cup {a}
      /\ excused' = IF a \in expired \cup removed THEN excused \cup {a} ELSE excused
      /\ GoesTo(r, "mark")
      /\ UNCHANGED <<kind, events, holder, jobs, rows, expired, cleaner, removed>>
  BY <1>2, Zenon DEF StoreBytes
<1> QED
  BY <1>1, <1>2, <1>3, Stores

LEMMA StoreShortcutBytesStep ==
  ASSUME IInv, NEW r \in Requests, StoreShortcutBytes(r)
  PROVE  IInv'
<1>1. requests[r].op = "shortcut" /\ requests[r].at = "store"
  BY Zenon DEF StoreShortcutBytes, At
<1>2. PICK a \in Attachments : a = requests[r].attachment
  BY <1>1 DEF IInv, RequestKnown
<1>3. /\ objects' = objects \cup {a}
      /\ excused' = IF a \in expired \cup removed THEN excused \cup {a} ELSE excused
      /\ GoesTo(r, "mark")
      /\ UNCHANGED <<kind, events, holder, jobs, rows, expired, cleaner, removed>>
  BY <1>2, Zenon DEF StoreShortcutBytes
<1> QED
  BY <1>1, <1>2, <1>3, Stores

\* A Shortcut request deletes the object of its reservation, or fails to.
LEMMA DiscardObjectStep ==
  ASSUME IInv, NEW r \in Requests, DiscardObject(r)
  PROVE  IInv'
<1>1. /\ requests[r].op = "shortcut" /\ requests[r].at = "discard" /\ GoesTo(r, "orphan")
      /\ UNCHANGED <<kind, events, holder, jobs, rows, expired, cleaner, removed>>
  BY Zenon DEF DiscardObject, At
<1>2. PICK a \in Attachments : a = requests[r].attachment
  BY <1>1 DEF IInv, RequestKnown
<1>3. \/ /\ objects' = objects \ {a}
         /\ excused' = IF rows[a].item /= None THEN excused \cup {a} ELSE excused
      \/ /\ excused' = IF a \in objects THEN excused \cup {a} ELSE excused
         /\ objects' = objects
  BY <1>2, Zenon DEF DiscardObject
<1>4. /\ kind' = kind /\ events' = events /\ holder' = holder /\ jobs' = jobs
      /\ rows' = rows /\ expired' = expired /\ cleaner' = cleaner /\ removed' = removed
  BY <1>1
<1>5. /\ excused \subseteq excused' /\ excused' \subseteq excused \cup {a}
      /\ excused' \subseteq Attachments
      /\ objects' \subseteq objects /\ objects \subseteq objects' \cup {a}
      /\ a \notin objects' \/ a \in excused'
      /\ rows[a].item /= None /\ a \in objects \cup excused => a \in objects' \cup excused'
  BY <1>3 DEF IInv, TypeOK
<1>6. /\ requests \in [Requests -> RequestRecord] /\ RequestKnown(r) /\ FrontKnown /\ EventsKept
  BY <1>4, FrontIsKnown DEF IInv, TypeOK, EventsKept
<1>7. /\ Touches(r) /\ clients' = clients /\ requests'[r].at = "orphan"
      /\ requests'[r].op = requests[r].op /\ requests'[r].key = requests[r].key
      /\ requests'[r].attachment = requests[r].attachment
      /\ requests'[r].duplicateOf = requests[r].duplicateOf
      /\ requests'[r].answer = requests[r].answer
  BY <1>1, <1>6, GoesToFields
<1>8. Goes(r)
  BY <1>7 DEF Goes
<1>9. FrontKnown' /\ Fewer
  BY <1>4, <1>6, <1>8, GoingFront
<1>10. RequestKnown(r)'
  BY <1>1, <1>2, <1>4, <1>5, <1>6, <1>7 DEF RequestKnown, Steps
<1>11. ASSUME NEW s \in Requests PROVE RequestKnown(s)'
  <2>1. CASE s = r
    BY <1>10, <2>1
  <2>2. CASE s /= r
    <3>1. requests'[s] = requests[s] /\ RequestKnown(s)
      BY <1>7, <2>2 DEF Touches, IInv
    <3>2. requests[s].attachment /= a
      BY <1>1, <1>2, <2>2, NoneApart DEF IInv, OwnAttachment
    <3>3. \A b \in Attachments : b = requests[s].attachment => AttachmentKept(s, b)
      BY <1>4, <1>5, <3>2 DEF AttachmentKept, Sound
    <3> QED
      BY <1>4, <1>6, <3>1, <3>3, OthersStay
  <2> QED
    BY <2>1, <2>2
<1>12. OneSchedules'
  BY <1>7 DEF IInv, OneSchedules, Touches
<1>13. RowKnown(a)'
  <2>1. Discarding(a)'
    BY <1>2, <1>7 DEF Discarding
  <2>2. RowKnown(a) /\ (Named(a)' => Named(a) \/ rows[a] = NoRow)
    BY <1>9 DEF IInv, Fewer
  <2>3. rows[a].status = "orphaned" => rows[a] /= NoRow
    BY DEF NoRow
  <2> QED
    BY <1>4, <1>5, <2>1, <2>2, <2>3 DEF RowKnown
<1>14. CleanerKnown'
  BY <1>4, <1>5 DEF IInv, CleanerKnown
<1>15. /\ rows' \in [Attachments -> RowRecord]
       /\ objects' \subseteq Attachments /\ expired' \subseteq Attachments
       /\ removed' \subseteq Attachments
       /\ cleaner' \in [at : {"idle", "delete", "mark"}, attachment : Attachments \cup {None}]
  BY <1>4, <1>5 DEF IInv, TypeOK
<1>16. \A b \in Attachments \ {a} :
         rows'[b] = rows[b] /\ (b \in objects' <=> b \in objects) /\ (b \in removed' <=> b \in removed)
  BY <1>4, <1>5
<1> QED
  BY <1>1, <1>4, <1>5, <1>9, <1>11, <1>12, <1>13, <1>14, <1>15, <1>16, Moves

-----------------------------------------------------------------------------
(* The clock, the cleanup and the operator *)

\* A step of neither a client nor a request, that excuses nothing.
LEMMA ServerMoves ==
  ASSUME IInv, NEW a \in Attachments,
         CleanerKnown', RowKnown(a)',
         UNCHANGED <<kind, clients, requests, events, holder, jobs, excused>>,
         rows' \in [Attachments -> RowRecord],
         objects' \subseteq objects, expired' \subseteq Attachments,
         removed' \subseteq Attachments,
         cleaner' \in [at : {"idle", "delete", "mark"}, attachment : Attachments \cup {None}],
         expired \subseteq expired', removed \subseteq removed',
         Sound(a) => Sound(a)',
         \A b \in Attachments \ {a} :
           rows'[b] = rows[b] /\ (b \in objects' <=> b \in objects) /\ (b \in removed' <=> b \in removed),
         rows[a].status = "linked" /\ rows[a].item /= None =>
           \/ a \in removed'
           \/ /\ rows'[a] = rows[a]
              /\ a \in objects \cup excused => a \in objects' \cup excused'
  PROVE  IInv'
<1>1. /\ kind' = kind /\ events' = events /\ holder' = holder /\ jobs' = jobs
      /\ clients' = clients /\ requests' = requests /\ excused' = excused
  OBVIOUS
<1>2. FrontKnown'
  <2>1. ASSUME NEW k \in Keys PROVE ClientKnown(k)'
    <3>1. ClientKnown(k)
      BY DEF IInv
    <3> QED
      BY <1>1, <3>1 DEF ClientKnown, Names
  <2>2. OwnAttachment'
    BY <1>1 DEF IInv, OwnAttachment
  <2> QED
    BY <1>1, <2>1, <2>2 DEF FrontKnown, IInv, TypeOK
<1>3. Fewer
  BY <1>1 DEF Fewer, Named, Discarding
<1>4. ASSUME NEW s \in Requests PROVE RequestKnown(s)'
  <2>1. RequestKnown(s) /\ EventsKept
    BY <1>1 DEF IInv, EventsKept
  <2>2. ASSUME NEW b \in Attachments PROVE AttachmentKept(s, b)
    <3>1. CASE b = a
      BY <1>1, <3>1 DEF AttachmentKept
    <3>2. CASE b /= a
      BY <1>1, <3>2 DEF AttachmentKept, Sound
    <3> QED
      BY <3>1, <3>2
  <2> QED
    BY <1>1, <2>1, <2>2, OthersStay
<1>5. OneSchedules'
  BY <1>1 DEF IInv, OneSchedules
<1>6. objects' \subseteq Attachments /\ excused' \subseteq Attachments /\ excused \subseteq excused'
  BY <1>1 DEF IInv, TypeOK
<1> QED
  BY <1>1, <1>2, <1>3, <1>4, <1>5, <1>6, Moves

LEMMA ExpireStep ==
  ASSUME IInv, NEW a \in Attachments, Expire(a)
  PROVE  IInv'
<1>1. /\ expired' = expired \cup {a}
      /\ UNCHANGED <<kind, clients, requests, events, holder, jobs, rows, objects,
                     cleaner, removed, excused>>
  BY Zenon DEF Expire
<1>2. RowKnown(a)' /\ (Sound(a) => Sound(a)')
  <2>1. RowKnown(a) /\ (Named(a)' <=> Named(a)) /\ (Discarding(a)' <=> Discarding(a))
    BY <1>1 DEF IInv, Named, Discarding
  <2> QED
    BY <1>1, <2>1 DEF RowKnown, Sound
<1>3. CleanerKnown'
  BY <1>1 DEF IInv, CleanerKnown
<1>4. TypeOK
  BY DEF IInv
<1> QED
  BY <1>1, <1>2, <1>3, <1>4, ServerMoves DEF TypeOK

LEMMA FindExpiredOrphanStep ==
  ASSUME IInv, NEW a \in Attachments, FindExpiredOrphan(a)
  PROVE  IInv'
<1>1. /\ rows[a].item = None /\ a \in expired
      /\ cleaner' = [at |-> "delete", attachment |-> a]
      /\ UNCHANGED <<kind, clients, requests, events, holder, jobs, rows, objects,
                     expired, removed, excused>>
  BY Zenon DEF FindExpiredOrphan, Unlinked
<1>2. RowKnown(a)' /\ (Sound(a) => Sound(a)')
  <2>1. RowKnown(a) /\ (Named(a)' <=> Named(a)) /\ (Discarding(a)' <=> Discarding(a))
    BY <1>1 DEF IInv, Named, Discarding
  <2> QED
    BY <1>1, <2>1 DEF RowKnown, Sound
<1>3. CleanerKnown'
  BY <1>1 DEF CleanerKnown
<1>4. TypeOK
  BY DEF IInv
<1>5. cleaner' \in [at : {"idle", "delete", "mark"}, attachment : Attachments \cup {None}]
  BY <1>1
<1> QED
  BY <1>1, <1>2, <1>3, <1>4, <1>5, ServerMoves DEF TypeOK

\* The cleanup deletes the object of an attachment that has expired, so that nobody who
\* counts on it can still be sure of it.
LEMMA DeleteObjectStep ==
  ASSUME IInv, DeleteObject
  PROVE  IInv'
<1>1. /\ cleaner.at = "delete" /\ objects' = objects \ {cleaner.attachment}
      /\ cleaner' = [cleaner EXCEPT !.at = "mark"]
      /\ UNCHANGED <<kind, clients, requests, events, holder, jobs, rows, expired, removed,
                     excused>>
  BY Zenon DEF DeleteObject
<1>2. TypeOK /\ CleanerKnown
  BY DEF IInv
<1>3. PICK a \in Attachments : a = cleaner.attachment
  BY <1>1, <1>2 DEF CleanerKnown, TypeOK
<1>4. a \in expired /\ (rows[a].item /= None => a \in excused)
  BY <1>1, <1>2, <1>3 DEF CleanerKnown
<1>5. /\ cleaner' \in [at : {"idle", "delete", "mark"}, attachment : Attachments \cup {None}]
      /\ cleaner'.at = "mark" /\ cleaner'.attachment = a
  BY <1>1, <1>2, <1>3 DEF TypeOK
<1>6. Sound(a)'
  BY <1>1, <1>4 DEF Sound
<1>7. RowKnown(a)'
  <2>1. RowKnown(a) /\ (Named(a)' <=> Named(a))
    BY <1>1 DEF IInv, Named
  <2> QED
    BY <1>1, <1>3, <1>4, <1>6, <2>1 DEF RowKnown
<1>8. CleanerKnown'
  BY <1>1, <1>3, <1>4, <1>5 DEF CleanerKnown
<1>9. /\ rows' \in [Attachments -> RowRecord] /\ expired' \subseteq Attachments
      /\ removed' \subseteq Attachments /\ objects' \subseteq objects
      /\ expired \subseteq expired' /\ removed \subseteq removed'
  BY <1>1, <1>2 DEF TypeOK
<1>10. \A b \in Attachments \ {a} :
         rows'[b] = rows[b] /\ (b \in objects' <=> b \in objects) /\ (b \in removed' <=> b \in removed)
  BY <1>1, <1>3
<1>11. rows[a].status = "linked" /\ rows[a].item /= None =>
         \/ a \in removed'
         \/ /\ rows'[a] = rows[a]
            /\ a \in objects \cup excused => a \in objects' \cup excused'
  BY <1>1, <1>4
<1> QED
  BY <1>1, <1>5, <1>6, <1>7, <1>8, <1>9, <1>10, <1>11, ServerMoves

LEMMA MarkOrphanedStep ==
  ASSUME IInv, MarkOrphaned
  PROVE  IInv'
<1>1. /\ cleaner.at = "mark" /\ GivesUp(cleaner.attachment) /\ cleaner' = NoCleanup
      /\ UNCHANGED <<kind, clients, requests, events, holder, jobs, objects,
                     expired, removed, excused>>
  BY Zenon DEF MarkOrphaned
<1>2. TypeOK /\ CleanerKnown
  BY DEF IInv
<1>3. PICK a \in Attachments : a = cleaner.attachment
  BY <1>1, <1>2 DEF CleanerKnown, TypeOK
<1>4. a \in expired /\ (a \notin objects \/ a \in excused)
  BY <1>1, <1>2, <1>3 DEF CleanerKnown
<1>5. /\ rows' \in [Attachments -> RowRecord]
      /\ \A b \in Attachments : rows'[b].item = rows[b].item
      /\ \A b \in Attachments \ {a} : rows'[b] = rows[b]
      /\ \/ rows'[a] = rows[a]
         \/ rows[a].item = None /\ rows'[a].status = "orphaned"
  BY <1>1, <1>2, <1>3, GivesUpFields DEF TypeOK
<1>6. RowKnown(a)'
  <2>1. RowKnown(a) /\ (Named(a)' <=> Named(a)) /\ (Discarding(a)' <=> Discarding(a))
    BY <1>1 DEF IInv, Named, Discarding
  <2>2. CASE rows'[a] = rows[a]
    BY <1>1, <2>1, <2>2 DEF RowKnown, Sound
  <2>3. CASE rows'[a].status = "orphaned"
    BY <1>1, <1>4, <2>1, <2>3 DEF RowKnown
  <2> QED
    BY <1>5, <2>2, <2>3
<1>7. /\ CleanerKnown'
      /\ cleaner' \in [at : {"idle", "delete", "mark"}, attachment : Attachments \cup {None}]
  BY <1>1 DEF CleanerKnown, NoCleanup
<1>8. /\ expired' \subseteq Attachments /\ removed' \subseteq Attachments
      /\ objects' \subseteq objects /\ expired \subseteq expired' /\ removed \subseteq removed'
      /\ Sound(a) => Sound(a)'
  BY <1>1, <1>2 DEF TypeOK, Sound
<1>9. \A b \in Attachments \ {a} :
        rows'[b] = rows[b] /\ (b \in objects' <=> b \in objects) /\ (b \in removed' <=> b \in removed)
  BY <1>1, <1>5
<1>10. rows[a].status = "linked" /\ rows[a].item /= None =>
         \/ a \in removed'
         \/ /\ rows'[a] = rows[a]
            /\ a \in objects \cup excused => a \in objects' \cup excused'
  BY <1>1, <1>5
<1> QED
  BY <1>1, <1>5, <1>6, <1>7, <1>8, <1>9, <1>10, ServerMoves

LEMMA CleanupDiesStep ==
  ASSUME IInv, CleanupDies
  PROVE  IInv'
<1>1. /\ cleaner' = NoCleanup /\ kind' = kind /\ clients' = clients /\ requests' = requests
      /\ events' = events /\ holder' = holder /\ jobs' = jobs /\ rows' = rows
      /\ objects' = objects /\ expired' = expired /\ removed' = removed /\ excused' = excused
  BY Zenon DEF CleanupDies
<1>2. TypeOK'
  BY <1>1 DEF IInv, TypeOK, NoCleanup
<1>3. ASSUME NEW k \in Keys PROVE ClientKnown(k)' /\ EventKnown(k)'
  <2>1. ClientKnown(k) /\ EventKnown(k)
    BY DEF IInv
  <2>2. ClientKnown(k)'
    BY <1>1, <2>1 DEF ClientKnown, Names
  <2>3. EventKnown(k)'
    BY <1>1, <2>1 DEF EventKnown
  <2> QED
    BY <2>2, <2>3
<1>4. \A s \in Requests : RequestKnown(s)'
  BY <1>1 DEF IInv, RequestKnown, Sound
<1>5. OneSchedules' /\ OwnAttachment' /\ HolderKnown'
  BY <1>1 DEF IInv, OneSchedules, OwnAttachment, HolderKnown
<1>6. CleanerKnown'
  BY <1>1 DEF CleanerKnown, NoCleanup
<1>7. ASSUME NEW a \in Attachments PROVE RowKnown(a)'
  <2>1. RowKnown(a) /\ (Named(a)' <=> Named(a)) /\ (Discarding(a)' <=> Discarding(a))
    BY <1>1 DEF IInv, Named, Discarding
  <2> QED
    BY <1>1, <2>1 DEF RowKnown, Sound
<1> QED
  BY <1>2, <1>3, <1>4, <1>5, <1>6, <1>7 DEF IInv

LEMMA DeleteAttachmentStep ==
  ASSUME IInv, NEW a \in Attachments, DeleteAttachment(a)
  PROVE  IInv'
<1>1. /\ objects' = objects \ {a} /\ removed' = removed \cup {a}
      /\ UNCHANGED <<kind, clients, requests, events, holder, jobs, rows, expired, cleaner,
                     excused>>
  BY Zenon DEF DeleteAttachment
<1>2. Sound(a)'
  BY <1>1 DEF Sound
<1>3. RowKnown(a)'
  <2>1. RowKnown(a) /\ (Named(a)' <=> Named(a))
    BY <1>1 DEF IInv, Named
  <2> QED
    BY <1>1, <1>2, <2>1 DEF RowKnown
<1>4. CleanerKnown'
  BY <1>1 DEF IInv, CleanerKnown
<1>5. TypeOK
  BY DEF IInv
<1>6. /\ rows' \in [Attachments -> RowRecord] /\ expired' \subseteq Attachments
      /\ removed' \subseteq Attachments /\ objects' \subseteq objects
      /\ expired \subseteq expired' /\ removed \subseteq removed' /\ a \in removed'
      /\ cleaner' \in [at : {"idle", "delete", "mark"}, attachment : Attachments \cup {None}]
  BY <1>1, <1>5 DEF TypeOK
<1>7. \A b \in Attachments \ {a} :
        rows'[b] = rows[b] /\ (b \in objects' <=> b \in objects) /\ (b \in removed' <=> b \in removed)
  BY <1>1
<1> QED
  BY <1>1, <1>2, <1>3, <1>4, <1>6, <1>7, ServerMoves

LEMMA MarkDeletedStep ==
  ASSUME IInv, NEW a \in Attachments, MarkDeleted(a)
  PROVE  IInv'
<1>1. /\ a \in removed /\ SetStatus(a, "deleted")
      /\ UNCHANGED <<kind, clients, requests, events, holder, jobs, objects,
                     expired, cleaner, removed, excused>>
  BY Zenon DEF MarkDeleted
<1>2. TypeOK
  BY DEF IInv
<1>3. /\ rows' \in [Attachments -> RowRecord] /\ rows'[a].status = "deleted"
      /\ \A b \in Attachments : rows'[b].item = rows[b].item
      /\ \A b \in Attachments \ {a} : rows'[b] = rows[b]
  BY <1>1, <1>2, SetStatusFields DEF TypeOK
<1>4. RowKnown(a)'
  <2>1. RowKnown(a)
    BY DEF IInv
  <2> QED
    BY <1>1, <1>3, <2>1 DEF RowKnown
<1>5. CleanerKnown'
  <2>1. cleaner.at \in {"delete", "mark"} => cleaner.attachment \in Attachments
    BY <1>2 DEF IInv, CleanerKnown, TypeOK
  <2> QED
    BY <1>1, <1>3, <2>1 DEF IInv, CleanerKnown
<1>6. /\ expired' \subseteq Attachments /\ removed' \subseteq Attachments
      /\ objects' \subseteq objects /\ expired \subseteq expired' /\ removed \subseteq removed'
      /\ cleaner' \in [at : {"idle", "delete", "mark"}, attachment : Attachments \cup {None}]
      /\ Sound(a) => Sound(a)'
      /\ a \in removed'
  BY <1>1, <1>2 DEF TypeOK, Sound
<1>7. \A b \in Attachments \ {a} :
        rows'[b] = rows[b] /\ (b \in objects' <=> b \in objects) /\ (b \in removed' <=> b \in removed)
  BY <1>1, <1>3
<1> QED
  BY <1>1, <1>3, <1>4, <1>5, <1>6, <1>7, ServerMoves

-----------------------------------------------------------------------------
(* Events *)

\* Processing is scheduled for the item a capture made, and nobody else does it again.
LEMMA ScheduleProcessingStep ==
  ASSUME IInv, NEW r \in Requests, ScheduleProcessing(r)
  PROVE  IInv'
<1>1. /\ requests[r].at = "schedule" /\ Reply(r, "saved")
      /\ UNCHANGED <<kind, events, holder, rows, objects, expired, cleaner, removed, excused>>
      /\ \/ /\ requests[r].duplicateOf = None
            /\ jobs' = [jobs EXCEPT ![requests[r].key] = @ + 1]
         \/ jobs' = jobs
  BY Zenon DEF ScheduleProcessing
<1>2. /\ kind' = kind /\ events' = events /\ holder' = holder
      /\ rows' = rows /\ objects' = objects /\ expired' = expired
      /\ cleaner' = cleaner /\ removed' = removed /\ excused' = excused
  BY <1>1
<1>3. /\ requests[r].op \in {"capture", "shortcut"} /\ requests[r].key \in Keys
      /\ RequestKnown(r) /\ FrontKnown
  BY <1>1, CaptureAt
<1>4. PICK k \in Keys : k = requests[r].key
  BY <1>3
<1>5. /\ events[k].stored /\ events[k].attachment = requests[r].attachment
      /\ requests[r].duplicateOf = None => events[k].item = k /\ jobs[k] = 0
  BY <1>1, <1>3, <1>4 DEF RequestKnown
<1>6. EventsKept
  BY <1>2 DEF EventsKept
<1>7. /\ events'[requests[r].key].stored
      /\ events'[requests[r].key].attachment = requests[r].attachment
  BY <1>2, <1>4, <1>5
<1>8. /\ FrontKnown' /\ Fewer /\ Touches(r) /\ requests'[r] = Idle
  BY <1>1, <1>2, <1>3, <1>6, <1>7, ReplyFront
<1>9. /\ jobs' \in [Keys -> 0..1]
      /\ \A j \in Keys \ {k} : jobs'[j] = jobs[j]
      /\ jobs'[k] > 0 => jobs[k] > 0 \/ events[k].item = k
  <2>1. jobs \in [Keys -> 0..1]
    BY DEF IInv, TypeOK
  <2>2. CASE jobs' = jobs
    BY <2>1, <2>2
  <2>3. CASE /\ requests[r].duplicateOf = None
             /\ jobs' = [jobs EXCEPT ![requests[r].key] = @ + 1]
    <3>1. jobs' = [jobs EXCEPT ![k] = 1] /\ events[k].item = k
      <4>1. jobs' = [jobs EXCEPT ![k] = jobs[k] + 1]
        BY <1>4, <2>3
      <4>2. events[k].item = k /\ jobs[k] + 1 = 1
        BY <1>5, <2>3
      <4> QED
        BY <4>1, <4>2
    <3> QED
      BY <2>1, <3>1
  <2> QED
    BY <1>1, <2>2, <2>3
<1>10. TypeOK'
  BY <1>2, <1>8, <1>9 DEF IInv, TypeOK, FrontKnown
<1>11. ASSUME NEW j \in Keys PROVE ClientKnown(j)' /\ EventKnown(j)'
  <2>1. EventKnown(j) /\ ClientKnown(j)'
    BY <1>8 DEF IInv, FrontKnown
  <2>2. jobs'[j] > 0 => events[j].stored /\ events[j].item = j
    BY <1>5, <1>9, <2>1 DEF EventKnown
  <2>3. EventKnown(j)'
    BY <1>2, <2>1, <2>2 DEF EventKnown
  <2> QED
    BY <2>1, <2>3
<1>12. ASSUME NEW s \in Requests PROVE RequestKnown(s)'
  <2>1. CASE s = r
    BY <1>8, <2>1 DEF RequestKnown, Idle
  <2>2. CASE s /= r
    <3>1. requests'[s] = requests[s] /\ RequestKnown(s)
      BY <1>8, <2>2 DEF Touches, IInv
    <3>2. requests[s].at = "schedule" => requests[s].key \in Keys \ {k}
      <4>1. requests[s].at = "schedule" => requests[s].key \in Keys
        BY CaptureAt
      <4> QED
        BY <1>1, <1>4, <2>2, <4>1 DEF IInv, OneSchedules
    <3>3. \A b \in Attachments : AttachmentKept(s, b)
      BY <1>2 DEF AttachmentKept, Sound
    <3> QED
      BY <1>2, <1>6, <1>9, <3>1, <3>2, <3>3, OthersStay
  <2> QED
    BY <2>1, <2>2
<1>13. OneSchedules'
  BY <1>8 DEF IInv, OneSchedules, Touches, Idle
<1>14. OwnAttachment' /\ HolderKnown' /\ CleanerKnown'
  BY <1>2, <1>8 DEF FrontKnown, IInv, HolderKnown, CleanerKnown
<1>15. ASSUME NEW a \in Attachments PROVE RowKnown(a)'
  <2>1. RowKnown(a)
    BY DEF IInv
  <2>2. rows[a].status \in {"finalized", "orphaned"} => rows[a] /= NoRow
    BY DEF NoRow
  <2>3. rows[a].status \in {"finalized", "orphaned"} =>
          /\ Named(a)' => Named(a)
          /\ Named(a)' /\ ~Discarding(a)' => ~Discarding(a)
    BY <1>8, <2>2 DEF Fewer
  <2> QED
    BY <1>2, <2>1, <2>3 DEF RowKnown, Sound
<1> QED
  BY <1>10, <1>11, <1>12, <1>13, <1>14, <1>15 DEF IInv

\* The batch of a capture: what it is admitted for makes the new event, its item, its
\* attachment and the holder of its text agree with each other and with the events before.
LEMMA CreateStep ==
  ASSUME IInv, NEW r \in Requests, Create(r)
  PROVE  IInv'
<1>1. requests[r].at = "create" /\ Admitted(r)
  BY Zenon DEF Create
<1>2. /\ requests[r].op \in {"capture", "shortcut"} /\ requests[r].key \in Keys
      /\ RequestKnown(r) /\ FrontKnown /\ TypeOK /\ requests[r] \in RequestRecord
      /\ requests[r].op = "shortcut" => requests[r].attachment \in Attachments
  BY <1>1, CaptureAt DEF IInv, TypeOK
<1>3. PICK k \in Keys : k = requests[r].key
  BY <1>2
<1>4. PICK a \in Attachments \cup {None} : a = requests[r].attachment
  BY <1>2 DEF RequestRecord
<1>5. PICK d \in Keys \cup {None} : d = requests[r].duplicateOf
  BY <1>2 DEF RequestRecord
<1>6. PICK i \in Keys : i = IF d = None THEN k ELSE d
  OBVIOUS
<1>7. PICK p \in Attachments \cup {None} : p = Fingerprint(r)
  BY <1>4 DEF Fingerprint
<1>8. /\ events' = [events EXCEPT ![k] =
           [stored |-> TRUE, item |-> i, attachment |-> a, print |-> p]]
      /\ rows' = IF a = None THEN rows
                 ELSE [rows EXCEPT ![a] = [status |-> "linked", item |-> i]]
      /\ holder' = IF kind[k] = "text" /\ holder = None THEN i ELSE holder
      /\ excused' = IF a \in expired THEN excused \cup {a} ELSE excused
      /\ GoesTo(r, "schedule") \/ GoesTo(r, "raced")
      /\ kind' = kind /\ jobs' = jobs /\ objects' = objects /\ expired' = expired
      /\ cleaner' = cleaner /\ removed' = removed
  BY <1>3, <1>4, <1>5, <1>6, <1>7 DEF Create
\* What the batch was admitted for.
<1>9. /\ ~events[k].stored
      /\ a /= None => rows[a].status = "finalized" /\ rows[a].item = None
      /\ kind[k] = "text" /\ d = None => holder = None
  BY <1>1, <1>3, <1>4, <1>5 DEF Admitted
<1>10. /\ d /= None => kind[k] = "text" /\ d = holder
       /\ requests[r].op /= "idle"
       /\ \/ kind[k] = "file" /\ a \in Attachments /\ requests[r].op = "capture"
          \/ kind[k] = "text" /\ a = None /\ requests[r].op = "capture"
          \/ kind[k] = "shortcut" /\ a \in Attachments /\ requests[r].op = "shortcut"
  BY <1>1, <1>2, <1>3, <1>4, <1>5 DEF RequestKnown
<1>11. /\ HolderKnown /\ (\A j \in Keys : EventKnown(j) /\ ClientKnown(j))
       /\ \A b \in Attachments : RowKnown(b)
  BY DEF IInv
\* The state after it.
<1>12. /\ events' \in [Keys -> EventRecord]
       /\ events'[k].stored /\ events'[k].item = i /\ events'[k].attachment = a
       /\ events'[k].print = p
       /\ \A j \in Keys \ {k} : events'[j] = events[j]
  BY <1>2, <1>8 DEF TypeOK, EventRecord
<1>13. EventsKept
  BY <1>9, <1>12 DEF EventsKept
<1>14. /\ rows' \in [Attachments -> RowRecord]
       /\ a /= None => rows'[a] = [status |-> "linked", item |-> i]
       /\ \A b \in Attachments \ {a} : rows'[b] = rows[b]
  <2>1. [status |-> "linked", item |-> i] \in RowRecord
    BY DEF RowRecord
  <2> QED
    BY <1>2, <1>8, <2>1 DEF TypeOK
<1>15. /\ holder' \in Keys \cup {None}
       /\ holder /= None => holder' = holder
       /\ kind[k] = "text" => holder' = i
       /\ holder' /= holder => holder' = k /\ i = k
  BY <1>2, <1>6, <1>8, <1>9, <1>10, NoneApart DEF TypeOK
<1>16. /\ excused \subseteq excused' /\ excused' \subseteq Attachments
       /\ a \in expired => a \in excused'
  BY <1>2, <1>8 DEF TypeOK
\* The request goes on.
<1>17. PICK step \in {"schedule", "raced"} : GoesTo(r, step)
  BY <1>8
<1>18. /\ Touches(r) /\ clients' = clients
       /\ requests'[r].at = step
       /\ requests'[r].op = requests[r].op /\ requests'[r].key = requests[r].key
       /\ requests'[r].attachment = requests[r].attachment
       /\ requests'[r].duplicateOf = requests[r].duplicateOf
  BY <1>2, <1>17, GoesToFields DEF TypeOK
<1>19. Goes(r)
  BY <1>1, <1>18 DEF Goes
<1>20. FrontKnown' /\ Fewer
  BY <1>2, <1>8, <1>13, <1>19, GoingFront
<1>21. jobs[k] = 0
  <2>1. jobs[k] \in 0..1
    BY <1>2 DEF TypeOK
  <2>2. ~(jobs[k] > 0)
    BY <1>9, <1>11 DEF EventKnown
  <2> QED
    BY <2>1, <2>2
<1>22. RequestKnown(r)'
  <2>1. d /= None => holder' = d
    BY <1>10, <1>15
  <2>2. d = None => i = k
    BY <1>6
  <2>3. step \in Steps(requests[r].op) \ {"discard", "orphan", "mark", "reserve", "lookup"}
    BY <1>2 DEF Steps
  <2> QED
    BY <1>3, <1>4, <1>5, <1>8, <1>10, <1>12, <1>18, <1>21, <2>1, <2>2, <2>3 DEF RequestKnown
<1>23. ASSUME NEW s \in Requests PROVE RequestKnown(s)'
  <2>1. CASE s = r
    BY <1>22, <2>1
  <2>2. CASE s /= r
    <3>1. requests'[s] = requests[s] /\ RequestKnown(s)
      BY <1>18, <2>2 DEF Touches, IInv
    <3>2. \A b \in Attachments : AttachmentKept(s, b)
      BY <1>8, <1>16 DEF AttachmentKept, Sound
    <3> QED
      BY <1>8, <1>13, <1>15, <3>1, <3>2, OthersStay
  <2> QED
    BY <2>1, <2>2
<1>24. OneSchedules'
  <2>1. ASSUME NEW s \in Requests, s /= r, requests'[s].at = "schedule"
        PROVE  requests'[s].key /= requests'[r].key
    <3>1. requests[s].at = "schedule" /\ requests'[s].key = requests[s].key
      BY <1>18, <2>1 DEF Touches
    <3>2. /\ RequestKnown(s) /\ requests[s].op /= "idle"
      BY <3>1, CaptureAt
    <3>3. events[requests[s].key].stored
      BY <3>1, <3>2 DEF RequestKnown
    <3> QED
      BY <1>3, <1>9, <1>18, <3>1, <3>3
  <2>2. \A s \in Requests : s /= r => requests'[s] = requests[s]
    BY <1>18 DEF Touches
  <2> QED
    BY <2>1, <2>2 DEF IInv, OneSchedules
\* Its bytes are there, or it is known why not.
<1>25. a /= None => a \in objects \/ a \in removed \/ a \in expired
  <2>1. SUFFICES ASSUME a /= None PROVE Sound(a)
    BY DEF Sound
  <2>2. rows[a].status = "finalized" /\ Named(a)
    BY <1>4, <1>9, <2>1 DEF Named
  <2>3. ~Discarding(a)
    <3>1. SUFFICES ASSUME NEW s \in Requests, requests[s].attachment = a,
                          requests[s].at \in {"discard", "orphan"}
                   PROVE  FALSE
      BY DEF Discarding
    <3>2. s /= r
      BY <1>1, <3>1
    <3>3. requests[s].op = "shortcut"
      BY <3>1 DEF IInv, TypeOK, RequestRecord, RequestKnown, Steps, Idle
    <3> QED
      BY <1>4, <2>1, <3>1, <3>2, <3>3 DEF IInv, OwnAttachment
  <2> QED
    BY <1>11, <2>1, <2>2, <2>3 DEF RowKnown
<1>26. \A j \in Keys : events[j].stored => events'[j].stored /\ events'[j].item = events[j].item
  BY <1>13 DEF EventsKept
<1>27. events'[i].stored /\ events'[i].item = i
  <2>1. CASE d = None
    BY <1>6, <1>12, <2>1
  <2>2. CASE d /= None
    <3>1. i = holder /\ holder /= None
      BY <1>6, <1>10, <2>2
    <3>2. events[holder].stored /\ events[holder].item = holder
      BY <1>11, <3>1 DEF HolderKnown
    <3> QED
      BY <1>26, <3>1, <3>2
  <2> QED
    BY <2>1, <2>2
<1>28. EventKnown(k)'
  <2>1. kind[k] /= "shortcut" => p = a
    BY <1>4, <1>7, <1>10 DEF Fingerprint
  <2>2. kind[k] /= "text" =>
          /\ a \in Attachments
          /\ \/ /\ rows'[a] = [status |-> "linked", item |-> i]
                /\ a \in objects' \cup excused'
             \/ a \in removed'
    BY <1>8, <1>10, <1>14, <1>16, <1>25, NoneApart
  <2> QED
    BY <1>8, <1>12, <1>15, <1>21, <1>27, <2>1, <2>2 DEF EventKnown
<1>29. ASSUME NEW j \in Keys, j /= k PROVE EventKnown(j)'
  <2> DEFINE e == events[j]
  <2>1. EventKnown(j) /\ events'[j] = e
    BY <1>11, <1>12, <1>29
  <2>2. e.stored => events'[e.item].stored /\ events'[e.item].item = e.item
    BY <1>26, <2>1 DEF EventKnown
  <2>3. e.stored /\ kind[j] = "text" => e.item = holder'
    BY <1>15, <2>1, NoneApart DEF EventKnown
  <2>4. e.stored /\ kind[j] /= "text" =>
          \/ /\ rows'[e.attachment] = [status |-> "linked", item |-> e.item]
             /\ e.attachment \in objects' \cup excused'
          \/ e.attachment \in removed'
    <3>1. SUFFICES ASSUME e.stored, kind[j] /= "text", e.attachment \notin removed
                   PROVE  /\ rows'[e.attachment] = [status |-> "linked", item |-> e.item]
                          /\ e.attachment \in objects' \cup excused'
      BY <1>8
    <3>2. /\ e.attachment \in Attachments
          /\ rows[e.attachment] = [status |-> "linked", item |-> e.item]
          /\ e.attachment \in objects \cup excused
      BY <2>1, <3>1 DEF EventKnown
    <3>3. e.attachment /= a
      BY <1>9, <3>2, NoneApart
    <3> QED
      BY <1>8, <1>14, <1>16, <3>2, <3>3
  <2> QED
    BY <1>8, <2>1, <2>2, <2>3, <2>4 DEF EventKnown
<1>30. ASSUME NEW j \in Keys PROVE ClientKnown(j)' /\ EventKnown(j)'
  <2>1. ClientKnown(j)'
    BY <1>20 DEF FrontKnown
  <2> QED
    BY <1>28, <1>29, <2>1
<1>31. HolderKnown'
  <2>1. CASE holder' = holder
    BY <1>2, <1>11, <1>26, <2>1 DEF HolderKnown, TypeOK
  <2>2. CASE holder' /= holder
    BY <1>15, <1>27, <2>2 DEF HolderKnown
  <2> QED
    BY <2>1, <2>2
<1>32. ASSUME NEW b \in Attachments PROVE RowKnown(b)'
  <2>1. RowKnown(b)
    BY <1>11
  <2>2. CASE b = a
    <3>1. rows'[b].status = "linked"
      BY <1>14, <2>2, NoneApart
    <3> QED
      BY <1>8, <1>16, <2>1, <3>1 DEF RowKnown
  <2>3. CASE b /= a
    <3>1. rows'[b] = rows[b]
      BY <1>14, <2>3
    <3>2. rows[b].status \in {"finalized", "orphaned"} => rows[b] /= NoRow
      BY DEF NoRow
    <3>3. rows[b].status \in {"finalized", "orphaned"} =>
            /\ Named(b)' => Named(b)
            /\ Named(b)' /\ ~Discarding(b)' => ~Discarding(b)
      BY <1>20, <3>2 DEF Fewer
    <3> QED
      BY <1>8, <1>16, <2>1, <3>1, <3>3 DEF RowKnown, Sound
  <2> QED
    BY <2>2, <2>3
<1>33. CleanerKnown'
  <2>1. CleanerKnown
    BY DEF IInv
  <2>2. cleaner.at \in {"delete", "mark"} =>
          /\ cleaner.attachment \in Attachments /\ cleaner.attachment \in expired
    BY <1>2, <2>1 DEF CleanerKnown, TypeOK
  <2>3. cleaner.at \in {"delete", "mark"} /\ cleaner.attachment /= a =>
          rows'[cleaner.attachment] = rows[cleaner.attachment]
    BY <1>14, <2>2
  <2> QED
    BY <1>8, <1>16, <2>1, <2>2, <2>3 DEF CleanerKnown
<1>34. TypeOK'
  BY <1>2, <1>8, <1>12, <1>14, <1>15, <1>16, <1>20 DEF TypeOK, FrontKnown
<1>35. OwnAttachment'
  BY <1>20 DEF FrontKnown
<1> QED
  BY <1>23, <1>24, <1>30, <1>31, <1>32, <1>33, <1>34, <1>35 DEF IInv

-----------------------------------------------------------------------------
(* The theorems *)

LEMMA Begins == Init => IInv
<1> SUFFICES ASSUME Init PROVE IInv
  OBVIOUS
<1>1. /\ kind \in Mixes /\ holder = None
      /\ \A k \in Keys : clients[k] = NewClient /\ events[k] = NoEvent /\ jobs[k] = 0
      /\ \A r \in Requests : requests[r] = Idle
      /\ \A a \in Attachments : rows[a] = NoRow
      /\ objects = {} /\ expired = {} /\ cleaner = NoCleanup /\ removed = {} /\ excused = {}
  BY DEF Init
<1>2. TypeOK
  <2>1. clients \in [Keys -> ClientRecord] /\ requests \in [Requests -> RequestRecord]
    BY NewClientTyped, IdleTyped DEF Init
  <2>2. events \in [Keys -> EventRecord] /\ rows \in [Attachments -> RowRecord]
    BY NoRowTyped DEF Init, NoEvent, EventRecord
  <2>3. jobs \in [Keys -> 0..1]
    BY DEF Init
  <2> QED
    BY <1>1, <2>1, <2>2, <2>3 DEF TypeOK, NoCleanup
<1>3. ASSUME NEW k \in Keys PROVE ClientKnown(k) /\ EventKnown(k)
  <2>1. /\ clients[k].phase = "form" /\ clients[k].request = None
        /\ clients[k].reservation = None /\ clients[k].attachment = None
        /\ clients[k].offers = FALSE
    BY <1>1 DEF NewClient
  <2>2. ClientKnown(k)
    BY <2>1 DEF ClientKnown
  <2>3. events[k].stored = FALSE /\ jobs[k] = 0
    BY <1>1 DEF NoEvent
  <2>4. EventKnown(k)
    BY <2>3 DEF EventKnown
  <2> QED
    BY <2>2, <2>4
<1>4. \A r \in Requests : RequestKnown(r)
  <2>1. Idle.op = "idle"
    BY DEF Idle
  <2> QED
    BY <1>1, <2>1 DEF RequestKnown
<1>5. OneSchedules /\ OwnAttachment /\ HolderKnown /\ CleanerKnown
  <2>1. \A r \in Requests : requests[r].op = "idle" /\ requests[r].at = "idle"
    BY <1>1 DEF Idle
  <2>2. OneSchedules /\ OwnAttachment
    BY <2>1 DEF OneSchedules, OwnAttachment
  <2>3. HolderKnown /\ CleanerKnown
    BY <1>1 DEF HolderKnown, CleanerKnown, NoCleanup
  <2> QED
    BY <2>2, <2>3
<1>6. \A a \in Attachments : RowKnown(a)
  BY <1>1 DEF RowKnown, NoRow
<1> QED
  BY <1>2, <1>3, <1>4, <1>5, <1>6 DEF IInv

LEMMA Continues == IInv /\ [Next]_vars => IInv'
<1> SUFFICES ASSUME IInv, [Next]_vars PROVE IInv'
  OBVIOUS
<1>1. ASSUME NEW k \in Keys, ClientStep(k) PROVE IInv'
  BY <1>1, SubmitStep, SendStep, CheckStatusStep, RetryStep, RestartExpiredStep,
     LoseAnswerStep, DiscardStep DEF ClientStep
<1>2. ASSUME NEW r \in Requests, UploadStep(r) PROVE IInv'
  BY <1>2, InitUploadStep, ReadPendingStep, StoreBytesStep, MarkUploadedStep,
     CheckUploadedStep, MarkFinalizedStep DEF UploadStep
<1>3. ASSUME NEW r \in Requests, CaptureStep(r) PROVE IInv'
  BY <1>3, LookUpKeyStep, LookUpDuplicateStep, RequireLinkableAttachmentStep, CreateStep,
     CreateThrowsStep, LookAgainStep, ScheduleProcessingStep DEF CaptureStep
<1>4. ASSUME NEW r \in Requests, ShortcutStep(r) PROVE IInv'
  BY <1>4, ReplayShortcutStep, ReserveShortcutStep, StoreShortcutBytesStep,
     MarkShortcutStoredStep, DiscardObjectStep, DiscardRowStep, ShortcutThrowsStep
     DEF ShortcutStep
<1>5. ASSUME NEW r \in Requests, RequestDies(r) PROVE IInv'
  BY <1>5, RequestDiesStep
<1>6. ASSUME NEW a \in Attachments, Expire(a) \/ DeleteAttachment(a) \/ MarkDeleted(a)
      PROVE  IInv'
  BY <1>6, ExpireStep, DeleteAttachmentStep, MarkDeletedStep
<1>7. CASE CleanupStep
  BY <1>7, FindExpiredOrphanStep, DeleteObjectStep, MarkOrphanedStep, CleanupDiesStep
     DEF CleanupStep
<1>8. CASE UNCHANGED vars
  <2>1. /\ UNCHANGED <<kind, clients, requests, server>>
    BY <1>8 DEF vars, server
  <2>2. /\ kind' = kind /\ clients' = clients /\ requests' = requests /\ events' = events
        /\ holder' = holder /\ jobs' = jobs /\ rows' = rows /\ objects' = objects
        /\ expired' = expired /\ cleaner' = cleaner /\ removed' = removed
        /\ excused' = excused
    BY <1>8 DEF vars
  <2>3. TypeOK'
    BY <2>2 DEF IInv, TypeOK
  <2>4. ASSUME NEW k \in Keys PROVE ClientKnown(k)' /\ EventKnown(k)'
    <3>1. ClientKnown(k) /\ EventKnown(k)
      BY DEF IInv
    <3>2. ClientKnown(k)'
      BY <2>2, <3>1 DEF ClientKnown, Names
    <3>3. EventKnown(k)'
      BY <2>2, <3>1 DEF EventKnown
    <3> QED
      BY <3>2, <3>3
  <2>5. \A s \in Requests : RequestKnown(s)'
    BY <2>2 DEF IInv, RequestKnown, Sound
  <2>6. OneSchedules' /\ OwnAttachment' /\ HolderKnown' /\ CleanerKnown'
    BY <2>2 DEF IInv, OneSchedules, OwnAttachment, HolderKnown, CleanerKnown
  <2>7. ASSUME NEW a \in Attachments PROVE RowKnown(a)'
    <3>1. RowKnown(a) /\ (Named(a)' <=> Named(a)) /\ (Discarding(a)' <=> Discarding(a))
      BY <2>2 DEF IInv, Named, Discarding
    <3> QED
      BY <2>2, <3>1 DEF RowKnown, Sound
  <2> QED
    BY <2>3, <2>4, <2>5, <2>6, <2>7 DEF IInv
<1> QED
  BY <1>1, <1>2, <1>3, <1>4, <1>5, <1>6, <1>7, <1>8 DEF Next

\* The inductive invariant holds in every reachable state of the captures.
THEOREM Invariance == Spec => []IInv
  BY Begins, Continues, PTL DEF Spec

\* Every reachable state is well typed: no capture has its processing scheduled twice
\* (jobs is at most 1), whatever of its requests was repeated or raced
\* (capture.service.ts:94-155).
THEOREM TypeCorrect == Spec => []TypeOK
<1>1. IInv => TypeOK
  BY DEF IInv
<1> QED
  BY Invariance, <1>1, PTL

\* Saved means kept: a client that was told "saved" has an event, an item, and, unless one
\* of the premises applies, the bytes of its file, and a form's are those of the very
\* reservation its page went through (capture.repository.ts:252, CaptureForm's restart).
THEOREM SavedMeansKept == Spec => []SavedIsKept
<1>1. IInv => SavedIsKept
  <2> SUFFICES ASSUME IInv PROVE SavedIsKept
    OBVIOUS
  <2>1. ASSUME NEW k \in Keys, clients[k].phase = "saved"
        PROVE  LET e == events[k] IN
                 /\ e.stored
                 /\ events[e.item].stored /\ events[e.item].item = e.item
                 /\ kind[k] /= "text" =>
                      \/ /\ rows[e.attachment] = [status |-> "linked", item |-> e.item]
                         /\ e.attachment \in objects \cup excused
                      \/ e.attachment \in removed
                 /\ kind[k] = "file" => e.attachment = clients[k].attachment
    <3>1. ClientKnown(k) /\ EventKnown(k)
      BY DEF IInv
    <3>2. events[k].stored /\ (kind[k] = "file" => events[k].attachment = clients[k].attachment)
      BY <2>1, <3>1 DEF ClientKnown
    <3> QED
      BY <3>1, <3>2 DEF EventKnown
  <2> QED
    BY <2>1 DEF SavedIsKept, IInv
<1> QED
  BY Invariance, <1>1, PTL

\* However many captures of one text race, one of them makes the item, the others are
\* events of it, and processing is scheduled for the item's own capture alone
\* (capture.service.ts:94-155, capture.repository.ts:292).
THEOREM OneOriginalEach == Spec => []OneOriginal
<1>1. IInv => OneOriginal
  BY DEF IInv, EventKnown, OneOriginal
<1> QED
  BY Invariance, <1>1, PTL

\* No object outlives a row that was given up or deleted, unless its bytes came after its
\* reservation expired or was deleted, or the delete failed (attachment.routes.ts:250-263
\* and 366-378, shortcut.service.ts:233-247).
THEOREM NothingStranded == Spec => []NoStrandedObject
<1>1. IInv => NoStrandedObject
  <2> SUFFICES ASSUME IInv PROVE NoStrandedObject
    OBVIOUS
  <2>1. ASSUME NEW a \in objects, rows[a].status \in {"orphaned", "deleted"}
        PROVE  a \in excused
    BY <2>1 DEF IInv, TypeOK, RowKnown
  <2> QED
    BY <2>1 DEF NoStrandedObject
<1> QED
  BY Invariance, <1>1, PTL
====
