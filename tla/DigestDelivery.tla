---- MODULE DigestDelivery ----
(***************************************************************************)
(* Digests: the generation of a period's digest, its single delivery to    *)
(* Telegram, the operator's reviews and as much of a purge as touches a    *)
(* digest.                                                                 *)
(*                                                                         *)
(* A run is an invocation of the Worker: the cron's (generate, queue, then *)
(* deliver whatever is pending) or an operator's request to generate.  An  *)
(* action is one statement or one request; a run may die between any two.  *)
(* A lease lapses and a retry becomes due at any time.  Telegram is        *)
(* external: it takes the message or not, and its answer may tell neither. *)
(***************************************************************************)
EXTENDS Naturals, FiniteSets, FiniteSetsExt

CONSTANTS
  Items,        \* rows of items captured in the periods
  Periods,      \* digest types and the days or weeks they cover
  Digests,      \* ids a row of digest_runs can get
  Runs,         \* invocations in flight
  MaxAttempts,  \* attempts before a retryable failure is final
  MaxFaults,    \* bound of dead runs, of statements that throw and of leases
                \* that lapse under a run
  None

ASSUME DigestAssumption ==
  /\ None \notin Items \cup Periods \cup Digests \cup Runs
  /\ IsFiniteSet(Digests)
  /\ MaxAttempts \in Nat \ {0} /\ MaxFaults \in Nat

VARIABLES
  items,       \* what a digest may say of an item
  purges,      \* how far the purge of an item is
  digests,     \* digest_runs
  deliveries,  \* digest_deliveries: at most one of a digest
  runs,
  chat,        \* messages of a digest the chat has received, two or more as 2
  excused,     \* history: periods that may have got a second message, see below
  faults

vars == <<items, purges, digests, deliveries, runs, chat, excused, faults>>

ItemStates == {"public", "private", "deleted", "gone"}

Active(state) == state \in {"public", "private"}

\* The facts a digest was rendered from; "out": the item is not in its payload.
Snapshots == [Items -> ItemStates \cup {"out"}]

NoSnapshot == [i \in Items |-> "out"]

\* The content of a purged row stays for the runs that have read it.
DigestRecord ==
  [state : {"absent", "stored", "purged"}, period : Periods \cup {None},
   version : Nat, facts : Snapshots, reviewed : BOOLEAN]

AbsentDigest ==
  [state |-> "absent", period |-> None, version |-> 0, facts |-> NoSnapshot,
   reviewed |-> FALSE]

DeliveryRecord ==
  [state : {"none", "pending", "leased", "sent", "failed", "unknown", "skipped"},
   attempts : 0 .. MaxAttempts, owner : Runs \cup {None}, lapsed : BOOLEAN]

NoDelivery == [state |-> "none", attempts |-> 0, owner |-> None, lapsed |-> FALSE]

\* facts, version and empty: a generation's.  batch, digest, shown, ai and changed: of
\* the deliveries leased, the one in hand, its message and what changed meanwhile.
RunRecord ==
  [phase : {"idle", "insert", "queue", "lease", "next", "send", "sent", "skip",
            "unknown", "retry", "failed"},
   cron : BOOLEAN, period : Periods \cup {None}, version : Nat,
   facts : Snapshots, empty : BOOLEAN, batch : SUBSET Digests,
   digest : Digests \cup {None}, shown : SUBSET Items, ai : BOOLEAN,
   changed : SUBSET Items]

IdleRun ==
  [phase |-> "idle", cron |-> FALSE, period |-> None, version |-> 0,
   facts |-> NoSnapshot, empty |-> FALSE, batch |-> {}, digest |-> None,
   shown |-> {}, ai |-> FALSE, changed |-> {}]

\* Rows and runs are well formed; exactly the leased deliveries have an owner.
TypeOK ==
  /\ items \in [Items -> ItemStates]
  /\ purges \in [Items -> {"none", "item", "done"}]
  /\ digests \in [Digests -> DigestRecord]
  /\ deliveries \in [Digests -> DeliveryRecord]
  /\ \A d \in Digests : deliveries[d].owner # None <=> deliveries[d].state = "leased"
  /\ runs \in [Runs -> RunRecord]
  /\ chat \in [Digests -> 0 .. 2]
  /\ excused \in SUBSET Periods
  /\ faults \in 0 .. MaxFaults

Init ==
  /\ items \in [Items -> {"public", "private"}]
  /\ purges = [i \in Items |-> "none"]
  /\ digests = [d \in Digests |-> AbsentDigest]
  /\ deliveries = [d \in Digests |-> NoDelivery]
  /\ runs = [r \in Runs |-> IdleRun]
  /\ chat = [d \in Digests |-> 0]
  /\ excused = {}
  /\ faults = 0

-----------------------------------------------------------------------------
(* Rows and what is rendered from them.                                    *)

Stored(d) == digests[d].state = "stored"

OfPeriod(p) == {d \in Digests : Stored(d) /\ digests[d].period = p}

Payload(facts) == {i \in Items : facts[i] # "out"}

\* renderDigest: an item shows its title only while it is public, and is left out once
\* it is deleted or gone.
Shown(facts) == {i \in Payload(facts) : items[i] = "public"}

Empty(facts) == \A i \in Payload(facts) : ~Active(items[i])

\* The text rendered now is the stored one.
Unchanged(facts) == \A i \in Payload(facts) : items[i] = facts[i]

\* Another version of the period has a delivery that is not skipped.
OtherDelivery(d) ==
  \E e \in OfPeriod(digests[d].period) \ {d} :
    deliveries[e].state \notin {"none", "skipped"}

\* Faulty variant: only the unique index on the run keeps a second row away.
QueuedPerRun(d, empty) ==
  IF ~Stored(d) \/ deliveries[d].state # "none" THEN deliveries
  ELSE [deliveries EXCEPT ![d].state = IF empty THEN "skipped" ELSE "pending"]

\* INSERT OR IGNORE ... WHERE NOT EXISTS OtherDelivery: the rows afterwards.
Queued(d, empty) ==
  IF ~Stored(d) \/ deliveries[d].state # "none" \/ OtherDelivery(d) THEN deliveries
  ELSE [deliveries EXCEPT ![d].state = IF empty THEN "skipped" ELSE "pending"]

-----------------------------------------------------------------------------
(* Items.                                                                  *)

\* The rendered text of a run in flight does not change with the item.
Overtakes(i) == runs' = [r \in Runs |->
  IF runs[r].phase = "send" THEN [runs[r] EXCEPT !.changed = runs[r].changed \cup {i}] ELSE runs[r]]

ChangeItem(i) ==
  /\ items[i] # "gone" /\ purges[i] = "none"
  /\ \E state \in {"public", "private", "deleted"} \ {items[i]} :
       items' = [items EXCEPT ![i] = state]
  /\ Overtakes(i)
  /\ UNCHANGED <<purges, digests, deliveries, chat, excused, faults>>

\* The canonical step of a purge.  Every digest that names the item goes, with its
\* delivery, whatever its state.
PurgeDigestReferences(i) ==
  /\ items[i] = "deleted" /\ purges[i] = "none"
  /\ LET named == {d \in Digests : Stored(d) /\ i \in Payload(digests[d].facts)}
     IN /\ digests' = [d \in Digests |->
             IF d \in named THEN [digests[d] EXCEPT !.state = "purged", !.reviewed = FALSE]
             ELSE digests[d]]
        /\ deliveries' = [d \in Digests |->
             IF d \in named THEN NoDelivery ELSE deliveries[d]]
        /\ excused' = excused \cup {digests[d].period : d \in named}
  /\ purges' = [purges EXCEPT ![i] = "item"]
  /\ UNCHANGED <<items, runs, chat, faults>>

PurgeItem(i) ==
  /\ purges[i] = "item"
  /\ purges' = [purges EXCEPT ![i] = "done"]
  /\ items' = [items EXCEPT ![i] = "gone"]
  /\ Overtakes(i)
  /\ UNCHANGED <<digests, deliveries, chat, excused, faults>>

-----------------------------------------------------------------------------
(* Generation.                                                             *)

Goes(r, phase) == runs' = [runs EXCEPT ![r].phase = phase]

Ends(r) == runs' = [runs EXCEPT ![r] = IdleRun]

\* A run goes on with a stored digest: the cron queues it, an operator is done.
Chosen(r, cron, d, empty) ==
  IF cron
  THEN runs' = [runs EXCEPT ![r] = [IdleRun EXCEPT !.phase = "queue", !.cron = TRUE,
                                      !.digest = d, !.empty = empty]]
  ELSE Ends(r)

\* What DigestSelector makes of the items: every one that is not deleted, by its facts.
Selected == [i \in Items |-> IF Active(items[i]) THEN items[i] ELSE "out"]

\* The selector and the first rendering: what the new version will be made of.
Select(r, cron, p, version) ==
  runs' = [runs EXCEPT ![r] =
    [IdleRun EXCEPT !.phase = "insert", !.cron = cron, !.period = p, !.version = version,
       !.facts = Selected]]

\* findRun: the stored run of a version, if any.
Found(p, version) == {d \in OfPeriod(p) : digests[d].version = version}

NextGenerationVersion(p) == Max({digests[d].version : d \in OfPeriod(p)}) + 1

\* generatePeriod for the cron or the operator: an existing first version is taken as it
\* is and rendered afresh.
GenerateDigest(r, cron, p) ==
  /\ runs[r].phase = "idle"
  /\ LET first == Found(p, 1)
     IN \/ first = {} /\ Select(r, cron, p, 1)
        \/ \E d \in first : Chosen(r, cron, d, Empty(digests[d].facts))
  /\ UNCHANGED <<items, purges, digests, deliveries, chat, excused, faults>>

\* The operator's regeneration takes the next version.
RegenerateDigest(r, p) ==
  /\ runs[r].phase = "idle"
  /\ OfPeriod(p) # {}
  /\ Select(r, FALSE, p, NextGenerationVersion(p))
  /\ UNCHANGED <<items, purges, digests, deliveries, chat, excused, faults>>

\* insertRun, after the request for a wording: a row of this version that
\* another run has stored is adopted.  Emptiness is that of the run's own selection.  A run that finds no
\* unused id goes no further: the bound of Digests.
InsertRun(r) ==
  /\ runs[r].phase = "insert"
  /\ LET rivals == Found(runs[r].period, runs[r].version)
         empty == Payload(runs[r].facts) = {}
         unused == {d \in Digests : digests[d].state = "absent"}
     IN \/ /\ rivals # {}
           /\ \E d \in rivals : Chosen(r, runs[r].cron, d, empty)
           /\ UNCHANGED digests
        \/ rivals = {} /\ unused = {} /\ Ends(r) /\ UNCHANGED digests
        \/ /\ rivals = {}
           /\ \E d \in unused :
                /\ digests' = [digests EXCEPT ![d] =
                     [state |-> "stored", period |-> runs[r].period,
                      version |-> runs[r].version, facts |-> runs[r].facts,
                      reviewed |-> FALSE]]
                /\ Chosen(r, runs[r].cron, d, empty)
  /\ UNCHANGED <<items, purges, deliveries, chat, excused, faults>>

\* queueTelegramDelivery of the cron: without a row the run throws, and delivers nothing.
QueueTelegramDelivery(r) ==
  /\ runs[r].phase = "queue"
  /\ LET d == runs[r].digest
     IN /\ deliveries' = Queued(d, runs[r].empty)
        /\ IF deliveries'[d].state = "none" THEN Ends(r)
           ELSE runs' = [runs EXCEPT ![r] = [IdleRun EXCEPT !.phase = "lease", !.cron = TRUE]]
  /\ UNCHANGED <<items, purges, digests, chat, excused, faults>>

-----------------------------------------------------------------------------
(* Delivery: processDigestDeliveries.                                      *)

Holds(r, d) == deliveries[d].owner = r

\* The cron that has queued its digest, or the cron of a period outside the model.
Delivers(r) == runs[r].phase \in {"lease", "idle"}

\* A run goes on with what is left of its batch.
Continues(r, batch) ==
  IF batch = {} THEN Ends(r)
  ELSE runs' = [runs EXCEPT ![r] = [IdleRun EXCEPT !.phase = "next", !.cron = TRUE,
                                                   !.batch = batch]]

\* A run with one delivery of its batch in hand.
InHand(phase, batch, d) ==
  [IdleRun EXCEPT !.phase = phase, !.cron = TRUE, !.batch = batch, !.digest = d]

\* A message with or without a provider's wording, about to be sent.
Message(batch, d, ai, shown) ==
  [InHand("send", batch, d) EXCEPT !.ai = ai, !.shown = shown]

\* Faulty variant: a lapsed lease makes the delivery pending again.
LeasedOrPending(r) ==
  /\ Delivers(r)
  /\ LET lapsed == {d \in Digests : deliveries[d].lapsed}
         pending == {d \in Digests : deliveries[d].state = "pending"}
     IN \E due \in SUBSET (pending \cup lapsed) :
          /\ deliveries' = [d \in Digests |->
               IF d \in due
               THEN [state |-> "leased", owner |-> r, lapsed |-> FALSE,
                     attempts |-> Min({deliveries[d].attempts + 1, MaxAttempts})]
               ELSE deliveries[d]]
          /\ Continues(r, due)
  /\ UNCHANGED <<items, purges, digests, chat, excused, faults>>

\* Lapsed leases become unknown, then the pending deliveries that are due are leased.
\* Attempts beyond the maximum count as the maximum.
LeaseTelegramDeliveries(r) ==
  /\ Delivers(r)
  /\ LET pending == {d \in Digests : deliveries[d].state = "pending"}
     IN \E due \in SUBSET pending :
          /\ deliveries' = [d \in Digests |->
               IF deliveries[d].lapsed
               THEN [deliveries[d] EXCEPT !.state = "unknown", !.owner = None, !.lapsed = FALSE]
               ELSE IF d \in due
               THEN [state |-> "leased", owner |-> r, lapsed |-> FALSE,
                     attempts |-> Min({deliveries[d].attempts + 1, MaxAttempts})]
               ELSE deliveries[d]]
          /\ Continues(r, due)
  /\ UNCHANGED <<items, purges, digests, chat, excused, faults>>

\* Faulty variant: the text stored at the generation is sent.
DeliverStoredText(r, d) ==
  /\ runs[r].phase = "next" /\ d \in runs[r].batch
  /\ LET facts == digests[d].facts
         rest == runs[r].batch \ {d}
     IN IF ~Stored(d) THEN Continues(r, rest)
        ELSE runs' = [runs EXCEPT ![r] =
               IF Empty(facts) THEN InHand("skip", rest, d)
               ELSE Message(rest, d, TRUE, {i \in Items : facts[i] = "public"})]
  /\ UNCHANGED <<items, purges, digests, deliveries, chat, excused, faults>>

\* The next delivery of the batch.  The row of a purged digest is gone with it, and what
\* the run would write of it finds nothing.  deliveryText reads the items again; the
\* wording of an AI provider, which any digest may have, goes along only with the text it
\* was made for.
DeliveryText(r, d) ==
  /\ runs[r].phase = "next" /\ d \in runs[r].batch
  /\ LET facts == digests[d].facts
         rest == runs[r].batch \ {d}
     IN IF ~Stored(d) THEN Continues(r, rest)
        ELSE runs' = [runs EXCEPT ![r] =
               IF Empty(facts) THEN InHand("skip", rest, d)
               ELSE Message(rest, d, Unchanged(facts), Shown(facts))]
  /\ UNCHANGED <<items, purges, digests, deliveries, chat, excused, faults>>

\* What the client makes of the answer, if the chat has got the message and if not.
\* A 5xx is retried even when the message has arrived.
Outcomes(accepted) ==
  {"unknown", "retry"} \cup (IF accepted THEN {"sent"} ELSE {"failed"})

\* sendMessage.  Nothing looks at the lease again before the request.  An error before it
\* is retried like a refusal.
SendMessage(r) ==
  /\ runs[r].phase = "send"
  /\ LET d == runs[r].digest
     IN \E accepted \in BOOLEAN : \E outcome \in Outcomes(accepted) :
          /\ runs' = [runs EXCEPT ![r] = InHand(outcome, runs[r].batch, d)]
          /\ chat' = IF accepted THEN [chat EXCEPT ![d] = Min({chat[d] + 1, 2})] ELSE chat
          /\ excused' = IF accepted /\ (outcome = "retry" \/ ~Holds(r, d))
                        THEN excused \cup {digests[d].period} ELSE excused
  /\ UNCHANGED <<items, purges, digests, deliveries, faults>>

\* What follows a write: the audit event, whose foreign key the purge of the digest has
\* broken; that throws, twice, and with it go the other deliveries of the batch.
Audited(r) == Continues(r, IF Stored(runs[r].digest) THEN runs[r].batch ELSE {})

\* The attempts of a delivery that is over count no more.
Settled(d, state) ==
  [deliveries EXCEPT ![d] =
     [NoDelivery EXCEPT !.state = state,
        !.attempts = IF state \in {"sent", "skipped"} THEN 0 ELSE deliveries[d].attempts]]

\* markDeliverySent; a lease that has lapsed is not enough, and leaves it unknown.
MarkDeliverySent(r) ==
  /\ runs[r].phase = "sent"
  /\ LET d == runs[r].digest
     IN IF Holds(r, d) /\ ~deliveries[d].lapsed
        THEN deliveries' = Settled(d, "sent") /\ Audited(r)
        ELSE /\ deliveries' = IF Holds(r, d) THEN Settled(d, "unknown") ELSE deliveries
             /\ Continues(r, runs[r].batch)
  /\ UNCHANGED <<items, purges, digests, chat, excused, faults>>

\* Nothing is left to say: skipped.
MarkDeliverySkipped(r) ==
  /\ runs[r].phase = "skip"
  /\ deliveries' = IF Holds(r, runs[r].digest) THEN Settled(runs[r].digest, "skipped")
                   ELSE deliveries
  /\ Audited(r)
  /\ UNCHANGED <<items, purges, digests, chat, excused, faults>>

\* The catch clause.  Whose lease has lapsed may still write, as long as nobody swept it.
MarkDeliveryFailure(r) ==
  /\ runs[r].phase \in {"unknown", "retry", "failed"}
  /\ LET d == runs[r].digest
         again == runs[r].phase = "retry" /\ deliveries[d].attempts < MaxAttempts
         state == IF again THEN "pending"
                  ELSE IF runs[r].phase = "retry" THEN "failed" ELSE runs[r].phase
     IN deliveries' = IF Holds(r, d) THEN Settled(d, state) ELSE deliveries
  /\ Audited(r)
  /\ UNCHANGED <<items, purges, digests, chat, excused, faults>>

\* The invocation ends, or a statement outside the try block throws.
RunDies(r) ==
  /\ runs[r].phase # "idle"
  /\ faults < MaxFaults /\ faults' = faults + 1
  /\ Ends(r)
  /\ UNCHANGED <<items, purges, digests, deliveries, chat, excused>>

\* A statement inside it throws: retried before the message was accepted, unknown after.
RunThrows(r) ==
  /\ runs[r].phase \in {"skip", "sent"}
  /\ faults < MaxFaults /\ faults' = faults + 1
  /\ Goes(r, IF runs[r].phase = "sent" THEN "unknown" ELSE "retry")
  /\ UNCHANGED <<items, purges, digests, deliveries, chat, excused>>

Working(r, d) == r # None /\ (runs[r].digest = d \/ d \in runs[r].batch)

Lapse(d) ==
  /\ deliveries[d].state = "leased" /\ ~deliveries[d].lapsed
  /\ deliveries' = [deliveries EXCEPT ![d].lapsed = TRUE]
  /\ UNCHANGED <<items, purges, digests, runs, chat, excused>>

AbandonedLeaseLapses(d) == Lapse(d) /\ ~Working(deliveries[d].owner, d) /\ UNCHANGED faults

\* Ten deliveries share two minutes.
LeaseLapses(d) ==
  /\ Lapse(d) /\ Working(deliveries[d].owner, d)
  /\ faults < MaxFaults /\ faults' = faults + 1

-----------------------------------------------------------------------------
(* The operator.                                                           *)

MarkReviewed(d) ==
  /\ Stored(d) /\ ~digests[d].reviewed
  /\ digests' = [digests EXCEPT ![d].reviewed = TRUE]
  /\ UNCHANGED <<items, purges, deliveries, runs, chat, excused, faults>>

\* Neither route nor page lets an unreviewed digest through.
DeliverReviewed(d) ==
  /\ Stored(d) /\ digests[d].reviewed
  /\ deliveries' = Queued(d, Empty(digests[d].facts))
  /\ UNCHANGED <<items, purges, digests, runs, chat, excused, faults>>

RetryFailedDelivery(d) ==
  /\ deliveries[d].state = "failed"
  /\ deliveries' = [deliveries EXCEPT ![d].state = "pending"]
  /\ UNCHANGED <<items, purges, digests, runs, chat, excused, faults>>

\* The operator says what the chat shows him: the page asks for evidence, the schema for
\* the id of a message that arrived.
ReconcileUnknownDelivery(d) ==
  /\ deliveries[d].state = "unknown"
  /\ deliveries' = Settled(d, IF chat[d] > 0 THEN "sent" ELSE "failed")
  /\ UNCHANGED <<items, purges, digests, runs, chat, excused, faults>>

\* Only the API offers it.
CancelDelivery(d) ==
  /\ deliveries[d].state \in {"pending", "failed"}
  /\ deliveries' = Settled(d, "skipped")
  /\ UNCHANGED <<items, purges, digests, runs, chat, excused, faults>>

-----------------------------------------------------------------------------
Advance(r) ==
  \/ InsertRun(r) \/ QueueTelegramDelivery(r) \/ LeaseTelegramDeliveries(r)
  \/ \E d \in Digests : DeliveryText(r, d)
  \/ SendMessage(r)
  \/ MarkDeliverySent(r) \/ MarkDeliverySkipped(r) \/ MarkDeliveryFailure(r)

Cron(r) == \E p \in Periods : GenerateDigest(r, TRUE, p)

\* The buttons of the review page: preview and regenerate,
Generates ==
  \E r \in Runs, p \in Periods : GenerateDigest(r, FALSE, p) \/ RegenerateDigest(r, p)

\* review and queue,
Reviews(d) == MarkReviewed(d) \/ DeliverReviewed(d)

\* retry a failed delivery and reconcile an unknown one; cancelling has no button.
Resolves(d) == RetryFailedDelivery(d) \/ ReconcileUnknownDelivery(d)

Operator == Generates \/ \E d \in Digests : Reviews(d) \/ Resolves(d) \/ CancelDelivery(d)

Next ==
  \/ \E i \in Items :
       ChangeItem(i) \/ PurgeDigestReferences(i) \/ PurgeItem(i)
  \/ \E r \in Runs : Cron(r) \/ Advance(r) \/ RunDies(r) \/ RunThrows(r)
  \/ Operator
  \/ \E d \in Digests : AbandonedLeaseLapses(d) \/ LeaseLapses(d)

Spec == Init /\ [][Next]_vars

-----------------------------------------------------------------------------
(* Properties.                                                             *)

Messages(p) ==
  LET ofPeriod == {d \in Digests : digests[d].period = p}
  IN IF \E d \in ofPeriod : chat[d] > 1 THEN 2
     ELSE Cardinality({d \in ofPeriod : chat[d] > 0})

\* All is well typed, and a period gets one message, however many versions of its digest there are, runs that
\* overlap or die and answers that get lost (docs/DECISIONS.md, ADR-025).  Excused are a 5xx
\* answered to a message that arrived, a message sent without the lease, and a purge of the
\* record.
OneMessage ==
  /\ TypeOK
  /\ \A p \in Periods : p \notin excused => Messages(p) <= 1

\* A delivery that is not unknown tells the truth: the message has arrived if it is sent,
\* and has not if it is pending, failed or skipped (digest.repository.ts:401).
OutcomeIsTrue ==
  \A d \in Digests : digests[d].period \notin excused =>
    /\ deliveries[d].state = "sent" => chat[d] > 0
    /\ deliveries[d].state \in {"pending", "failed", "skipped"} => chat[d] = 0

\* What is about to be sent was true when it was rendered, whatever the digest said when it
\* was generated: no title of an item made private or deleted since, and no wording of an
\* AI provider about other facts (digest.service.ts:301-310).
CurrentAtSend ==
  \A r \in Runs : runs[r].phase = "send" =>
    LET facts == digests[runs[r].digest].facts
        same == Items \ runs[r].changed
    IN /\ \A i \in runs[r].shown \cap same : items[i] = "public"
       /\ runs[r].ai => \A i \in Payload(facts) \cap same : items[i] = facts[i]
====
