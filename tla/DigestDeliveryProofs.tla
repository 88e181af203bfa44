-------------------------- MODULE DigestDeliveryProofs --------------------------
(***************************************************************************)
(* Theorems about DigestDelivery.                                          *)
(***************************************************************************)
EXTENDS DigestDelivery, FiniteSetTheorems, TLAPS

Live(d) == deliveries[d].state \notin {"none", "skipped"}

\* The phases of a run with a delivery in hand.
InHandPhases == {"send", "sent", "skip", "unknown", "retry", "failed"}

\* A delivery belongs to a stored digest, a digest to a period, and nothing has
\* been sent of a digest that is not there yet.
RowsPlaced ==
  \A d \in Digests :
    /\ deliveries[d].state # "none" => Stored(d)
    /\ deliveries[d].lapsed => deliveries[d].state = "leased"
    /\ digests[d].state # "absent" => digests[d].period \in Periods
    /\ digests[d].state = "absent" => chat[d] = 0

\* A run works on digests that are or were there, one at a time.
RunPlaced(r) ==
  /\ runs[r].phase = "insert" => runs[r].period \in Periods
  /\ runs[r].phase \in {"queue"} \cup InHandPhases =>
       /\ runs[r].digest \in Digests \ runs[r].batch
       /\ digests[runs[r].digest].state # "absent"
  /\ \A d \in runs[r].batch : digests[d].state # "absent"

RunsPlaced == \A r \in Runs : RunPlaced(r)

\* A period has one delivery that is not skipped.
OneLive ==
  \A d, e \in Digests :
    d # e /\ Live(d) /\ Live(e) => digests[d].period # digests[e].period

\* What the state of a delivery says of the chat.
Truth(d) ==
  digests[d].period \notin excused =>
    /\ chat[d] <= 1
    /\ deliveries[d].state \in {"none", "pending", "failed", "skipped"} => chat[d] = 0
    /\ deliveries[d].state = "sent" => chat[d] > 0

Truths == \A d \in Digests : Truth(d)

\* What a run that holds the lease knows of the chat.
Knows(r, d) ==
  digests[d].period \notin excused /\ deliveries[d].owner = r =>
    /\ d \in runs[r].batch => chat[d] = 0
    /\ runs[r].digest = d =>
         /\ runs[r].phase \in {"send", "skip", "retry", "failed"} => chat[d] = 0
         /\ runs[r].phase = "sent" => chat[d] > 0

Knowledge == \A r \in Runs, d \in Digests : Knows(r, d)

IInv ==
  /\ TypeOK /\ RowsPlaced /\ RunsPlaced
  /\ OneLive /\ Truths /\ Knowledge

-----------------------------------------------------------------------------
(* What a step other than a lease or a message may do to a digest, to its  *)
(* delivery and to a run.                                                  *)

DigestMoves(d) ==
  \/ digests'[d].state = digests[d].state /\ digests'[d].period = digests[d].period
  \/ /\ digests[d].state = "absent" /\ digests'[d].state = "stored"
     /\ digests'[d].period \in Periods
     /\ deliveries'[d] = deliveries[d]
  \/ /\ Stored(d) /\ digests'[d].state = "purged" /\ digests'[d].period = digests[d].period
     /\ deliveries'[d] = NoDelivery /\ digests[d].period \in excused'

DeliveryMoves(d) ==
  \/ deliveries'[d] = deliveries[d]
  \/ /\ digests' = digests /\ Stored(d)
     /\ deliveries[d].state = "none" /\ ~OtherDelivery(d)
     /\ deliveries'[d].state \in {"pending", "skipped"}
     /\ deliveries'[d].owner = None /\ ~deliveries'[d].lapsed
     /\ \A e \in Digests \ {d} : deliveries'[e] = deliveries[e]
  \/ /\ digests' = digests /\ Live(d) /\ deliveries'[d].state # "none"
     /\ deliveries'[d].owner \in {deliveries[d].owner, None}
     /\ deliveries'[d].lapsed => deliveries'[d].state = "leased"
     /\ Truth(d)'
  \/ /\ Stored(d) /\ digests'[d].state = "purged" /\ digests'[d].period = digests[d].period
     /\ deliveries'[d] = NoDelivery /\ digests[d].period \in excused'

SameRun(r) ==
  /\ runs'[r].phase = runs[r].phase /\ runs'[r].batch = runs[r].batch
  /\ runs'[r].digest = runs[r].digest /\ runs'[r].period = runs[r].period

RunMoves(r) ==
  \/ SameRun(r)
  \/ /\ runs'[r].phase \in {"idle", "lease", "next"} /\ runs'[r].digest = None
     /\ runs'[r].batch \subseteq runs[r].batch
  \/ /\ runs'[r].phase = "insert" /\ runs'[r].digest = None
     /\ runs'[r].batch = {} /\ runs'[r].period \in Periods
  \/ /\ runs'[r].phase = "queue" /\ runs'[r].batch = {}
     /\ runs'[r].digest \in Digests /\ digests'[runs'[r].digest].state # "absent"
  \/ /\ runs'[r].phase \in {"send", "skip"}
     /\ runs'[r].digest \in runs[r].batch
     /\ runs'[r].batch = runs[r].batch \ {runs'[r].digest}
  \/ /\ runs'[r].digest = runs[r].digest /\ runs'[r].batch = runs[r].batch
     /\ \/ runs[r].phase = "sent" /\ runs'[r].phase = "unknown"
        \/ runs[r].phase = "skip" /\ runs'[r].phase = "retry"

Moves ==
  /\ TypeOK'
  /\ chat' = chat /\ excused \subseteq excused'
  /\ \A d \in Digests : DigestMoves(d) /\ DeliveryMoves(d)
  /\ \A r \in Runs : RunMoves(r)

-----------------------------------------------------------------------------
(* Numbers.                                                                *)

LEMMA MinOfTwo ==
  ASSUME NEW a \in Nat, NEW b \in Nat
  PROVE  Min({a, b}) \in Nat /\ Min({a, b}) <= a /\ Min({a, b}) <= b
         /\ (a <= b => Min({a, b}) = a) /\ (b <= a => Min({a, b}) = b)
<1> DEFINE S == {a, b}
<1>1. CASE a <= b
  <2>1. a \in S /\ \A y \in S : a <= y
    BY <1>1
  <2>2. \A x \in S : (\A y \in S : x <= y) => x = a
    BY <1>1
  <2> QED BY <1>1, <2>1, <2>2 DEF Min
<1>2. CASE b <= a
  <2>1. b \in S /\ \A y \in S : b <= y
    BY <1>2
  <2>2. \A x \in S : (\A y \in S : x <= y) => x = b
    BY <1>2
  <2> QED BY <1>2, <2>1, <2>2 DEF Min
<1> QED BY <1>1, <1>2

\* A finite set of numbers that is not empty has a largest element: its smallest
\* subset without one would have one.
LEMMA MaxOfFinite ==
  ASSUME NEW S, IsFiniteSet(S), S # {}, S \subseteq Nat
  PROVE  Max(S) \in Nat
<1> DEFINE HasMax(T) == \E x \in T : \A y \in T : x >= y
           Bad == {T \in SUBSET S : T # {} /\ ~HasMax(T)}
<1>1. Bad = {}
  <2>1. SUFFICES ASSUME Bad # {} PROVE FALSE
    OBVIOUS
  <2>2. IsWellFoundedOn(StrictSubsetOrdering(S), SUBSET S)
    BY FS_StrictSubsetOrderingWellFounded, FS_FiniteSubsetsOfFinite
  <2>3. \E T \in Bad : \A U \in Bad : ~ (<<U, T>> \in StrictSubsetOrdering(S))
    <3>1. Bad \subseteq SUBSET S
      OBVIOUS
    <3> HIDE DEF Bad
    <3> QED BY <2>1, <2>2, <3>1, WFMin
  <2>4. PICK T \in Bad : \A U \in Bad : ~ (<<U, T>> \in StrictSubsetOrdering(S))
    BY <2>3
  <2>5. PICK x \in T : TRUE
    OBVIOUS
  <2>6. CASE T \ {x} = {}
    <3>1. T = {x} /\ x \in Nat
      BY <2>6
    <3> QED BY <3>1
  <2>7. CASE T \ {x} # {}
    <3>1. T \ {x} \notin Bad
      BY <2>4 DEF StrictSubsetOrdering
    <3>2. HasMax(T \ {x})
      BY <2>7, <3>1
    <3>3. PICK m \in T \ {x} : \A y \in T \ {x} : m >= y
      BY <3>2
    <3>4. x \in Nat /\ m \in Nat /\ \A y \in T : y \in Nat
      OBVIOUS
    <3>5. CASE m >= x
      BY <3>3, <3>4, <3>5
    <3>6. CASE x >= m
      <4>1. \A y \in T : x >= y
        BY <3>3, <3>4, <3>6
      <4> QED BY <4>1
    <3> QED BY <3>4, <3>5, <3>6
  <2> QED BY <2>6, <2>7
<1>2. HasMax(S)
  BY <1>1
<1> QED BY <1>2 DEF Max

-----------------------------------------------------------------------------
(* Rows.                                                                   *)

LEMMA IdleFields ==
  /\ IdleRun \in RunRecord
  /\ IdleRun.phase = "idle" /\ IdleRun.batch = {} /\ IdleRun.digest = None
BY DEF IdleRun, RunRecord, NoSnapshot, Snapshots

\* A statement writes one run.
LEMMA RunWrites ==
  ASSUME TypeOK, NEW r \in Runs, NEW row \in RunRecord, runs' = [runs EXCEPT ![r] = row]
  PROVE  /\ runs' \in [Runs -> RunRecord]
         /\ runs'[r] = row
         /\ \A s \in Runs \ {r} : runs'[s] = runs[s]
BY DEF TypeOK

LEMMA EndsFacts ==
  ASSUME TypeOK, NEW r \in Runs, Ends(r)
  PROVE  /\ runs' \in [Runs -> RunRecord]
         /\ runs'[r].phase = "idle" /\ runs'[r].batch = {} /\ runs'[r].digest = None
         /\ \A s \in Runs \ {r} : runs'[s] = runs[s]
BY IdleFields, RunWrites DEF Ends

LEMMA ContinuesFacts ==
  ASSUME TypeOK, NEW r \in Runs, NEW batch \in SUBSET Digests, Continues(r, batch)
  PROVE  /\ runs' \in [Runs -> RunRecord]
         /\ runs'[r].phase \in {"idle", "next"}
         /\ runs'[r].batch = batch /\ runs'[r].digest = None
         /\ \A s \in Runs \ {r} : runs'[s] = runs[s]
<1> DEFINE row == [IdleRun EXCEPT !.phase = "next", !.cron = TRUE, !.batch = batch]
<1>1. row \in RunRecord /\ row.phase = "next" /\ row.batch = batch /\ row.digest = None
  BY IdleFields DEF IdleRun, RunRecord
<1>2. CASE batch = {}
  BY <1>2, EndsFacts DEF Continues
<1>3. CASE batch # {}
  <2>1. runs' = [runs EXCEPT ![r] = row]
    BY <1>3 DEF Continues
  <2> HIDE DEF row
  <2> QED BY <1>1, <2>1, RunWrites
<1> QED BY <1>2, <1>3

LEMMA InHandFacts ==
  ASSUME NEW phase \in InHandPhases, NEW batch \in SUBSET Digests, NEW d \in Digests
  PROVE  /\ InHand(phase, batch, d) \in RunRecord
         /\ InHand(phase, batch, d).phase = phase
         /\ InHand(phase, batch, d).batch = batch
         /\ InHand(phase, batch, d).digest = d
BY IdleFields DEF InHand, IdleRun, RunRecord, InHandPhases

LEMMA MessageFacts ==
  ASSUME NEW batch \in SUBSET Digests, NEW d \in Digests, NEW ai \in BOOLEAN,
         NEW shown \in SUBSET Items
  PROVE  /\ Message(batch, d, ai, shown) \in RunRecord
         /\ Message(batch, d, ai, shown).phase = "send"
         /\ Message(batch, d, ai, shown).batch = batch
         /\ Message(batch, d, ai, shown).digest = d
<1>1. [IdleRun EXCEPT !.ai = ai] \in RunRecord
  BY IdleFields DEF IdleRun, RunRecord
<1> QED BY IdleFields, <1>1 DEF Message, InHand, IdleRun, RunRecord

LEMMA SettledFacts ==
  ASSUME TypeOK, NEW d \in Digests,
         NEW state \in {"pending", "sent", "failed", "unknown", "skipped"}
  PROVE  /\ Settled(d, state) \in [Digests -> DeliveryRecord]
         /\ Settled(d, state)[d].state = state
         /\ Settled(d, state)[d].owner = None /\ ~Settled(d, state)[d].lapsed
         /\ \A e \in Digests \ {d} : Settled(d, state)[e] = deliveries[e]
<1> DEFINE n == IF state \in {"sent", "skipped"} THEN 0 ELSE deliveries[d].attempts
           row == [NoDelivery EXCEPT !.state = state, !.attempts = n]
<1>1. deliveries \in [Digests -> DeliveryRecord] /\ n \in 0 .. MaxAttempts
  BY DigestAssumption DEF TypeOK, DeliveryRecord
<1>2. row \in DeliveryRecord /\ row.state = state /\ row.owner = None /\ ~row.lapsed
  <2> HIDE DEF n
  <2> QED BY <1>1, DigestAssumption DEF NoDelivery, DeliveryRecord
<1>3. Settled(d, state) = [deliveries EXCEPT ![d] = row]
  BY DEF Settled
<1> HIDE DEF row
<1> QED BY <1>1, <1>2, <1>3

\* Queueing gives a digest its first delivery, if no other version of the period
\* has one that is not skipped.
LEMMA QueuedFacts ==
  ASSUME TypeOK, NEW d \in Digests, NEW empty \in BOOLEAN
  PROVE  /\ Queued(d, empty) \in [Digests -> DeliveryRecord]
         /\ \A e \in Digests \ {d} : Queued(d, empty)[e] = deliveries[e]
         /\ \/ Queued(d, empty)[d] = deliveries[d]
            \/ /\ Stored(d) /\ deliveries[d].state = "none" /\ ~OtherDelivery(d)
               /\ Queued(d, empty)[d].state \in {"pending", "skipped"}
               /\ Queued(d, empty)[d].owner = deliveries[d].owner
               /\ Queued(d, empty)[d].lapsed = deliveries[d].lapsed
<1> DEFINE state == IF empty THEN "skipped" ELSE "pending"
           row == [deliveries[d] EXCEPT !.state = state]
<1>1. deliveries \in [Digests -> DeliveryRecord] /\ deliveries[d] \in DeliveryRecord
  BY DEF TypeOK
<1>2. /\ row \in DeliveryRecord /\ row.state \in {"pending", "skipped"}
      /\ row.owner = deliveries[d].owner /\ row.lapsed = deliveries[d].lapsed
  BY <1>1 DEF DeliveryRecord
<1>3. CASE Stored(d) /\ deliveries[d].state = "none" /\ ~OtherDelivery(d)
  <2>1. Queued(d, empty) = [deliveries EXCEPT ![d] = row]
    BY <1>3 DEF Queued
  <2> HIDE DEF row
  <2> QED BY <1>1, <1>2, <1>3, <2>1
<1>4. CASE ~(Stored(d) /\ deliveries[d].state = "none" /\ ~OtherDelivery(d))
  <2>1. Queued(d, empty) = deliveries
    BY <1>4 DEF Queued
  <2> QED BY <1>1, <2>1
<1> QED BY <1>3, <1>4

-----------------------------------------------------------------------------
(* Types.                                                                  *)

LEMMA OwnerKept ==
  ASSUME TypeOK, NEW d \in Digests, deliveries'[d] = deliveries[d]
  PROVE  deliveries'[d].owner # None <=> deliveries'[d].state = "leased"
BY DEF TypeOK

\* A run goes on with a stored digest.
LEMMA ChosenFacts ==
  ASSUME TypeOK, NEW r \in Runs, NEW cron \in BOOLEAN, NEW d \in Digests, NEW empty \in BOOLEAN,
         Chosen(r, cron, d, empty)
  PROVE  /\ runs' \in [Runs -> RunRecord]
         /\ \/ runs'[r].phase = "queue" /\ runs'[r].batch = {} /\ runs'[r].digest = d
            \/ runs'[r].phase = "idle" /\ runs'[r].batch = {} /\ runs'[r].digest = None
         /\ \A s \in Runs \ {r} : runs'[s] = runs[s]
<1> DEFINE row == [IdleRun EXCEPT !.phase = "queue", !.cron = TRUE, !.digest = d, !.empty = empty]
<1>1. row \in RunRecord /\ row.phase = "queue" /\ row.batch = {} /\ row.digest = d
  BY IdleFields DEF IdleRun, RunRecord
<1>2. CASE cron
  <2>1. runs' = [runs EXCEPT ![r] = row]
    BY <1>2 DEF Chosen
  <2> HIDE DEF row
  <2> QED BY <1>1, <2>1, RunWrites
<1>3. CASE ~cron
  BY <1>3, EndsFacts DEF Chosen
<1> QED BY <1>2, <1>3

LEMMA SelectFacts ==
  ASSUME TypeOK, NEW r \in Runs, NEW cron \in BOOLEAN, NEW p \in Periods, NEW version \in Nat,
         Select(r, cron, p, version)
  PROVE  /\ runs' \in [Runs -> RunRecord]
         /\ runs'[r].phase = "insert" /\ runs'[r].batch = {} /\ runs'[r].digest = None
         /\ runs'[r].period = p
         /\ \A s \in Runs \ {r} : runs'[s] = runs[s]
<1> DEFINE row == [IdleRun EXCEPT !.phase = "insert", !.cron = cron, !.period = p,
                                  !.version = version, !.facts = Selected]
<1>1. Selected \in Snapshots
  BY DEF TypeOK, Selected, Snapshots
<1>2. /\ row \in RunRecord /\ row.phase = "insert" /\ row.batch = {} /\ row.digest = None
      /\ row.period = p
  <2> HIDE DEF Selected
  <2> QED BY <1>1, IdleFields DEF IdleRun, RunRecord
<1>3. runs' = [runs EXCEPT ![r] = row]
  BY DEF Select
<1> HIDE DEF row
<1> QED BY <1>2, <1>3, RunWrites

\* A change of an item leaves phase, batch and digest of every run.
LEMMA OvertakesFacts ==
  ASSUME TypeOK, NEW i \in Items, Overtakes(i)
  PROVE  /\ runs' \in [Runs -> RunRecord]
         /\ \A r \in Runs : /\ runs'[r].phase = runs[r].phase /\ runs'[r].batch = runs[r].batch
                            /\ runs'[r].digest = runs[r].digest
                            /\ runs'[r].period = runs[r].period
<1>1. \A r \in Runs : runs[r] \in RunRecord
  BY DEF TypeOK
<1>2. ASSUME NEW r \in Runs
      PROVE  [runs[r] EXCEPT !.changed = runs[r].changed \cup {i}] \in RunRecord
  BY <1>1 DEF RunRecord
<1>3. \A r \in Runs : runs'[r] \in RunRecord
  BY <1>1, <1>2 DEF Overtakes
<1> QED BY <1>1, <1>3 DEF Overtakes, RunRecord

\* Versions are numbers.
LEMMA NextVersion ==
  ASSUME TypeOK, NEW p \in Periods, OfPeriod(p) # {}
  PROVE  NextGenerationVersion(p) \in Nat
<1> DEFINE versions == {digests[d].version : d \in OfPeriod(p)}
<1>1. OfPeriod(p) \subseteq Digests /\ IsFiniteSet(OfPeriod(p))
  BY DigestAssumption, FS_Subset DEF OfPeriod
<1>2. IsFiniteSet(versions)
  <2> DEFINE f == [d \in OfPeriod(p) |-> digests[d].version]
  <2>1. f \in Surjection(OfPeriod(p), versions)
    BY DEF Surjection
  <2> HIDE DEF f, versions
  <2> QED BY <1>1, <2>1, FS_Surjection
<1>3. versions # {} /\ versions \subseteq Nat
  BY <1>1 DEF TypeOK, DigestRecord
<1>4. Max(versions) \in Nat
  <2> HIDE DEF versions
  <2> QED BY <1>2, <1>3, MaxOfFinite
<1> QED BY <1>4 DEF NextGenerationVersion

-----------------------------------------------------------------------------
(* Moves keep the invariant.                                               *)

LEMMA AbsentIsIdle ==
  ASSUME TypeOK, RowsPlaced, NEW d \in Digests, digests[d].state = "absent"
  PROVE  deliveries[d].state = "none" /\ deliveries[d].owner = None /\ chat[d] = 0
BY DEF TypeOK, RowsPlaced, Stored

LEMMA MovesPlaceRows ==
  ASSUME TypeOK, RowsPlaced, Moves
  PROVE  RowsPlaced'
<1> SUFFICES ASSUME NEW d \in Digests
             PROVE  /\ deliveries'[d].state # "none" => digests'[d].state = "stored"
                    /\ deliveries'[d].lapsed => deliveries'[d].state = "leased"
                    /\ digests'[d].state # "absent" => digests'[d].period \in Periods
                    /\ digests'[d].state = "absent" => chat'[d] = 0
  BY DEF RowsPlaced, Stored
<1>1. /\ deliveries[d].state # "none" => digests[d].state = "stored"
      /\ deliveries[d].lapsed => deliveries[d].state = "leased"
      /\ digests[d].state # "absent" => digests[d].period \in Periods
      /\ digests[d].state = "absent" => chat[d] = 0
  BY DEF RowsPlaced, Stored
<1>2. DigestMoves(d) /\ DeliveryMoves(d) /\ chat' = chat
  BY DEF Moves
<1>3. NoDelivery.state = "none" /\ ~NoDelivery.lapsed
  BY DEF NoDelivery
<1>4. Live(d) => digests[d].state = "stored"
  BY <1>1 DEF Live
<1> QED BY <1>1, <1>2, <1>3, <1>4 DEF DigestMoves, DeliveryMoves, Stored

LEMMA MovesPlaceRuns ==
  ASSUME TypeOK, RowsPlaced, RunsPlaced, Moves
  PROVE  RunsPlaced'
<1>1. \A d \in Digests : digests[d].state # "absent" => digests'[d].state # "absent"
  BY DEF Moves, DigestMoves, Stored
<1>2. \A r \in Runs : runs[r].batch \subseteq Digests
  BY DEF TypeOK, RunRecord
<1> SUFFICES ASSUME NEW r \in Runs PROVE RunPlaced(r)'
  BY DEF RunsPlaced
<1>3. RunPlaced(r) /\ RunMoves(r)
  BY DEF RunsPlaced, Moves
<1>4. CASE SameRun(r)
  BY <1>1, <1>2, <1>3, <1>4 DEF RunPlaced, SameRun, InHandPhases
<1>5. CASE ~SameRun(r)
  BY <1>1, <1>2, <1>3, <1>5 DEF RunPlaced, RunMoves, InHandPhases
<1> QED BY <1>4, <1>5

LEMMA MovesKeepOneLive ==
  ASSUME TypeOK, RowsPlaced, OneLive, Moves
  PROVE  OneLive'
<1>1. ASSUME NEW d \in Digests, Live(d)', ~Live(d)
      PROVE  /\ digests' = digests /\ Stored(d) /\ ~OtherDelivery(d)
             /\ \A e \in Digests \ {d} : deliveries'[e] = deliveries[e]
  <2>1. NoDelivery.state = "none" /\ DeliveryMoves(d)
    BY DEF NoDelivery, Moves
  <2> QED BY <1>1, <2>1 DEF DeliveryMoves, Live
<1>2. ASSUME NEW d \in Digests, Live(d), Live(d)'
      PROVE  digests'[d].period = digests[d].period
  <2>1. Stored(d) /\ DigestMoves(d)
    BY <1>2 DEF RowsPlaced, Live, Moves
  <2> QED BY <2>1 DEF DigestMoves, Stored
<1> SUFFICES ASSUME NEW d \in Digests, NEW e \in Digests, d # e, Live(d)', Live(e)',
                    digests'[d].period = digests'[e].period
             PROVE  FALSE
  BY DEF OneLive
<1>3. ASSUME NEW a \in Digests, NEW b \in Digests, a # b, Live(a)', Live(b)', ~Live(a),
             digests'[a].period = digests'[b].period
      PROVE  FALSE
  <2>1. digests' = digests /\ Stored(a) /\ ~OtherDelivery(a) /\ deliveries'[b] = deliveries[b]
    BY <1>1, <1>3
  <2>2. Live(b)
    BY <1>3, <2>1 DEF Live
  <2>3. b \in OfPeriod(digests[a].period) \ {a}
    BY <1>3, <2>1, <2>2 DEF OfPeriod, RowsPlaced, Live
  <2> QED BY <2>1, <2>2, <2>3 DEF OtherDelivery, Live
<1>4. CASE Live(d) /\ Live(e)
  BY <1>2, <1>4 DEF OneLive
<1> QED BY <1>3, <1>4

LEMMA MovesKeepTruth ==
  ASSUME TypeOK, RowsPlaced, Truths, Moves
  PROVE  Truths'
<1> SUFFICES ASSUME NEW d \in Digests PROVE Truth(d)'
  BY DEF Truths
<1>1. /\ DigestMoves(d) /\ DeliveryMoves(d) /\ chat' = chat /\ excused \subseteq excused'
      /\ Truth(d)
  BY DEF Moves, Truths
<1>2. CASE digests[d].state = "absent"
  <2>1. deliveries[d].state = "none" /\ chat[d] = 0
    BY <1>2, AbsentIsIdle
  <2>2. deliveries'[d] = deliveries[d]
    BY <1>1, <1>2, <2>1 DEF DeliveryMoves, Stored, Live
  <2> QED BY <1>1, <2>1, <2>2 DEF Truth
<1>3. CASE digests[d].state # "absent"
  <2>1. digests'[d].period = digests[d].period
    BY <1>1, <1>3 DEF DigestMoves, Stored
  <2>2. CASE deliveries'[d] = deliveries[d]
    BY <1>1, <2>1, <2>2 DEF Truth
  <2>3. CASE deliveries[d].state = "none" /\ deliveries'[d].state \in {"pending", "skipped"}
    BY <1>1, <2>1, <2>3 DEF Truth
  <2>4. CASE digests[d].period \in excused'
    BY <2>1, <2>4 DEF Truth
  <2> QED BY <1>1, <2>2, <2>3, <2>4 DEF DeliveryMoves
<1> QED BY <1>2, <1>3

LEMMA MovesKeepKnowledge ==
  ASSUME TypeOK, RowsPlaced, RunsPlaced, Knowledge, Moves
  PROVE  Knowledge'
<1> SUFFICES ASSUME NEW r \in Runs, NEW d \in Digests PROVE Knows(r, d)'
  BY DEF Knowledge
<1>1. /\ DigestMoves(d) /\ DeliveryMoves(d) /\ chat' = chat /\ excused \subseteq excused'
      /\ RunMoves(r) /\ Knows(r, d) /\ r # None /\ d # None
  BY DigestAssumption DEF Moves, Knowledge
<1>2. CASE deliveries'[d].owner # r
  BY <1>2 DEF Knows
<1>3. CASE deliveries'[d].owner = r /\ digests'[d].period \notin excused'
  <2>1. deliveries[d].owner = r
    BY <1>1, <1>3 DEF DeliveryMoves, NoDelivery
  <2>2. digests'[d].period = digests[d].period
    BY <1>1, <2>1, AbsentIsIdle DEF DigestMoves
  <2>3. /\ d \in runs[r].batch => chat[d] = 0
        /\ runs[r].digest = d =>
             /\ runs[r].phase \in {"send", "skip", "retry", "failed"} => chat[d] = 0
             /\ runs[r].phase = "sent" => chat[d] > 0
    BY <1>1, <1>3, <2>1, <2>2 DEF Knows
  <2>4. CASE SameRun(r)
    BY <1>1, <2>3, <2>4 DEF SameRun, Knows
  <2>5. CASE ~SameRun(r)
    BY <1>1, <2>3, <2>5 DEF RunMoves, Knows
  <2> QED BY <2>4, <2>5
<1> QED BY <1>2, <1>3 DEF Knows

LEMMA MovesAreSafe ==
  ASSUME IInv, Moves
  PROVE  IInv'
BY MovesPlaceRows, MovesPlaceRuns, MovesKeepOneLive, MovesKeepTruth, MovesKeepKnowledge
DEF IInv, Moves

-----------------------------------------------------------------------------
(* Every other step is such a move.                                        *)

\* Only a run, or an item with the runs it overtakes, changes.
LEMMA RunsOnly ==
  ASSUME TypeOK, UNCHANGED <<digests, deliveries, chat, excused>>,
         items' \in [Items -> ItemStates], purges' \in [Items -> {"none", "item", "done"}],
         runs' \in [Runs -> RunRecord], faults' \in 0 .. MaxFaults,
         \A r \in Runs : RunMoves(r)
  PROVE  Moves
<1>1. TypeOK'
  BY DEF TypeOK
<1> QED BY <1>1 DEF Moves, DigestMoves, DeliveryMoves

\* Only deliveries and runs change.
LEMMA DeliveriesOnly ==
  ASSUME TypeOK, UNCHANGED <<items, purges, digests, chat, excused>>,
         deliveries' \in [Digests -> DeliveryRecord],
         \A d \in Digests : deliveries'[d].owner # None <=> deliveries'[d].state = "leased",
         runs' \in [Runs -> RunRecord], faults' \in 0 .. MaxFaults,
         \A d \in Digests : DeliveryMoves(d),
         \A r \in Runs : RunMoves(r)
  PROVE  Moves
<1>1. TypeOK'
  BY DEF TypeOK
<1> QED BY <1>1 DEF Moves, DigestMoves

LEMMA OthersStay ==
  ASSUME NEW r \in Runs, \A s \in Runs \ {r} : runs'[s] = runs[s], RunMoves(r)
  PROVE  \A s \in Runs : RunMoves(s)
BY DEF RunMoves, SameRun

LEMMA ItemMoves ==
  ASSUME IInv, NEW i \in Items, ChangeItem(i) \/ PurgeItem(i)
  PROVE  Moves
<1>1. runs' \in [Runs -> RunRecord] /\ \A r \in Runs : SameRun(r)
  BY OvertakesFacts DEF IInv, ChangeItem, PurgeItem, SameRun
<1>2. CASE ChangeItem(i)
  <2>1. items' \in [Items -> ItemStates]
    BY <1>2 DEF IInv, TypeOK, ChangeItem, ItemStates
  <2> QED BY <1>1, <1>2, <2>1, RunsOnly DEF IInv, TypeOK, ChangeItem, RunMoves
<1>3. CASE PurgeItem(i)
  <2>1. items' \in [Items -> ItemStates] /\ purges' \in [Items -> {"none", "item", "done"}]
    BY <1>3 DEF IInv, TypeOK, PurgeItem, ItemStates
  <2> QED BY <1>1, <1>3, <2>1, RunsOnly DEF IInv, TypeOK, PurgeItem, RunMoves
<1> QED BY <1>2, <1>3

LEMMA NoDeliveryRow ==
  NoDelivery \in DeliveryRecord /\ NoDelivery.state = "none" /\ NoDelivery.owner = None
BY DigestAssumption DEF NoDelivery, DeliveryRecord

LEMMA PurgeMoves ==
  ASSUME IInv, NEW i \in Items, PurgeDigestReferences(i)
  PROVE  Moves
<1> DEFINE named == {d \in Digests : Stored(d) /\ i \in Payload(digests[d].facts)}
           row(d) == [digests[d] EXCEPT !.state = "purged", !.reviewed = FALSE]
<1>1. /\ digests' = [d \in Digests |-> IF d \in named THEN row(d) ELSE digests[d]]
      /\ deliveries' = [d \in Digests |-> IF d \in named THEN NoDelivery ELSE deliveries[d]]
      /\ excused' = excused \cup {digests[d].period : d \in named}
      /\ UNCHANGED <<items, runs, chat, faults>>
  BY DEF PurgeDigestReferences
<1>2. TypeOK /\ RowsPlaced
  BY DEF IInv
<1>3. \A d \in Digests : digests[d] \in DigestRecord /\ deliveries[d] \in DeliveryRecord
  BY <1>2 DEF TypeOK
<1>4. ASSUME NEW d \in Digests
      PROVE  /\ row(d) \in DigestRecord /\ row(d).state = "purged"
             /\ row(d).period = digests[d].period
  BY <1>3 DEF DigestRecord
<1>5. named \subseteq Digests /\ \A d \in named : Stored(d) /\ digests[d].period \in Periods
  BY <1>2 DEF RowsPlaced, Stored
<1> HIDE DEF named, row
<1>6. digests' \in [Digests -> DigestRecord]
  BY <1>1, <1>3, <1>4
<1>7. deliveries' \in [Digests -> DeliveryRecord]
  BY <1>1, <1>3, NoDeliveryRow
<1>8. \A d \in Digests : deliveries'[d].owner # None <=> deliveries'[d].state = "leased"
  BY <1>1, <1>2, NoDeliveryRow DEF TypeOK
<1>9. excused' \in SUBSET Periods
  BY <1>1, <1>2, <1>5 DEF TypeOK
<1>10. purges' \in [Items -> {"none", "item", "done"}]
  BY <1>2 DEF TypeOK, PurgeDigestReferences
<1>11. TypeOK'
  BY <1>1, <1>2, <1>6, <1>7, <1>8, <1>9, <1>10 DEF TypeOK
<1>12. ASSUME NEW d \in Digests
       PROVE  DigestMoves(d) /\ DeliveryMoves(d)
  <2>1. CASE d \in named
    BY <1>1, <1>4, <1>5, <2>1 DEF DigestMoves, DeliveryMoves
  <2>2. CASE d \notin named
    BY <1>1, <2>2 DEF DigestMoves, DeliveryMoves
  <2> QED BY <2>1, <2>2
<1>13. \A r \in Runs : RunMoves(r)
  BY <1>1 DEF RunMoves, SameRun
<1> QED BY <1>1, <1>11, <1>12, <1>13 DEF Moves

LEMMA ReviewMoves ==
  ASSUME IInv, NEW d \in Digests, MarkReviewed(d)
  PROVE  Moves
<1>1. TypeOK /\ digests[d] \in DigestRecord
  BY DEF IInv, TypeOK
<1>2. digests' = [digests EXCEPT ![d] = [digests[d] EXCEPT !.reviewed = TRUE]]
  BY DEF MarkReviewed
<1>3. [digests[d] EXCEPT !.reviewed = TRUE] \in DigestRecord
  BY <1>1 DEF DigestRecord
<1>4. digests' \in [Digests -> DigestRecord] /\ \A e \in Digests : DigestMoves(e)
  BY <1>1, <1>2, <1>3 DEF TypeOK, DigestMoves, DigestRecord
<1>5. TypeOK'
  BY <1>1, <1>4 DEF MarkReviewed, TypeOK
<1> QED BY <1>4, <1>5 DEF MarkReviewed, Moves, DeliveryMoves, RunMoves, SameRun

\* A run begins to make a digest, or goes on with one that is stored.
LEMMA GenerationMoves ==
  ASSUME IInv, NEW r \in Runs, NEW cron \in BOOLEAN, NEW p \in Periods,
         GenerateDigest(r, cron, p) \/ RegenerateDigest(r, p)
  PROVE  Moves
<1>1. TypeOK /\ UNCHANGED <<items, purges, digests, deliveries, chat, excused, faults>>
  BY DEF IInv, GenerateDigest, RegenerateDigest
<1>2. ASSUME NEW c \in BOOLEAN, NEW version \in Nat, Select(r, c, p, version)
      PROVE  Moves
  <2>1. runs' \in [Runs -> RunRecord] /\ \A s \in Runs : RunMoves(s)
    BY <1>1, <1>2, SelectFacts, OthersStay DEF RunMoves
  <2> QED BY <1>1, <2>1, RunsOnly DEF TypeOK
<1>3. ASSUME NEW d \in Found(p, 1), Chosen(r, cron, d, Empty(digests[d].facts))
      PROVE  Moves
  <2>1. d \in Digests /\ digests'[d].state # "absent"
    BY <1>1 DEF Found, OfPeriod, Stored
  <2>2. Empty(digests[d].facts) \in BOOLEAN
    BY DEF Empty
  <2>3. runs' \in [Runs -> RunRecord] /\ RunMoves(r) /\ \A s \in Runs \ {r} : runs'[s] = runs[s]
    BY <1>1, <1>3, <2>1, <2>2, ChosenFacts DEF RunMoves
  <2> QED BY <1>1, <2>3, OthersStay, RunsOnly DEF TypeOK
<1>4. CASE GenerateDigest(r, cron, p)
  BY <1>2, <1>3, <1>4 DEF GenerateDigest
<1>5. CASE RegenerateDigest(r, p)
  BY <1>1, <1>2, <1>5, NextVersion DEF RegenerateDigest
<1> QED BY <1>4, <1>5

LEMMA InsertMoves ==
  ASSUME IInv, NEW r \in Runs, InsertRun(r)
  PROVE  Moves
<1> DEFINE p == runs[r].period
           cron == runs[r].cron
           empty == Payload(runs[r].facts) = {}
           row == [state |-> "stored", period |-> p, version |-> runs[r].version,
                   facts |-> runs[r].facts, reviewed |-> FALSE]
<1>1. TypeOK /\ RowsPlaced /\ runs[r] \in RunRecord /\ runs[r].phase = "insert" /\ p \in Periods
  BY DEF IInv, TypeOK, InsertRun, RunsPlaced, RunPlaced
<1>2. cron \in BOOLEAN /\ empty \in BOOLEAN
  BY <1>1 DEF RunRecord
<1>3. UNCHANGED <<items, purges, deliveries, chat, excused, faults>>
  BY DEF InsertRun
<1>4. ASSUME NEW d \in Digests, digests'[d].state # "absent", Chosen(r, cron, d, empty)
      PROVE  runs' \in [Runs -> RunRecord] /\ \A s \in Runs : RunMoves(s)
  <2> HIDE DEF p, cron, empty, row
  <2>1. runs' \in [Runs -> RunRecord] /\ RunMoves(r) /\ \A s \in Runs \ {r} : runs'[s] = runs[s]
    BY <1>1, <1>2, <1>4, ChosenFacts DEF RunMoves
  <2> QED BY <2>1, OthersStay
<1>5. ASSUME NEW d \in Found(p, runs[r].version), Chosen(r, cron, d, empty), UNCHANGED digests
      PROVE  Moves
  <2>1. d \in Digests /\ digests'[d].state # "absent"
    BY <1>5 DEF Found, OfPeriod, Stored
  <2> QED BY <1>1, <1>3, <1>4, <1>5, <2>1, RunsOnly DEF TypeOK
<1>6. ASSUME Ends(r), UNCHANGED digests
      PROVE  Moves
  <2>1. runs' \in [Runs -> RunRecord] /\ RunMoves(r) /\ \A s \in Runs \ {r} : runs'[s] = runs[s]
    BY <1>1, <1>6, EndsFacts DEF RunMoves
  <2> QED BY <1>1, <1>3, <1>6, <2>1, OthersStay, RunsOnly DEF TypeOK
<1>7. ASSUME NEW d \in Digests, digests[d].state = "absent",
             digests' = [digests EXCEPT ![d] = row], Chosen(r, cron, d, empty)
      PROVE  Moves
  <2>1. row \in DigestRecord /\ row.state = "stored" /\ row.period = p
    BY <1>1 DEF RunRecord, DigestRecord
  <2> HIDE DEF row
  <2>2. digests' \in [Digests -> DigestRecord] /\ \A e \in Digests : DigestMoves(e)
    BY <1>1, <1>3, <1>7, <2>1 DEF TypeOK, DigestMoves
  <2>3. runs' \in [Runs -> RunRecord] /\ \A s \in Runs : RunMoves(s)
    BY <1>1, <1>4, <1>7, <2>1 DEF TypeOK
  <2>4. TypeOK'
    BY <1>1, <1>3, <2>2, <2>3 DEF TypeOK
  <2> QED BY <1>3, <2>2, <2>3, <2>4 DEF Moves, DeliveryMoves
<1> QED BY <1>5, <1>6, <1>7 DEF InsertRun

\* What queueing a digest does, whether the cron or the operator asks for it.
LEMMA QueuedMoves ==
  ASSUME TypeOK, NEW d \in Digests, NEW empty \in BOOLEAN, deliveries' = Queued(d, empty),
         UNCHANGED digests, RowsPlaced
  PROVE  /\ deliveries' \in [Digests -> DeliveryRecord]
         /\ \A e \in Digests : deliveries'[e].owner # None <=> deliveries'[e].state = "leased"
         /\ \A e \in Digests : DeliveryMoves(e)
<1>1. deliveries[d].state = "none" => deliveries[d].owner = None /\ ~deliveries[d].lapsed
  BY DEF TypeOK, RowsPlaced
<1>2. \A e \in Digests : DeliveryMoves(e)
  BY <1>1, QueuedFacts DEF DeliveryMoves
<1>3. \A e \in Digests : deliveries'[e].owner # None <=> deliveries'[e].state = "leased"
  BY <1>1, QueuedFacts, OwnerKept
<1> QED BY <1>2, <1>3, QueuedFacts

LEMMA QueueMoves ==
  ASSUME IInv, NEW r \in Runs, QueueTelegramDelivery(r)
  PROVE  Moves
<1> DEFINE d == runs[r].digest
           row == [IdleRun EXCEPT !.phase = "lease", !.cron = TRUE]
<1>1. /\ TypeOK /\ RowsPlaced /\ runs[r] \in RunRecord /\ d \in Digests
      /\ UNCHANGED <<items, purges, digests, chat, excused, faults>>
  BY DEF IInv, TypeOK, RunsPlaced, RunPlaced, QueueTelegramDelivery
<1>2. runs[r].empty \in BOOLEAN /\ deliveries' = Queued(d, runs[r].empty)
  BY <1>1 DEF RunRecord, QueueTelegramDelivery
<1>3. runs' \in [Runs -> RunRecord] /\ RunMoves(r) /\ \A s \in Runs \ {r} : runs'[s] = runs[s]
  <2>1. CASE Ends(r)
    BY <1>1, <2>1, EndsFacts DEF RunMoves
  <2>2. CASE runs' = [runs EXCEPT ![r] = row]
    <3>1. row \in RunRecord /\ row.phase = "lease" /\ row.batch = {} /\ row.digest = None
      BY IdleFields DEF IdleRun, RunRecord
    <3> HIDE DEF row
    <3> QED BY <1>1, <2>2, <3>1, RunWrites DEF RunMoves
  <2> QED BY <2>1, <2>2 DEF QueueTelegramDelivery
<1> HIDE DEF d
<1> QED BY <1>1, <1>2, <1>3, QueuedMoves, OthersStay, DeliveriesOnly DEF TypeOK

LEMMA DeliverReviewedMoves ==
  ASSUME IInv, NEW d \in Digests, DeliverReviewed(d)
  PROVE  Moves
<1>1. TypeOK /\ RowsPlaced /\ UNCHANGED <<items, purges, digests, runs, chat, excused, faults>>
  BY DEF IInv, DeliverReviewed
<1>2. deliveries' = Queued(d, Empty(digests[d].facts)) /\ Empty(digests[d].facts) \in BOOLEAN
  BY DEF DeliverReviewed, Empty
<1>3. \A r \in Runs : RunMoves(r)
  BY <1>1 DEF RunMoves, SameRun
<1> QED BY <1>1, <1>2, <1>3, QueuedMoves, DeliveriesOnly DEF TypeOK

LEMMA TextMoves ==
  ASSUME IInv, NEW r \in Runs, NEW d \in Digests, DeliveryText(r, d)
  PROVE  Moves
<1> DEFINE facts == digests[d].facts
           rest == runs[r].batch \ {d}
           shown == Shown(facts)
           ai == Unchanged(facts)
           skip == InHand("skip", rest, d)
           send == Message(rest, d, ai, shown)
<1>1. /\ TypeOK /\ runs[r].batch \in SUBSET Digests /\ d \in runs[r].batch
      /\ UNCHANGED <<items, purges, digests, deliveries, chat, excused, faults>>
  BY DEF IInv, TypeOK, RunRecord, DeliveryText
<1>2. rest \in SUBSET Digests
  BY <1>1
<1>3. skip \in RunRecord /\ skip.phase = "skip" /\ skip.batch = rest /\ skip.digest = d
  BY <1>2, InHandFacts DEF InHandPhases
<1>4. send \in RunRecord /\ send.phase = "send" /\ send.batch = rest /\ send.digest = d
  <2>1. shown \in SUBSET Items /\ ai \in BOOLEAN
    BY DEF Shown, Payload, Unchanged
  <2> HIDE DEF shown, ai, rest
  <2> QED BY <1>2, <2>1, MessageFacts
<1>5. \/ Continues(r, rest)
      \/ runs' = [runs EXCEPT ![r] = skip]
      \/ runs' = [runs EXCEPT ![r] = send]
  BY DEF DeliveryText
<1>6. runs' \in [Runs -> RunRecord] /\ RunMoves(r) /\ \A s \in Runs \ {r} : runs'[s] = runs[s]
  <2>1. CASE Continues(r, rest)
    BY <1>1, <1>2, <2>1, ContinuesFacts DEF RunMoves
  <2>2. CASE runs' = [runs EXCEPT ![r] = skip]
    <3> HIDE DEF skip
    <3> QED BY <1>1, <1>3, <2>2, RunWrites DEF RunMoves
  <2>3. CASE runs' = [runs EXCEPT ![r] = send]
    <3> HIDE DEF send
    <3> QED BY <1>1, <1>4, <2>3, RunWrites DEF RunMoves
  <2> QED BY <1>5, <2>1, <2>2, <2>3
<1> QED BY <1>1, <1>6, OthersStay, RunsOnly DEF TypeOK

LEMMA DeathMoves ==
  ASSUME IInv, NEW r \in Runs, RunDies(r) \/ RunThrows(r)
  PROVE  Moves
<1>1. TypeOK /\ UNCHANGED <<items, purges, digests, deliveries, chat, excused>>
  BY DEF IInv, RunDies, RunThrows
<1>2. faults' \in 0 .. MaxFaults
  BY <1>1, DigestAssumption DEF TypeOK, RunDies, RunThrows
<1>3. CASE RunDies(r)
  <2>1. runs' \in [Runs -> RunRecord] /\ RunMoves(r) /\ \A s \in Runs \ {r} : runs'[s] = runs[s]
    BY <1>1, <1>3, EndsFacts DEF RunDies, RunMoves
  <2> QED BY <1>1, <1>2, <2>1, OthersStay, RunsOnly DEF TypeOK
<1>4. CASE RunThrows(r)
  <2> DEFINE phase == IF runs[r].phase = "sent" THEN "unknown" ELSE "retry"
             row == [runs[r] EXCEPT !.phase = phase]
  <2>1. runs' = [runs EXCEPT ![r] = row] /\ runs[r].phase \in {"skip", "sent"}
    BY <1>4 DEF RunThrows, Goes
  <2>2. /\ row \in RunRecord /\ row.phase = phase
        /\ row.digest = runs[r].digest /\ row.batch = runs[r].batch
    BY <1>1, <2>1 DEF TypeOK, RunRecord
  <2> HIDE DEF row
  <2>3. runs' \in [Runs -> RunRecord] /\ RunMoves(r) /\ \A s \in Runs \ {r} : runs'[s] = runs[s]
    BY <1>1, <2>1, <2>2, RunWrites DEF RunMoves
  <2> QED BY <1>1, <1>2, <2>3, OthersStay, RunsOnly DEF TypeOK
<1> QED BY <1>3, <1>4

\* A live delivery takes a state that is true of the chat.
LEMMA SettledMoves ==
  ASSUME TypeOK, RowsPlaced, Truths, NEW d \in Digests, Live(d),
         NEW state \in {"pending", "sent", "failed", "unknown", "skipped"},
         digests[d].period \notin excused =>
           /\ state \in {"pending", "failed", "skipped"} => chat[d] = 0
           /\ state = "sent" => chat[d] > 0,
         UNCHANGED <<digests, chat, excused>>, deliveries' = Settled(d, state)
  PROVE  /\ deliveries' \in [Digests -> DeliveryRecord]
         /\ \A e \in Digests : deliveries'[e].owner # None <=> deliveries'[e].state = "leased"
         /\ \A e \in Digests : DeliveryMoves(e)
<1>1. /\ deliveries' \in [Digests -> DeliveryRecord]
      /\ deliveries'[d].state = state /\ deliveries'[d].owner = None /\ ~deliveries'[d].lapsed
      /\ \A e \in Digests \ {d} : deliveries'[e] = deliveries[e]
  BY SettledFacts
<1>2. \A e \in Digests : deliveries'[e].owner # None <=> deliveries'[e].state = "leased"
  BY <1>1, OwnerKept
<1>3. Truth(d)'
  BY <1>1 DEF Truths, Truth
<1>4. DeliveryMoves(d)
  BY <1>1, <1>3 DEF DeliveryMoves
<1> QED BY <1>1, <1>2, <1>4 DEF DeliveryMoves

\* The writes of the operator.
LEMMA OperatorMoves ==
  ASSUME IInv, NEW d \in Digests,
         RetryFailedDelivery(d) \/ ReconcileUnknownDelivery(d) \/ CancelDelivery(d)
  PROVE  Moves
<1>1. /\ TypeOK /\ RowsPlaced /\ Truths
      /\ UNCHANGED <<items, purges, digests, runs, chat, excused, faults>>
  BY DEF IInv, RetryFailedDelivery, ReconcileUnknownDelivery, CancelDelivery
<1>2. \A r \in Runs : RunMoves(r)
  BY <1>1 DEF RunMoves, SameRun
<1>3. chat[d] \in 0 .. 2 /\ Truth(d)
  BY <1>1 DEF TypeOK, Truths
<1>4. CASE RetryFailedDelivery(d)
  <2> DEFINE row == [deliveries[d] EXCEPT !.state = "pending"]
  <2>1. deliveries[d] \in DeliveryRecord /\ deliveries[d].state = "failed"
    BY <1>1, <1>4 DEF TypeOK, RetryFailedDelivery
  <2>2. deliveries[d].owner = None /\ ~deliveries[d].lapsed
    BY <1>1, <2>1 DEF TypeOK, RowsPlaced
  <2>3. row \in DeliveryRecord /\ row.state = "pending" /\ row.owner = None /\ ~row.lapsed
    BY <2>1, <2>2 DEF DeliveryRecord
  <2>4. deliveries' = [deliveries EXCEPT ![d] = row]
    BY <1>4 DEF RetryFailedDelivery
  <2> HIDE DEF row
  <2>5. /\ deliveries' \in [Digests -> DeliveryRecord] /\ deliveries'[d] = row
        /\ \A e \in Digests \ {d} : deliveries'[e] = deliveries[e]
    BY <1>1, <2>3, <2>4 DEF TypeOK
  <2>6. Truth(d)' /\ Live(d)
    BY <1>1, <1>3, <2>1, <2>3, <2>5 DEF Truth, Live
  <2>7. \A e \in Digests : DeliveryMoves(e)
    BY <1>1, <2>3, <2>5, <2>6 DEF DeliveryMoves
  <2>8. \A e \in Digests : deliveries'[e].owner # None <=> deliveries'[e].state = "leased"
    BY <1>1, <2>3, <2>5, OwnerKept
  <2> QED BY <1>1, <1>2, <2>5, <2>7, <2>8, DeliveriesOnly DEF TypeOK
<1>5. CASE ReconcileUnknownDelivery(d)
  <2> DEFINE state == IF chat[d] > 0 THEN "sent" ELSE "failed"
  <2>1. deliveries' = Settled(d, state) /\ Live(d)
    BY <1>5 DEF ReconcileUnknownDelivery, Live
  <2>2. /\ deliveries' \in [Digests -> DeliveryRecord]
        /\ \A e \in Digests : deliveries'[e].owner # None <=> deliveries'[e].state = "leased"
        /\ \A e \in Digests : DeliveryMoves(e)
    BY <1>1, <1>3, <2>1, SettledMoves
  <2> QED BY <1>1, <1>2, <2>2, DeliveriesOnly DEF TypeOK
<1>6. CASE CancelDelivery(d)
  <2>1. /\ deliveries' = Settled(d, "skipped") /\ Live(d)
        /\ deliveries[d].state \in {"pending", "failed"}
    BY <1>6 DEF CancelDelivery, Live
  <2>2. /\ deliveries' \in [Digests -> DeliveryRecord]
        /\ \A e \in Digests : deliveries'[e].owner # None <=> deliveries'[e].state = "leased"
        /\ \A e \in Digests : DeliveryMoves(e)
    BY <1>1, <1>3, <2>1, SettledMoves DEF Truth
  <2> QED BY <1>1, <1>2, <2>2, DeliveriesOnly DEF TypeOK
<1> QED BY <1>4, <1>5, <1>6

LEMMA LapseMoves ==
  ASSUME IInv, NEW d \in Digests, AbandonedLeaseLapses(d) \/ LeaseLapses(d)
  PROVE  Moves
<1> DEFINE row == [deliveries[d] EXCEPT !.lapsed = TRUE]
<1>1. /\ TypeOK /\ Truth(d) /\ UNCHANGED <<items, purges, digests, runs, chat, excused>>
      /\ deliveries[d].state = "leased" /\ deliveries' = [deliveries EXCEPT ![d] = row]
  BY DEF IInv, Truths, AbandonedLeaseLapses, LeaseLapses, Lapse
<1>2. faults' \in 0 .. MaxFaults
  BY <1>1, DigestAssumption DEF TypeOK, AbandonedLeaseLapses, LeaseLapses
<1>3. row \in DeliveryRecord /\ row.state = "leased" /\ row.owner = deliveries[d].owner
  BY <1>1 DEF TypeOK, DeliveryRecord
<1> HIDE DEF row
<1>4. /\ deliveries' \in [Digests -> DeliveryRecord] /\ deliveries'[d] = row
      /\ \A e \in Digests \ {d} : deliveries'[e] = deliveries[e]
  BY <1>1, <1>3 DEF TypeOK
<1>5. \A e \in Digests : deliveries'[e].owner # None <=> deliveries'[e].state = "leased"
  BY <1>1, <1>3, <1>4 DEF TypeOK
<1>6. Truth(d)' /\ Live(d)
  BY <1>1, <1>3, <1>4 DEF Truth, Live
<1>7. \A e \in Digests : DeliveryMoves(e)
  BY <1>1, <1>3, <1>4, <1>6 DEF DeliveryMoves
<1>8. \A r \in Runs : RunMoves(r)
  BY <1>1 DEF RunMoves, SameRun
<1> QED BY <1>1, <1>2, <1>4, <1>5, <1>7, <1>8, DeliveriesOnly DEF TypeOK

\* The outcome of a message is written by the run that had it in hand.
LEMMA OutcomeMoves ==
  ASSUME IInv, NEW r \in Runs, MarkDeliverySent(r) \/ MarkDeliverySkipped(r) \/ MarkDeliveryFailure(r)
  PROVE  Moves
<1> DEFINE d == runs[r].digest
<1>1. /\ TypeOK /\ RowsPlaced /\ Truths /\ runs[r].batch \in SUBSET Digests /\ d \in Digests
      /\ UNCHANGED <<items, purges, digests, chat, excused, faults>>
  BY DEF IInv, TypeOK, RunRecord, RunsPlaced, RunPlaced, InHandPhases,
         MarkDeliverySent, MarkDeliverySkipped, MarkDeliveryFailure
<1>2. runs' \in [Runs -> RunRecord] /\ \A s \in Runs : RunMoves(s)
  <2>1. PICK batch \in SUBSET runs[r].batch : Continues(r, batch)
    BY DEF Audited, MarkDeliverySent, MarkDeliverySkipped, MarkDeliveryFailure
  <2>2. runs' \in [Runs -> RunRecord] /\ RunMoves(r) /\ \A s \in Runs \ {r} : runs'[s] = runs[s]
    BY <1>1, <2>1, ContinuesFacts DEF RunMoves
  <2> QED BY <2>2, OthersStay
<1>3. ASSUME deliveries' = deliveries
      PROVE  Moves
  BY <1>1, <1>2, <1>3, DeliveriesOnly DEF TypeOK, DeliveryMoves
<1>4. ASSUME NEW state \in {"pending", "sent", "failed", "unknown", "skipped"}, Holds(r, d),
             digests[d].period \notin excused =>
               /\ state \in {"pending", "failed", "skipped"} => chat[d] = 0
               /\ state = "sent" => chat[d] > 0,
             deliveries' = Settled(d, state)
      PROVE  Moves
  <2>1. Live(d)
    BY <1>1, <1>4, DigestAssumption DEF Holds, Live, TypeOK
  <2> HIDE DEF d
  <2>2. /\ deliveries' \in [Digests -> DeliveryRecord]
        /\ \A e \in Digests : deliveries'[e].owner # None <=> deliveries'[e].state = "leased"
        /\ \A e \in Digests : DeliveryMoves(e)
    BY <1>1, <1>4, <2>1, SettledMoves
  <2> QED BY <1>1, <1>2, <2>2, DeliveriesOnly DEF TypeOK
<1>5. Holds(r, d) /\ digests[d].period \notin excused =>
        /\ runs[r].phase \in {"skip", "retry", "failed"} => chat[d] = 0
        /\ runs[r].phase = "sent" => chat[d] > 0
  BY <1>1 DEF IInv, Knowledge, Knows, Holds
<1>6. CASE MarkDeliverySent(r)
  <2>1. runs[r].phase = "sent" /\ \/ deliveries' = deliveries
                                  \/ Holds(r, d) /\ deliveries' = Settled(d, "sent")
                                  \/ Holds(r, d) /\ deliveries' = Settled(d, "unknown")
    BY <1>6 DEF MarkDeliverySent
  <2> HIDE DEF d
  <2> QED BY <1>3, <1>4, <1>5, <2>1
<1>7. CASE MarkDeliverySkipped(r)
  <2>1. runs[r].phase = "skip" /\ \/ deliveries' = deliveries
                                  \/ Holds(r, d) /\ deliveries' = Settled(d, "skipped")
    BY <1>7 DEF MarkDeliverySkipped
  <2> HIDE DEF d
  <2> QED BY <1>3, <1>4, <1>5, <2>1
<1>8. CASE MarkDeliveryFailure(r)
  <2>1. \/ deliveries' = deliveries
        \/ \E state \in {"pending", "failed", "unknown"} :
             /\ Holds(r, d) /\ deliveries' = Settled(d, state)
             /\ state # "unknown" => runs[r].phase \in {"retry", "failed"}
    BY <1>8 DEF MarkDeliveryFailure
  <2> HIDE DEF d
  <2> QED BY <1>3, <1>4, <1>5, <2>1
<1> QED BY <1>6, <1>7, <1>8

-----------------------------------------------------------------------------
(* The lease and the message.                                              *)

LEMMA LeaseIsSafe ==
  ASSUME IInv, NEW r \in Runs, LeaseTelegramDeliveries(r)
  PROVE  IInv'
<1> DEFINE leased(d) == [state |-> "leased", owner |-> r, lapsed |-> FALSE,
                         attempts |-> Min({deliveries[d].attempts + 1, MaxAttempts})]
           swept(d) == [deliveries[d] EXCEPT !.state = "unknown", !.owner = None, !.lapsed = FALSE]
<1>1. /\ TypeOK /\ RowsPlaced /\ RunsPlaced /\ OneLive /\ Truths /\ Knowledge
      /\ UNCHANGED <<items, purges, digests, chat, excused, faults>> /\ r # None
  BY DigestAssumption DEF IInv, LeaseTelegramDeliveries
<1>2. PICK due \in SUBSET {d \in Digests : deliveries[d].state = "pending"} :
        /\ deliveries' = [d \in Digests |->
             IF deliveries[d].lapsed THEN swept(d)
             ELSE IF d \in due THEN leased(d) ELSE deliveries[d]]
        /\ Continues(r, due)
  BY DEF LeaseTelegramDeliveries
<1>3. due \in SUBSET Digests
  BY <1>2
<1>4. /\ runs' \in [Runs -> RunRecord]
      /\ runs'[r].phase \in {"idle", "next"} /\ runs'[r].batch = due /\ runs'[r].digest = None
      /\ \A s \in Runs \ {r} : runs'[s] = runs[s]
  BY <1>1, <1>2, <1>3, ContinuesFacts
<1>5. ASSUME NEW d \in Digests
      PROVE  /\ leased(d) \in DeliveryRecord /\ leased(d).state = "leased"
             /\ leased(d).owner = r /\ ~leased(d).lapsed
             /\ swept(d) \in DeliveryRecord /\ swept(d).state = "unknown"
             /\ swept(d).owner = None /\ ~swept(d).lapsed
  <2>1. deliveries[d] \in DeliveryRecord /\ deliveries[d].attempts \in 0 .. MaxAttempts
    BY <1>1 DEF TypeOK, DeliveryRecord
  <2>2. Min({deliveries[d].attempts + 1, MaxAttempts}) \in 0 .. MaxAttempts
    <3>1. deliveries[d].attempts + 1 \in Nat /\ MaxAttempts \in Nat
      BY <2>1, DigestAssumption
    <3> QED BY <3>1, MinOfTwo
  <2>3. leased(d) \in DeliveryRecord /\ leased(d).state = "leased"
        /\ leased(d).owner = r /\ ~leased(d).lapsed
    BY <2>2 DEF DeliveryRecord
  <2>4. swept(d) \in DeliveryRecord /\ swept(d).state = "unknown"
        /\ swept(d).owner = None /\ ~swept(d).lapsed
    BY <2>1 DEF DeliveryRecord
  <2> QED BY <2>3, <2>4
<1> HIDE DEF leased, swept
<1>6. ASSUME NEW d \in Digests
      PROVE  \/ deliveries'[d] = deliveries[d]
             \/ /\ deliveries[d].state = "leased" /\ deliveries'[d].state = "unknown"
                /\ deliveries'[d].owner = None /\ ~deliveries'[d].lapsed
             \/ /\ deliveries[d].state = "pending" /\ deliveries'[d].state = "leased"
                /\ deliveries'[d].owner = r /\ ~deliveries'[d].lapsed
  BY <1>1, <1>2, <1>5 DEF RowsPlaced
<1>7. deliveries' \in [Digests -> DeliveryRecord]
  BY <1>1, <1>2, <1>5 DEF TypeOK
<1>8. \A d \in Digests : deliveries'[d].owner # None <=> deliveries'[d].state = "leased"
  BY <1>1, <1>6, OwnerKept
<1>9. TypeOK'
  BY <1>1, <1>4, <1>7, <1>8 DEF TypeOK
<1>10. RowsPlaced'
  BY <1>1, <1>6 DEF RowsPlaced, Stored
<1>11. RunsPlaced'
  <2>1. \A d \in due : digests'[d].state # "absent"
    BY <1>1, <1>2 DEF RowsPlaced, Stored
  <2>2. RunPlaced(r)'
    BY <1>1, <1>4, <2>1 DEF RunPlaced, InHandPhases
  <2>3. \A s \in Runs \ {r} : RunPlaced(s)'
    BY <1>1, <1>4 DEF RunsPlaced, RunPlaced
  <2> QED BY <2>2, <2>3 DEF RunsPlaced
<1>12. OneLive'
  <2>1. \A d \in Digests : Live(d)' => Live(d)
    BY <1>6 DEF Live
  <2> QED BY <1>1, <2>1 DEF OneLive
<1>13. Truths'
  BY <1>1, <1>6 DEF Truths, Truth
<1>14. Knowledge'
  <2> SUFFICES ASSUME NEW s \in Runs, NEW d \in Digests PROVE Knows(s, d)'
    BY DEF Knowledge
  <2>1. Knows(s, d) /\ Truth(d) /\ s # None /\ d # None
    BY <1>1, DigestAssumption DEF Knowledge, Truths
  <2>2. CASE deliveries'[d].owner = s /\ s # r
    <3>1. deliveries[d].owner = s /\ runs'[s] = runs[s]
      BY <1>4, <1>6, <2>1, <2>2
    <3> QED BY <1>1, <2>1, <3>1 DEF Knows
  <2>3. CASE deliveries'[d].owner = s /\ s = r
    <3>1. d \in due => deliveries[d].state = "pending"
      BY <1>2
    <3> QED BY <1>1, <1>4, <2>1, <2>3, <3>1 DEF Knows, Truth
  <2>4. CASE deliveries'[d].owner # s
    BY <2>4 DEF Knows
  <2> QED BY <2>2, <2>3, <2>4
<1> QED BY <1>9, <1>10, <1>11, <1>12, <1>13, <1>14 DEF IInv

LEMMA MessageIsSafe ==
  ASSUME IInv, NEW r \in Runs, SendMessage(r)
  PROVE  IInv'
<1> DEFINE d == runs[r].digest
<1>1. /\ TypeOK /\ RowsPlaced /\ RunsPlaced /\ OneLive /\ Truths /\ Knowledge
      /\ UNCHANGED <<items, purges, digests, deliveries, faults>> /\ runs[r].phase = "send"
  BY DEF IInv, SendMessage
<1>2. /\ d \in Digests \ runs[r].batch /\ digests[d].state # "absent"
      /\ digests[d].period \in Periods /\ runs[r].batch \in SUBSET Digests
      /\ chat[d] \in 0 .. 2
  BY <1>1 DEF RunsPlaced, RunPlaced, RowsPlaced, InHandPhases, TypeOK, RunRecord
<1>3. PICK accepted \in BOOLEAN, outcome \in InHandPhases :
        /\ outcome \in Outcomes(accepted)
        /\ runs' = [runs EXCEPT ![r] = InHand(outcome, runs[r].batch, d)]
        /\ chat' = IF accepted THEN [chat EXCEPT ![d] = Min({chat[d] + 1, 2})] ELSE chat
        /\ excused' = IF accepted /\ (outcome = "retry" \/ ~Holds(r, d))
                      THEN excused \cup {digests[d].period} ELSE excused
  BY DEF SendMessage, Outcomes, InHandPhases
<1> HIDE DEF d
<1>4. /\ outcome \in InHandPhases
      /\ accepted => outcome \in {"unknown", "retry", "sent"}
      /\ ~accepted => outcome \in {"unknown", "retry", "failed"}
  BY <1>3 DEF Outcomes, InHandPhases
<1>5. /\ runs' \in [Runs -> RunRecord]
      /\ runs'[r].phase = outcome /\ runs'[r].batch = runs[r].batch /\ runs'[r].digest = d
      /\ \A s \in Runs \ {r} : runs'[s] = runs[s]
  <2> DEFINE row == InHand(outcome, runs[r].batch, d)
  <2>1. row \in RunRecord /\ row.phase = outcome /\ row.batch = runs[r].batch /\ row.digest = d
    BY <1>2, <1>4, InHandFacts
  <2>2. runs' = [runs EXCEPT ![r] = row]
    BY <1>3
  <2> HIDE DEF row
  <2> QED BY <1>1, <2>1, <2>2, RunWrites
<1>6. /\ chat' \in [Digests -> 0 .. 2]
      /\ \A e \in Digests \ {d} : chat'[e] = chat[e]
      /\ chat'[d] # chat[d] => accepted
      /\ accepted => chat'[d] > 0 /\ (chat[d] = 0 => chat'[d] = 1)
  <2>1. Min({chat[d] + 1, 2}) \in 0 .. 2 /\ Min({chat[d] + 1, 2}) > 0
        /\ (chat[d] = 0 => Min({chat[d] + 1, 2}) = 1)
    <3>1. chat[d] + 1 \in Nat /\ 2 \in Nat
      BY <1>2
    <3>2. CASE chat[d] + 1 <= 2
      BY <1>2, <3>1, <3>2, MinOfTwo
    <3>3. CASE 2 <= chat[d] + 1
      BY <1>2, <3>1, <3>3, MinOfTwo
    <3> QED BY <1>2, <3>2, <3>3
  <2> QED BY <1>1, <1>2, <1>3, <2>1 DEF TypeOK
<1>7. excused \subseteq excused' /\ excused' \in SUBSET Periods
  BY <1>1, <1>2, <1>3 DEF TypeOK
<1>8. TypeOK'
  BY <1>1, <1>5, <1>6, <1>7 DEF TypeOK
<1>9. RowsPlaced'
  BY <1>1, <1>2, <1>6 DEF RowsPlaced, Stored
<1>10. RunsPlaced'
  <2>1. RunPlaced(r)'
    BY <1>1, <1>2, <1>4, <1>5 DEF RunsPlaced, RunPlaced, InHandPhases
  <2>2. \A s \in Runs \ {r} : RunPlaced(s)'
    BY <1>1, <1>5 DEF RunsPlaced, RunPlaced
  <2> QED BY <2>1, <2>2 DEF RunsPlaced
<1>11. OneLive'
  BY <1>1 DEF OneLive, Live
\* A message that is not excused is the first one, and sent by the holder of the lease.
<1>12. accepted /\ digests[d].period \notin excused' =>
         outcome # "retry" /\ Holds(r, d) /\ chat[d] = 0
  <2>1. ASSUME accepted, digests[d].period \notin excused'
        PROVE  outcome # "retry" /\ Holds(r, d)
    BY <1>3, <2>1
  <2>2. Knows(r, d)
    BY <1>1, <1>2 DEF Knowledge
  <2> QED BY <1>1, <1>7, <2>1, <2>2 DEF Knows, Holds, d
<1>13. Truths'
  <2> SUFFICES ASSUME NEW e \in Digests PROVE Truth(e)'
    BY DEF Truths
  <2>1. Truth(e)
    BY <1>1 DEF Truths
  <2>2. CASE chat'[e] = chat[e]
    BY <1>1, <1>7, <2>1, <2>2 DEF Truth
  <2>3. CASE chat'[e] # chat[e]
    <3>1. e = d /\ accepted
      BY <1>6, <2>3
    <3>2. CASE digests[d].period \in excused'
      BY <1>1, <3>1, <3>2 DEF Truth
    <3>3. CASE digests[d].period \notin excused'
      <4>1. chat'[d] = 1 /\ deliveries[d].state = "leased"
        BY <1>1, <1>2, <1>6, <1>12, <3>1, <3>3, DigestAssumption DEF Holds, TypeOK
      <4> QED BY <1>1, <3>1, <4>1 DEF Truth
    <3> QED BY <3>2, <3>3
  <2> QED BY <2>2, <2>3
<1>14. Knowledge'
  <2> SUFFICES ASSUME NEW s \in Runs, NEW e \in Digests PROVE Knows(s, e)'
    BY DEF Knowledge
  <2>1. Knows(s, e)
    BY <1>1 DEF Knowledge
  <2>2. CASE s # r
    <3>1. runs'[s] = runs[s]
      BY <1>5, <2>2
    <3>2. CASE chat'[e] = chat[e]
      BY <1>1, <1>7, <2>1, <3>1, <3>2 DEF Knows
    <3>3. CASE chat'[e] # chat[e]
      <4>1. e = d /\ accepted
        BY <1>6, <3>3
      <4> QED BY <1>1, <1>12, <2>2, <4>1 DEF Knows, Holds
    <3> QED BY <3>2, <3>3
  <2>3. CASE s = r /\ e # d
    BY <1>1, <1>5, <1>6, <1>7, <2>1, <2>3 DEF Knows
  <2>4. CASE s = r /\ e = d
    <3>1. CASE accepted
      BY <1>1, <1>2, <1>4, <1>5, <1>6, <1>12, <2>4, <3>1 DEF Knows
    <3>2. CASE ~accepted
      <4>1. chat' = chat /\ runs[r].digest = d
        BY <1>3, <3>2 DEF d
      <4> QED BY <1>1, <1>2, <1>4, <1>5, <1>7, <2>1, <2>4, <3>2, <4>1 DEF Knows
    <3> QED BY <3>1, <3>2
  <2> QED BY <2>2, <2>3, <2>4
<1> QED BY <1>8, <1>9, <1>10, <1>11, <1>13, <1>14 DEF IInv

-----------------------------------------------------------------------------
(* The invariant.                                                          *)

LEMMA InitSafe ==
  ASSUME Init
  PROVE  IInv
<1>1. AbsentDigest \in DigestRecord /\ AbsentDigest.state = "absent"
  BY DEF AbsentDigest, DigestRecord, NoSnapshot, Snapshots
<1>2. TypeOK
  BY <1>1, NoDeliveryRow, IdleFields, DigestAssumption DEF Init, TypeOK, ItemStates
<1>3. RowsPlaced
  BY <1>1 DEF Init, RowsPlaced, NoDelivery
<1>4. RunsPlaced
  BY IdleFields DEF Init, RunsPlaced, RunPlaced, InHandPhases
<1>5. OneLive /\ Truths
  BY DEF Init, OneLive, Live, Truths, Truth, NoDelivery
<1>6. Knowledge
  BY DigestAssumption DEF Init, Knowledge, Knows, NoDelivery
<1> QED BY <1>2, <1>3, <1>4, <1>5, <1>6 DEF IInv

LEMMA StepSafe ==
  ASSUME IInv, [Next]_vars
  PROVE  IInv'
<1>1. CASE UNCHANGED vars
  BY <1>1 DEF IInv, vars, TypeOK, RowsPlaced, Stored, RunsPlaced, RunPlaced, OneLive, Live,
              Truths, Truth, Knowledge, Knows
<1>2. ASSUME NEW i \in Items, ChangeItem(i) \/ PurgeDigestReferences(i) \/ PurgeItem(i)
      PROVE  IInv'
  BY <1>2, ItemMoves, PurgeMoves, MovesAreSafe
<1>3. ASSUME NEW r \in Runs, Cron(r) \/ RunDies(r) \/ RunThrows(r)
      PROVE  IInv'
  BY <1>3, GenerationMoves, DeathMoves, MovesAreSafe DEF Cron
<1>4. ASSUME NEW r \in Runs, Advance(r)
      PROVE  IInv'
  BY <1>4, InsertMoves, QueueMoves, TextMoves, OutcomeMoves, MovesAreSafe, LeaseIsSafe,
     MessageIsSafe DEF Advance
<1>5. CASE Operator
  BY <1>5, GenerationMoves, ReviewMoves, DeliverReviewedMoves, OperatorMoves, MovesAreSafe
  DEF Operator, Generates, Reviews, Resolves
<1>6. ASSUME NEW d \in Digests, AbandonedLeaseLapses(d) \/ LeaseLapses(d)
      PROVE  IInv'
  BY <1>6, LapseMoves, MovesAreSafe
<1> QED BY <1>1, <1>2, <1>3, <1>4, <1>5, <1>6 DEF Next

-----------------------------------------------------------------------------
(* What is about to be sent.                                               *)

\* Items and digests stay, and a run that is about to send has been before.
LEMMA SameMessages ==
  ASSUME IInv, CurrentAtSend, items' = items,
         \A d \in Digests : digests[d].state # "absent" => digests'[d].facts = digests[d].facts,
         \A r \in Runs : runs'[r].phase = "send" => runs'[r] = runs[r]
  PROVE  CurrentAtSend'
<1> SUFFICES ASSUME NEW r \in Runs, runs'[r].phase = "send"
             PROVE  LET facts == digests'[runs'[r].digest].facts
                        same == Items \ runs'[r].changed
                    IN /\ \A i \in runs'[r].shown \cap same : items'[i] = "public"
                       /\ runs'[r].ai => \A i \in Payload(facts) \cap same : items'[i] = facts[i]
  BY DEF CurrentAtSend, Payload
<1>1. runs'[r] = runs[r] /\ runs[r].phase = "send"
  OBVIOUS
<1>2. runs[r].digest \in Digests /\ digests[runs[r].digest].state # "absent"
  BY <1>1 DEF IInv, RunsPlaced, RunPlaced, InHandPhases
<1>3. digests'[runs'[r].digest].facts = digests[runs[r].digest].facts
  BY <1>1, <1>2
<1> QED BY <1>1, <1>3 DEF CurrentAtSend

\* One run moves, and not to the phase before a message.
LEMMA OtherMessages ==
  ASSUME IInv, CurrentAtSend, NEW r \in Runs, UNCHANGED <<items, digests>>,
         runs'[r].phase # "send", \A s \in Runs \ {r} : runs'[s] = runs[s]
  PROVE  CurrentAtSend'
BY SameMessages

\* An item that changes under a message is noted with the run.
LEMMA OvertakenMessages ==
  ASSUME IInv, CurrentAtSend, NEW i \in Items, Overtakes(i), UNCHANGED digests,
         \A j \in Items \ {i} : items'[j] = items[j]
  PROVE  CurrentAtSend'
<1> SUFFICES ASSUME NEW r \in Runs, runs'[r].phase = "send"
             PROVE  LET facts == digests'[runs'[r].digest].facts
                        same == Items \ runs'[r].changed
                    IN /\ \A j \in runs'[r].shown \cap same : items'[j] = "public"
                       /\ runs'[r].ai => \A j \in Payload(facts) \cap same : items'[j] = facts[j]
  BY DEF CurrentAtSend, Payload
<1>1. runs[r] \in RunRecord /\ runs[r].changed \in SUBSET Items /\ runs[r].shown \in SUBSET Items
  BY DEF IInv, TypeOK, RunRecord
<1>2. runs'[r] = IF runs[r].phase = "send"
                 THEN [runs[r] EXCEPT !.changed = runs[r].changed \cup {i}] ELSE runs[r]
  BY DEF Overtakes
<1>3. /\ runs[r].phase = "send" /\ runs'[r].digest = runs[r].digest /\ runs'[r].ai = runs[r].ai
      /\ runs'[r].shown = runs[r].shown /\ runs'[r].changed = runs[r].changed \cup {i}
  BY <1>1, <1>2 DEF RunRecord
<1>4. Items \ runs'[r].changed = (Items \ runs[r].changed) \ {i}
  BY <1>3
<1> QED BY <1>3, <1>4 DEF CurrentAtSend, Payload

\* The text is rendered from the items as they are.
LEMMA RenderedMessages ==
  ASSUME IInv, CurrentAtSend, NEW r \in Runs, NEW d \in Digests, DeliveryText(r, d)
  PROVE  CurrentAtSend'
<1> DEFINE facts == digests[d].facts
           rest == runs[r].batch \ {d}
           text == Message(rest, d, Unchanged(facts), Shown(facts))
<1>1. /\ TypeOK /\ rest \in SUBSET Digests
      /\ UNCHANGED <<items, digests>>
  BY DEF IInv, TypeOK, RunRecord, DeliveryText
<1>2. CASE Continues(r, rest)
  <2>1. runs'[r].phase # "send" /\ \A s \in Runs \ {r} : runs'[s] = runs[s]
    BY <1>1, <1>2, ContinuesFacts
  <2> QED BY <1>1, <2>1, OtherMessages
<1>3. CASE runs' = [runs EXCEPT ![r] = InHand("skip", rest, d)]
  <2>1. InHand("skip", rest, d) \in RunRecord /\ InHand("skip", rest, d).phase = "skip"
    BY <1>1, InHandFacts DEF InHandPhases
  <2>2. runs'[r].phase # "send" /\ \A s \in Runs \ {r} : runs'[s] = runs[s]
    BY <1>1, <1>3, <2>1, RunWrites
  <2> QED BY <1>1, <2>2, OtherMessages
<1>4. CASE runs' = [runs EXCEPT ![r] = text]
  <2>1. Unchanged(facts) \in BOOLEAN /\ Shown(facts) \in SUBSET Items
    BY DEF Unchanged, Shown, Payload
  <2>2. text \in RunRecord /\ text.phase = "send" /\ text.digest = d
    BY <1>1, <2>1, MessageFacts
  <2>3. text.ai = Unchanged(facts) /\ text.shown = Shown(facts)
    BY DEF Message, InHand, IdleRun
  <2> HIDE DEF text
  <2>4. runs'[r] = text /\ \A s \in Runs \ {r} : runs'[s] = runs[s]
    BY <1>1, <1>4, <2>2, RunWrites
  <2> SUFFICES ASSUME NEW s \in Runs, runs'[s].phase = "send"
               PROVE  LET told == digests'[runs'[s].digest].facts
                          same == Items \ runs'[s].changed
                      IN /\ \A i \in runs'[s].shown \cap same : items'[i] = "public"
                         /\ runs'[s].ai => \A i \in Payload(told) \cap same : items'[i] = told[i]
    BY DEF CurrentAtSend, Payload
  <2>5. CASE s = r
    <3>1. /\ runs'[s].ai = Unchanged(facts) /\ runs'[s].shown = Shown(facts)
          /\ digests'[runs'[s].digest].facts = facts /\ items' = items
      BY <1>1, <2>2, <2>3, <2>4, <2>5
    <3>2. \A i \in Shown(facts) : items[i] = "public"
      BY DEF Shown
    <3>3. Unchanged(facts) => \A i \in Payload(facts) : items[i] = facts[i]
      BY DEF Unchanged
    <3> HIDE DEF facts
    <3> QED BY <3>1, <3>2, <3>3
  <2>6. CASE s # r
    BY <1>1, <2>4, <2>6 DEF CurrentAtSend, Payload
  <2> QED BY <2>5, <2>6
<1> QED BY <1>2, <1>3, <1>4 DEF DeliveryText

LEMMA StepIsCurrent ==
  ASSUME IInv, CurrentAtSend, [Next]_vars
  PROVE  CurrentAtSend'
<1>0. TypeOK
  BY DEF IInv
<1>1. CASE UNCHANGED vars
  BY <1>1, SameMessages DEF vars
<1>2. ASSUME NEW i \in Items, ChangeItem(i) \/ PurgeItem(i)
      PROVE  CurrentAtSend'
  <2>1. Overtakes(i) /\ UNCHANGED digests /\ \A j \in Items \ {i} : items'[j] = items[j]
    BY <1>0, <1>2 DEF ChangeItem, PurgeItem, TypeOK
  <2> QED BY <2>1, OvertakenMessages
<1>3. ASSUME NEW i \in Items, PurgeDigestReferences(i)
      PROVE  CurrentAtSend'
  <2>1. UNCHANGED <<items, runs>>
    BY <1>3 DEF PurgeDigestReferences
  <2>2. \A d \in Digests : digests'[d].facts = digests[d].facts
    BY <1>0, <1>3 DEF PurgeDigestReferences, TypeOK, DigestRecord
  <2> QED BY <2>1, <2>2, SameMessages
<1>4. ASSUME NEW r \in Runs, NEW p \in Periods, NEW cron \in BOOLEAN,
             GenerateDigest(r, cron, p) \/ RegenerateDigest(r, p)
      PROVE  CurrentAtSend'
  <2>1. UNCHANGED <<items, digests>>
    BY <1>4 DEF GenerateDigest, RegenerateDigest
  <2>2. ASSUME NEW c \in BOOLEAN, NEW version \in Nat, Select(r, c, p, version)
        PROVE  CurrentAtSend'
    BY <1>0, <2>1, <2>2, SelectFacts, OtherMessages
  <2>3. ASSUME NEW d \in Found(p, 1), Chosen(r, cron, d, Empty(digests[d].facts))
        PROVE  CurrentAtSend'
    <3>1. d \in Digests /\ Empty(digests[d].facts) \in BOOLEAN
      BY DEF Found, OfPeriod, Empty
    <3>2. runs'[r].phase # "send" /\ \A s \in Runs \ {r} : runs'[s] = runs[s]
      BY <1>0, <2>3, <3>1, ChosenFacts
    <3> QED BY <2>1, <3>2, OtherMessages
  <2> QED BY <1>0, <1>4, <2>2, <2>3, NextVersion DEF GenerateDigest, RegenerateDigest
<1>5. ASSUME NEW r \in Runs, InsertRun(r)
      PROVE  CurrentAtSend'
  <2> DEFINE empty == Payload(runs[r].facts) = {}
  <2>1. runs[r].cron \in BOOLEAN /\ empty \in BOOLEAN
    BY <1>0 DEF TypeOK, RunRecord
  <2>2. /\ items' = items
        /\ \A d \in Digests : digests[d].state # "absent" => digests'[d].facts = digests[d].facts
    BY <1>0, <1>5 DEF InsertRun, TypeOK
  <2>3. Ends(r) \/ \E d \in Digests : Chosen(r, runs[r].cron, d, empty)
    BY <1>5 DEF InsertRun, Found, OfPeriod
  <2> HIDE DEF empty
  <2>4. runs'[r].phase # "send" /\ \A s \in Runs \ {r} : runs'[s] = runs[s]
    BY <1>0, <2>1, <2>3, EndsFacts, ChosenFacts
  <2> QED BY <2>2, <2>4, SameMessages
<1>6. ASSUME NEW r \in Runs, QueueTelegramDelivery(r)
      PROVE  CurrentAtSend'
  <2> DEFINE row == [IdleRun EXCEPT !.phase = "lease", !.cron = TRUE]
  <2>1. row \in RunRecord /\ row.phase = "lease"
    BY IdleFields DEF IdleRun, RunRecord
  <2>2. UNCHANGED <<items, digests>> /\ (Ends(r) \/ runs' = [runs EXCEPT ![r] = row])
    BY <1>6 DEF QueueTelegramDelivery
  <2> HIDE DEF row
  <2>3. runs'[r].phase # "send" /\ \A s \in Runs \ {r} : runs'[s] = runs[s]
    BY <1>0, <2>1, <2>2, EndsFacts, RunWrites
  <2> QED BY <2>2, <2>3, OtherMessages
<1>7. ASSUME NEW r \in Runs, NEW batch \in SUBSET Digests, Continues(r, batch),
             UNCHANGED <<items, digests>>
      PROVE  CurrentAtSend'
  BY <1>0, <1>7, ContinuesFacts, OtherMessages
<1>8. ASSUME NEW r \in Runs, MarkDeliverySent(r) \/ MarkDeliverySkipped(r) \/ MarkDeliveryFailure(r)
      PROVE  CurrentAtSend'
  <2>1. PICK batch \in SUBSET runs[r].batch : Continues(r, batch)
    BY <1>8 DEF Audited, MarkDeliverySent, MarkDeliverySkipped, MarkDeliveryFailure
  <2>2. batch \in SUBSET Digests
    BY <1>0 DEF TypeOK, RunRecord
  <2> QED BY <1>7, <1>8, <2>1, <2>2
      DEF MarkDeliverySent, MarkDeliverySkipped, MarkDeliveryFailure
<1>9. ASSUME NEW r \in Runs, LeaseTelegramDeliveries(r)
      PROVE  CurrentAtSend'
  BY <1>7, <1>9 DEF LeaseTelegramDeliveries
<1>10. ASSUME NEW r \in Runs, SendMessage(r)
       PROVE  CurrentAtSend'
  <2>1. PICK outcome \in InHandPhases \ {"send"} :
          runs' = [runs EXCEPT ![r] = InHand(outcome, runs[r].batch, runs[r].digest)]
    BY <1>10 DEF SendMessage, Outcomes, InHandPhases
  <2>2. UNCHANGED <<items, digests>> /\ runs[r].batch \in SUBSET Digests /\ runs[r].digest \in Digests
    BY <1>0, <1>10 DEF SendMessage, IInv, RunsPlaced, RunPlaced, InHandPhases, TypeOK, RunRecord
  <2> DEFINE row == InHand(outcome, runs[r].batch, runs[r].digest)
  <2>3. row \in RunRecord /\ row.phase = outcome
    BY <2>2, InHandFacts
  <2>4. runs' = [runs EXCEPT ![r] = row]
    BY <2>1
  <2> HIDE DEF row
  <2>5. runs'[r].phase # "send" /\ \A s \in Runs \ {r} : runs'[s] = runs[s]
    BY <1>0, <2>3, <2>4, RunWrites
  <2> QED BY <2>2, <2>5, OtherMessages
<1>11. ASSUME NEW r \in Runs, RunDies(r) \/ RunThrows(r)
       PROVE  CurrentAtSend'
  <2>1. CASE RunDies(r)
    BY <1>0, <2>1, EndsFacts, OtherMessages DEF RunDies
  <2>2. CASE RunThrows(r)
    <3>1. UNCHANGED <<items, digests>> /\ runs'[r].phase # "send"
          /\ \A s \in Runs \ {r} : runs'[s] = runs[s]
      BY <1>0, <2>2 DEF RunThrows, Goes, TypeOK, RunRecord
    <3> QED BY <3>1, OtherMessages
  <2> QED BY <1>11, <2>1, <2>2
<1>12. ASSUME NEW d \in Digests, MarkReviewed(d)
       PROVE  CurrentAtSend'
  <2>1. UNCHANGED <<items, runs>> /\ \A e \in Digests : digests'[e].facts = digests[e].facts
    BY <1>0, <1>12 DEF MarkReviewed, TypeOK, DigestRecord
  <2> QED BY <2>1, SameMessages
<1>13. ASSUME NEW d \in Digests,
              \/ DeliverReviewed(d) \/ Resolves(d) \/ CancelDelivery(d)
              \/ AbandonedLeaseLapses(d) \/ LeaseLapses(d)
       PROVE  CurrentAtSend'
  <2>1. UNCHANGED <<items, digests, runs>>
    BY <1>13 DEF DeliverReviewed, Resolves, RetryFailedDelivery, ReconcileUnknownDelivery,
                 CancelDelivery, AbandonedLeaseLapses, LeaseLapses, Lapse
  <2> QED BY <2>1, SameMessages
<1>14. CASE \E r \in Runs : Cron(r) \/ Advance(r) \/ RunDies(r) \/ RunThrows(r)
  BY <1>4, <1>5, <1>6, <1>8, <1>9, <1>10, <1>11, <1>14, RenderedMessages DEF Cron, Advance
<1>15. CASE Operator
  BY <1>4, <1>12, <1>13, <1>15 DEF Operator, Generates, Reviews
<1> QED BY <1>1, <1>2, <1>3, <1>13, <1>14, <1>15 DEF Next

-----------------------------------------------------------------------------
(* The theorems.                                                           *)

\* A period whose messages are not excused has got at most one: a digest that
\* has been sent has a live delivery, and there is one of those.
LEMMA OneMessageHolds ==
  ASSUME IInv
  PROVE  OneMessage
<1> SUFFICES ASSUME NEW p \in Periods, p \notin excused PROVE Messages(p) <= 1
  BY DEF IInv, OneMessage
<1> DEFINE ofPeriod == {d \in Digests : digests[d].period = p}
           sent == {d \in ofPeriod : chat[d] > 0}
<1>1. \A d \in ofPeriod : Truth(d) /\ chat[d] <= 1
  BY DEF IInv, Truths, Truth
<1>2. \A d \in ofPeriod : chat[d] \in 0 .. 2
  BY DEF IInv, TypeOK
<1>3. \A d \in sent : Live(d)
  BY <1>1, <1>2 DEF Truth, Live
<1>4. \A d, e \in sent : d = e
  BY <1>3 DEF IInv, OneLive
<1>5. Cardinality(sent) <= 1
  <2>1. CASE sent = {}
    BY <2>1, FS_EmptySet
  <2>2. CASE sent # {}
    <3>1. PICK d \in sent : TRUE
      BY <2>2
    <3>2. sent = {d}
      BY <1>4, <3>1
    <3>3. Cardinality({d}) = 1
      BY FS_Singleton
    <3> HIDE DEF sent
    <3> QED BY <3>2, <3>3
  <2> QED BY <2>1, <2>2
<1>6. Messages(p) = Cardinality(sent)
  BY <1>1, <1>2 DEF Messages
<1> QED BY <1>5, <1>6

\* The inductive invariant behind both results.
THEOREM Invariance == Spec => []IInv
<1>1. Init => IInv
  BY InitSafe
<1>2. IInv /\ [Next]_vars => IInv'
  BY StepSafe
<1> QED BY <1>1, <1>2, PTL DEF Spec

\* A period gets one message, for any number of versions, runs, faults and items
\* (digest.repository.ts:218, digest.worker.ts:44).
THEOREM OneMessagePerPeriod == Spec => []OneMessage
<1>1. IInv => OneMessage
  BY OneMessageHolds
<1> QED BY <1>1, Invariance, PTL

\* The state of a delivery that is not unknown is true of the chat
\* (digest.repository.ts:401).
THEOREM OutcomesAreTrue == Spec => []OutcomeIsTrue
<1>1. IInv => OutcomeIsTrue
  BY DEF IInv, Truths, Truth, OutcomeIsTrue
<1> QED BY <1>1, Invariance, PTL

\* No message is about to be sent that was not true when it was rendered
\* (digest.service.ts:301).
THEOREM SendsWhatIsCurrent == Spec => []CurrentAtSend
<1>1. Init => CurrentAtSend
  BY DEF Init, CurrentAtSend, IdleRun
<1>2. IInv /\ CurrentAtSend /\ [Next]_vars => CurrentAtSend'
  BY StepIsCurrent
<1> QED BY <1>1, <1>2, Invariance, PTL DEF Spec

================================================================================
