--------------------------- MODULE AiCapacityProofs ---------------------------
(***************************************************************************)
(* Theorems about AiCapacity.                                              *)
(***************************************************************************)
EXTENDS AiCapacity, FiniteSetTheorems, TLAPS

\* What a call has sent and not yet been charged for: nothing before its first
\* request, one request before the repair.
RequestsCounted ==
  \A c \in Calls :
    /\ calls[c].phase \notin {"repair", "charge"} => calls[c].requests = 0
    /\ calls[c].phase = "repair" => calls[c].requests = 1 /\ Reserve > 1

\* How far the reservation of a running call has come: no row before the intent, one that
\* is not applied before the windows are asked, and then what the call has sent.
UsedIsSent ==
  \A c \in Calls :
    /\ calls[c].phase \in {"acquire", "intent"} => reservations[c].state = "free"
    /\ calls[c].phase = "apply" => ~reservations[c].applied /\ reservations[c].used = 0
    /\ calls[c].phase \in {"send", "repair"} => reservations[c].used = calls[c].requests
    /\ calls[c].phase = "charge" => 1 <= reservations[c].used /\ calls[c].requests <= reservations[c].used

LiveProbe(c) == calls[c].probe /\ ~calls[c].late /\ calls[c].phase # "release"

\* The lease the one probe relies on: its own, or none while nobody may probe.
ProbeIsLeased ==
  \A c \in Calls : LiveProbe(c) =>
    /\ \/ breaker.state = "half_open" /\ breaker.owner = c /\ ~breaker.lapsed
       \/ breaker.state = "open" /\ breaker.owner = NoCall /\ ~breaker.due
    /\ \A d \in Calls : LiveProbe(d) => d = c

IInv ==
  /\ NotOverdrawn /\ HeldIsReserved
  /\ RequestsCounted /\ ProbeIsLeased /\ OpensAtThreshold
  /\ UsedIsSent /\ ChargedExactlyOnce

-----------------------------------------------------------------------------
(* What any step may do to one window and to the reservations it holds.    *)

WindowKept(w) ==
  windows'[w] = windows[w] /\ Holders(w)' \subseteq Holders(w)

WindowBegins(w) ==
  windows'[w] = [reserved |-> 0, consumed |-> 0] /\ Holders(w)' = {}

WindowReleases(w) ==
  \E past \in SUBSET Calls :
    /\ windows'[w] = [windows[w] EXCEPT
         !.reserved = Without(@, Reserve * Cardinality(Holders(w) \cap past))]
    /\ Holders(w)' \subseteq Holders(w) \ past

WindowReserves(w) ==
  \E c \in Calls :
    /\ Fits(w)
    /\ windows'[w] = [windows[w] EXCEPT !.reserved = @ + Reserve]
    /\ Holders(w)' \subseteq Holders(w) \cup {c}

WindowCharges(w) ==
  \E c \in Holders(w), n \in 0 .. Reserve :
    /\ windows'[w] = [reserved |-> Without(windows[w].reserved, Reserve),
                      consumed |-> windows[w].consumed + n]
    /\ Holders(w)' \subseteq Holders(w) \ {c}

WindowStep(w) ==
  \/ WindowKept(w) \/ WindowBegins(w) \/ WindowReleases(w)
  \/ WindowReserves(w) \/ WindowCharges(w)

-----------------------------------------------------------------------------
(* Counting what is held.                                                  *)

LEMMA Multiples ==
  ASSUME NEW r \in Nat, NEW a \in Nat, NEW b \in Nat, a <= b
  PROVE  r * a \in Nat /\ r * b \in Nat /\ r * a <= r * b
<1>1. PICK d \in Nat : b = a + d
  <2>1. b - a \in Nat /\ b = a + (b - a)
    OBVIOUS
  <2> QED BY <2>1
<1>2. r * b = r * a + r * d
  BY <1>1
<1>3. r * a \in Nat /\ r * d \in Nat
  BY <1>1
<1> QED BY <1>2, <1>3

\* What fewer reservations hold is no more.
LEMMA HeldShrinks ==
  ASSUME NEW S \in SUBSET Calls, NEW T \in SUBSET S
  PROVE  /\ Cardinality(S) \in Nat /\ Cardinality(T) \in Nat
         /\ Cardinality(T) <= Cardinality(S)
         /\ Reserve * Cardinality(T) \in Nat
         /\ Reserve * Cardinality(T) <= Reserve * Cardinality(S)
<1>1. IsFiniteSet(S) /\ IsFiniteSet(T)
  BY CapacityAssumption, FS_Subset
<1>2. Cardinality(S) \in Nat /\ Cardinality(T) \in Nat
  BY <1>1, FS_CardinalityType
<1>3. Cardinality(T) <= Cardinality(S)
  BY <1>1, FS_Subset
<1>4. Reserve \in Nat
  BY CapacityAssumption
<1> QED BY <1>2, <1>3, <1>4, Multiples

\* A window keeps its limit and covers what is held in it.
LEMMA WindowSafe ==
  ASSUME TypeOK, NEW w \in Windows, WindowStep(w), windows'[w] \in [reserved : Nat, consumed : Nat],
         windows[w].reserved + windows[w].consumed <= Limit[w],
         windows[w].reserved >= Reserve * Cardinality(Holders(w))
  PROVE  /\ windows'[w].reserved + windows'[w].consumed <= Limit[w]
         /\ windows'[w].reserved >= Reserve * Cardinality(Holders(w)')
<1> DEFINE old == windows[w]
           H == Holders(w)
<1>1. /\ old = [reserved |-> old.reserved, consumed |-> old.consumed]
      /\ old.reserved \in Nat /\ old.consumed \in Nat
  BY DEF TypeOK
<1>2. H \in SUBSET Calls /\ IsFiniteSet(H) /\ Cardinality(H) \in Nat
  <2>1. H \in SUBSET Calls
    BY DEF Holders
  <2>2. IsFiniteSet(H)
    BY <2>1, CapacityAssumption, FS_Subset
  <2> QED BY <2>1, <2>2, FS_CardinalityType
<1>3. Reserve \in Nat /\ Reserve > 0 /\ Limit[w] \in Nat
  BY CapacityAssumption
<1>4. CASE WindowKept(w)
  <2>1. Reserve * Cardinality(Holders(w)') <= Reserve * Cardinality(H)
    BY <1>2, <1>4, HeldShrinks DEF WindowKept
  <2>2. Reserve * Cardinality(Holders(w)') \in Nat /\ Reserve * Cardinality(H) \in Nat
    BY <1>2, <1>4, HeldShrinks DEF WindowKept
  <2> QED BY <1>1, <1>4, <2>1, <2>2 DEF WindowKept
<1>5. CASE WindowBegins(w)
  <2>1. Cardinality(Holders(w)') = 0
    BY <1>5, FS_EmptySet DEF WindowBegins
  <2>2. windows'[w].reserved = 0 /\ windows'[w].consumed = 0
    BY <1>5 DEF WindowBegins
  <2> QED BY <1>3, <2>1, <2>2
<1>6. CASE WindowReleases(w)
  <2>1. PICK past \in SUBSET Calls :
          /\ windows'[w] = [windows[w] EXCEPT
               !.reserved = Without(@, Reserve * Cardinality(H \cap past))]
          /\ Holders(w)' \subseteq H \ past
    BY <1>6 DEF WindowReleases
  <2> DEFINE back == Cardinality(H \cap past)
             left == Cardinality(H \ past)
  <2>2. back \in Nat /\ left \in Nat /\ left = Cardinality(H) - back
    <3>1. IsFiniteSet(H \cap past) /\ IsFiniteSet(H \ past)
      BY <1>2, FS_Intersection, FS_Difference
    <3>2. left = Cardinality(H) - back
      BY <1>2, FS_Difference
    <3> QED BY <3>1, <3>2, FS_CardinalityType
  <2>3. Reserve * Cardinality(H) = Reserve * back + Reserve * left
    BY <1>2, <1>3, <2>2
  <2>4. Reserve * back \in Nat /\ Reserve * left \in Nat
    BY <1>3, <2>2
  <2>5. /\ Reserve * Cardinality(Holders(w)') \in Nat
        /\ Reserve * Cardinality(Holders(w)') <= Reserve * left
    <3>1. H \ past \in SUBSET Calls
      BY <1>2
    <3> QED BY <2>1, <3>1, HeldShrinks
  <2>6. /\ windows'[w].reserved = Without(old.reserved, Reserve * back)
        /\ windows'[w].consumed = old.consumed
    BY <1>1, <2>1
  <2>7. Without(old.reserved, Reserve * back) = old.reserved - Reserve * back
    <3> HIDE DEF back, left
    <3> QED BY <1>1, <2>3, <2>4 DEF Without
  <2> HIDE DEF back, left
  <2> QED BY <1>1, <1>3, <2>3, <2>4, <2>5, <2>6, <2>7
<1>7. CASE WindowReserves(w)
  <2>1. PICK c \in Calls :
          /\ Fits(w)
          /\ windows'[w] = [windows[w] EXCEPT !.reserved = @ + Reserve]
          /\ Holders(w)' \subseteq H \cup {c}
    BY <1>7 DEF WindowReserves
  <2> DEFINE more == Cardinality(H \cup {c})
  <2>2. more \in Nat /\ more <= Cardinality(H) + 1
    <3>1. IsFiniteSet(H \cup {c}) /\ more = IF c \in H THEN Cardinality(H) ELSE Cardinality(H) + 1
      BY <1>2, FS_AddElement
    <3> QED BY <1>2, <3>1, FS_CardinalityType
  <2>3. Reserve * more <= Reserve * (Cardinality(H) + 1)
    BY <1>2, <1>3, <2>2, Multiples
  <2>4. Reserve * (Cardinality(H) + 1) = Reserve * Cardinality(H) + Reserve
    BY <1>2, <1>3
  <2>5. /\ Reserve * Cardinality(Holders(w)') \in Nat
        /\ Reserve * Cardinality(Holders(w)') <= Reserve * more
    <3>1. H \cup {c} \in SUBSET Calls
      BY <1>2
    <3> QED BY <2>1, <3>1, HeldShrinks
  <2>6. Reserve * more \in Nat /\ Reserve * Cardinality(H) \in Nat
    BY <1>2, <1>3, <2>2
  <2>7. /\ windows'[w].reserved = old.reserved + Reserve
        /\ windows'[w].consumed = old.consumed
    BY <1>1, <2>1
  <2>8. old.reserved + old.consumed + Reserve <= Limit[w]
    BY <2>1 DEF Fits
  <2> HIDE DEF more
  <2> QED BY <1>1, <1>3, <2>3, <2>4, <2>5, <2>6, <2>7, <2>8
<1>8. CASE WindowCharges(w)
  <2>1. PICK c \in H, n \in 0 .. Reserve :
          /\ windows'[w] = [reserved |-> Without(windows[w].reserved, Reserve),
                            consumed |-> windows[w].consumed + n]
          /\ Holders(w)' \subseteq H \ {c}
    BY <1>8 DEF WindowCharges
  <2> DEFINE left == Cardinality(H \ {c})
  <2>2. left \in Nat /\ Cardinality(H) = left + 1
    <3>1. IsFiniteSet(H \ {c}) /\ left = Cardinality(H) - 1
      BY <1>2, <2>1, FS_RemoveElement
    <3> QED BY <1>2, <3>1, FS_CardinalityType
  <2>3. Reserve * Cardinality(H) = Reserve * left + Reserve /\ Reserve * left \in Nat
    BY <1>3, <2>2
  <2>4. /\ Reserve * Cardinality(Holders(w)') \in Nat
        /\ Reserve * Cardinality(Holders(w)') <= Reserve * left
    <3>1. H \ {c} \in SUBSET Calls
      BY <1>2
    <3> QED BY <2>1, <3>1, HeldShrinks
  <2>5. /\ windows'[w].reserved = Without(old.reserved, Reserve)
        /\ windows'[w].consumed = old.consumed + n
    BY <2>1
  <2> HIDE DEF left
  <2>6. Without(old.reserved, Reserve) = old.reserved - Reserve
    BY <1>1, <1>3, <2>3 DEF Without
  <2> QED BY <1>1, <1>3, <2>1, <2>3, <2>4, <2>5, <2>6
<1> QED BY <1>4, <1>5, <1>6, <1>7, <1>8 DEF WindowStep

-----------------------------------------------------------------------------
(* Types.                                                                  *)

LEMMA Records ==
  NoReservation \in ReservationRecord /\ Idle \in CallRecord /\ Closed \in BreakerRecord
BY CapacityAssumption DEF NoReservation, ReservationRecord, Idle, CallRecord, Closed, BreakerRecord

\* The fields a statement sets, one after the other.
LEMMA CallFields ==
  ASSUME NEW call \in CallRecord
  PROVE  /\ call.requests \in 0 .. Reserve
         /\ \A phase \in {"intent", "send", "repair", "charge", "succeed", "count", "open"} :
              [call EXCEPT !.phase = phase] \in CallRecord
         /\ \A truth \in BOOLEAN : /\ [call EXCEPT !.probe = truth] \in CallRecord
                                   /\ [call EXCEPT !.ok = truth] \in CallRecord
         /\ \A n \in 0 .. Reserve : [call EXCEPT !.requests = n] \in CallRecord
         /\ \A n \in 0 .. MaxFailures : [call EXCEPT !.counted = n] \in CallRecord
BY DEF CallRecord

LEMMA ReservationFields ==
  ASSUME NEW r \in ReservationRecord
  PROVE  /\ \A state \in {"free", "active", "expired"} : [r EXCEPT !.state = state] \in ReservationRecord
         /\ \A truth \in BOOLEAN : [r EXCEPT !.applied = truth] \in ReservationRecord
         /\ \A keys \in SUBSET Windows : [r EXCEPT !.keys = keys] \in ReservationRecord
         /\ \A n \in 0 .. Reserve : [r EXCEPT !.used = n] \in ReservationRecord
BY DEF ReservationRecord

\* A call moves on, and the windows are left as they are.
LEMMA GoesToType ==
  ASSUME TypeOK, NEW c \in Calls,
         NEW phase \in {"acquire", "intent", "apply", "release", "send", "count"}, GoesTo(c, phase)
  PROVE  calls' \in [Calls -> CallRecord]
BY DEF TypeOK, GoesTo, CallRecord

LEMMA LeavesType ==
  ASSUME TypeOK, NEW c \in Calls, NEW held \in ReservationRecord, Leaves(c, held)
  PROVE  calls' \in [Calls -> CallRecord] /\ reservations' \in [Calls -> ReservationRecord]
BY Records DEF TypeOK, Leaves

LEMMA GivesUpType ==
  ASSUME TypeOK, NEW c \in Calls, NEW held \in ReservationRecord, GivesUp(c, held)
  PROVE  calls' \in [Calls -> CallRecord] /\ reservations' \in [Calls -> ReservationRecord]
<1>1. CASE calls[c].probe /\ GoesTo(c, "release") /\ reservations' = [reservations EXCEPT ![c] = held]
  BY <1>1, GoesToType DEF TypeOK
<1>2. CASE Leaves(c, held)
  BY <1>2, LeavesType
<1> QED BY <1>1, <1>2 DEF GivesUp

LEMMA ExpireType ==
  ASSUME TypeOK, NEW past \in SUBSET Calls, ExpireReservations(past)
  PROVE  /\ windows' \in [Windows -> [reserved : Nat, consumed : Nat]]
         /\ reservations' \in [Calls -> ReservationRecord]
         /\ uncharged' \subseteq Windows
<1>1. windows' \in [Windows -> [reserved : Nat, consumed : Nat]]
  <2>1. ASSUME NEW w \in Windows
        PROVE  Without(windows[w].reserved, Reserve * Cardinality(Holders(w) \cap past)) \in Nat
    <3>1. Holders(w) \cap past \in SUBSET Calls
      BY DEF Holders
    <3>2. Reserve * Cardinality(Holders(w) \cap past) \in Nat
      BY <3>1, HeldShrinks
    <3>3. windows[w].reserved \in Nat
      BY DEF TypeOK
    <3> QED BY <3>2, <3>3 DEF Without
  <2> QED BY <2>1 DEF TypeOK, ExpireReservations
<1>2. \A c \in Calls : Expired(c) \in ReservationRecord
  BY Records DEF TypeOK, Expired, ReservationRecord
<1>3. reservations' \in [Calls -> ReservationRecord]
  BY <1>2 DEF TypeOK, ExpireReservations
<1>4. \A c \in Calls : reservations[c].keys \subseteq Windows
  BY DEF TypeOK, ReservationRecord
<1>5. uncharged' \subseteq Windows
  BY <1>4 DEF TypeOK, ExpireReservations
<1> QED BY <1>1, <1>3, <1>5

LEMMA TypeStep ==
  ASSUME TypeOK, RequestsCounted, [Next]_vars
  PROVE  TypeOK'
<1>0. /\ \A c \in Calls : reservations[c] \in ReservationRecord /\ reservations[c].keys \subseteq Windows
      /\ Reserve \in Nat /\ Reserve > 0 /\ Threshold \in Nat /\ MaxFailures \in Nat
      /\ \A c \in Calls : calls[c].requests \in 0 .. Reserve
      /\ breaker \in BreakerRecord
  BY CapacityAssumption DEF TypeOK, ReservationRecord, CallRecord
<1>1. ASSUME NEW c \in Calls, Admit(c) PROVE TypeOK'
  <2>1. PICK past \in SUBSET Active : ExpireReservations(past)
    BY <1>1 DEF Admit
  <2>2. past \in SUBSET Calls
    BY <2>1 DEF Active
  <2>3. calls' \in [Calls -> CallRecord]
    BY <1>1, GoesToType DEF Admit, TypeOK
  <2> QED BY <1>1, <2>1, <2>2, <2>3, ExpireType DEF Admit, TypeOK
<1>2. ASSUME NEW c \in Calls, AcquireHalfOpenProbe(c) PROVE TypeOK'
  <2> DEFINE probing == [[calls[c] EXCEPT !.phase = "intent"] EXCEPT !.probe = TRUE]
  <2>0. probing \in CallRecord /\ calls \in [Calls -> CallRecord]
    BY CallFields DEF TypeOK
  <2>1. calls' \in [Calls -> CallRecord]
    <3>1. CASE calls' = [calls EXCEPT ![c].phase = "intent", ![c].probe = TRUE]
      <4>1. calls' = [calls EXCEPT ![c] = probing]
        BY <2>0, <3>1
      <4> QED BY <2>0, <4>1
    <3> QED BY <1>2, <2>0, <3>1, Records DEF AcquireHalfOpenProbe
  <2>2. breaker' \in BreakerRecord
    BY <1>2 DEF AcquireHalfOpenProbe, TypeOK, BreakerRecord
  <2> QED BY <1>2, <2>1, <2>2 DEF AcquireHalfOpenProbe, TypeOK
<1>3. ASSUME NEW c \in Calls, CreateReservationIntent(c) PROVE TypeOK'
  <2>1. calls' \in [Calls -> CallRecord]
    BY <1>3, GoesToType DEF CreateReservationIntent
  <2>2. [NoReservation EXCEPT !.state = "active", !.keys = Windows] \in ReservationRecord
    <3>1. [[NoReservation EXCEPT !.state = "active"] EXCEPT !.keys = Windows] \in ReservationRecord
      BY Records, ReservationFields
    <3> QED BY <3>1 DEF NoReservation
  <2>3. reservations' \in [Calls -> ReservationRecord]
    BY <1>3, <2>2 DEF CreateReservationIntent, TypeOK
  <2> QED BY <1>3, <2>1, <2>3 DEF CreateReservationIntent, TypeOK
<1>4. ASSUME NEW c \in Calls, TryApplyReservation(c) PROVE TypeOK'
  <2>1. CASE GivesUp(c, NoReservation) /\ UNCHANGED windows
    BY <1>4, <2>1, GivesUpType, Records DEF TryApplyReservation, TypeOK
  <2>2. CASE /\ windows' = [w \in Windows |-> [windows[w] EXCEPT !.reserved = @ + Reserve]]
             /\ reservations' = [reservations EXCEPT ![c].applied = reservations[c].state = "active"]
             /\ GoesTo(c, "send")
    <3>1. calls' \in [Calls -> CallRecord]
      BY <2>2, GoesToType
    <3>2. windows' \in [Windows -> [reserved : Nat, consumed : Nat]]
      BY <1>0, <2>2 DEF TypeOK
    <3>3. reservations' \in [Calls -> ReservationRecord]
      <4>1. [reservations[c] EXCEPT !.applied = reservations[c].state = "active"] \in ReservationRecord
        BY <1>0, ReservationFields
      <4> QED BY <2>2, <4>1 DEF TypeOK
    <3> QED BY <1>4, <3>1, <3>2, <3>3 DEF TryApplyReservation, TypeOK
  <2> QED BY <1>4, <2>1, <2>2 DEF TryApplyReservation
<1>5. ASSUME NEW c \in Calls, AdmissionThrows(c) PROVE TypeOK'
  BY <1>0, <1>5, GivesUpType DEF AdmissionThrows, TypeOK
<1>6. ASSUME NEW c \in Calls, ReleaseHalfOpenProbe(c) PROVE TypeOK'
  <2>1. breaker' \in BreakerRecord
    BY <1>0, <1>6 DEF ReleaseHalfOpenProbe, BreakerRecord
  <2> QED BY <1>0, <1>6, <2>1, LeavesType DEF ReleaseHalfOpenProbe, TypeOK
<1>7. ASSUME NEW c \in Calls, SendRequest(c) PROVE TypeOK'
  <2>1. calls[c].requests + 1 \in 0 .. Reserve
    BY <1>0, <1>7 DEF SendRequest, RequestsCounted
  <2>2. calls' \in [Calls -> CallRecord]
    <3>1. PICK answer \in {"accepted", "malformed", "error"} :
            calls' = [calls EXCEPT
               ![c].requests = calls[c].requests + 1,
               ![c].ok = answer = "accepted",
               ![c].phase = IF answer = "malformed" /\ Repairs(c) THEN "repair" ELSE "charge"]
      BY <1>7 DEF SendRequest
    <3> DEFINE a1 == [calls[c] EXCEPT !.requests = calls[c].requests + 1]
               a2 == [a1 EXCEPT !.ok = answer = "accepted"]
               a3 == [a2 EXCEPT !.phase =
                        IF answer = "malformed" /\ Repairs(c) THEN "repair" ELSE "charge"]
    <3>2. calls \in [Calls -> CallRecord]
      BY DEF TypeOK
    <3>3. a1 \in CallRecord
      BY <2>1, <3>2, CallFields
    <3>4. a2 \in CallRecord
      BY <3>3, CallFields
    <3>5. a3 \in CallRecord
      BY <3>4, CallFields
    <3>6. calls' = [calls EXCEPT ![c] = a3]
      BY <3>1, <3>2
    <3> QED BY <3>2, <3>5, <3>6
  <2>3. reservations' \in [Calls -> ReservationRecord]
    BY <1>7, <2>1 DEF SendRequest, TypeOK, ReservationRecord
  <2>4. sent' \in [Windows -> Nat] /\ uncharged' \subseteq Windows
    BY <1>0, <1>7 DEF SendRequest, TypeOK
  <2> QED BY <1>7, <2>2, <2>3, <2>4 DEF SendRequest, TypeOK
<1>8. ASSUME NEW c \in Calls, ReconcileReservation(c) PROVE TypeOK'
  <2>0. 0 \in 0 .. Reserve
    BY <1>0
  <2>1. calls' \in [Calls -> CallRecord]
    <3> DEFINE a1 == [calls[c] EXCEPT !.phase = IF calls[c].ok THEN "succeed" ELSE "count"]
               a2 == [a1 EXCEPT !.ok = FALSE]
               a3 == [a2 EXCEPT !.requests = 0]
    <3>1. calls \in [Calls -> CallRecord]
      BY DEF TypeOK
    <3>2. a1 \in CallRecord
      BY <3>1, CallFields
    <3>3. a2 \in CallRecord
      BY <3>2, CallFields
    <3>4. a3 \in CallRecord
      <4> HIDE DEF a2
      <4> QED BY <2>0, <3>3, CallFields
    <3>5. calls' = [calls EXCEPT ![c] = a3]
      BY <1>8, <3>1 DEF ReconcileReservation
    <3> QED BY <3>1, <3>4, <3>5
  <2>2. reservations' \in [Calls -> ReservationRecord]
    BY <1>8, Records DEF ReconcileReservation, TypeOK
  <2>3. windows' \in [Windows -> [reserved : Nat, consumed : Nat]]
    BY <1>0, <1>8 DEF ReconcileReservation, Charges, Without, TypeOK
  <2>4. uncharged' \subseteq Windows
    BY <1>0, <1>8 DEF ReconcileReservation, TypeOK
  <2> QED BY <1>8, <2>1, <2>2, <2>3, <2>4 DEF ReconcileReservation, TypeOK
<1>9. ASSUME NEW c \in Calls, ReconcileThrows(c) PROVE TypeOK'
  <2>1. CASE calls' = [calls EXCEPT ![c].ok = FALSE, ![c].requests = 1] /\ UNCHANGED reservations
    <3> DEFINE a1 == [calls[c] EXCEPT !.ok = FALSE]
               a2 == [a1 EXCEPT !.requests = 1]
    <3>1. calls' \in [Calls -> CallRecord]
      <4>1. calls \in [Calls -> CallRecord]
        BY DEF TypeOK
      <4>2. a1 \in CallRecord
        BY <4>1, CallFields
      <4>3. a2 \in CallRecord
        <5>1. 1 \in 0 .. Reserve
          BY <1>0
        <5> HIDE DEF a1
        <5> QED BY <4>2, <5>1, CallFields
      <4>4. calls' = [calls EXCEPT ![c] = a2]
        BY <2>1, <4>1
      <4> QED BY <4>1, <4>3, <4>4
    <3> QED BY <1>9, <2>1, <3>1 DEF ReconcileThrows, TypeOK
  <2>2. CASE Leaves(c, reservations[c])
    BY <1>0, <1>9, <2>2, LeavesType DEF ReconcileThrows, TypeOK
  <2> QED BY <1>9, <2>1, <2>2 DEF ReconcileThrows
<1>10. ASSUME NEW c \in Calls, RecordSuccess(c) PROVE TypeOK'
  BY <1>0, <1>10, LeavesType, Records DEF RecordSuccess, TypeOK
<1>11. ASSUME NEW c \in Calls, RecordSuccessThrows(c) PROVE TypeOK'
  BY <1>11, GoesToType DEF RecordSuccessThrows, TypeOK
<1>12. ASSUME NEW c \in Calls, CountFailure(c) PROVE TypeOK'
  <2>1. breaker.failures + 1 \in 0 .. MaxFailures
    BY <1>0, <1>12 DEF CountFailure, BreakerRecord
  <2>2. breaker' \in BreakerRecord
    BY <1>0, <1>12, <2>1 DEF CountFailure, BreakerRecord
  <2>3. calls' \in [Calls -> CallRecord] /\ reservations' \in [Calls -> ReservationRecord]
    <3>1. CASE Leaves(c, reservations[c])
      BY <1>0, <3>1, LeavesType
    <3>2. CASE /\ calls' = [calls EXCEPT ![c].phase = "open", ![c].counted = breaker.failures + 1]
               /\ UNCHANGED reservations
      BY <2>1, <3>2, ZenonT(40) DEF TypeOK, CallRecord
    <3> QED BY <1>12, <3>1, <3>2 DEF CountFailure
  <2> QED BY <1>12, <2>2, <2>3 DEF CountFailure, TypeOK
<1>13. ASSUME NEW c \in Calls, OpenBreaker(c) PROVE TypeOK'
  <2>1. breaker' \in BreakerRecord
    BY <1>0, <1>13 DEF OpenBreaker, BreakerRecord
  <2> QED BY <1>0, <1>13, <2>1, LeavesType DEF OpenBreaker, TypeOK
<1>14. ASSUME NEW c \in Calls, CallDies(c) PROVE TypeOK'
  <2>1. breaker' \in BreakerRecord
    BY <1>0, <1>14 DEF CallDies, BreakerRecord
  <2> QED BY <1>0, <1>14, <2>1, LeavesType DEF CallDies, TypeOK
<1>15. ASSUME CleanupExpiredReservations PROVE TypeOK'
  <2>1. PICK past \in SUBSET Active : ExpireReservations(past)
    BY <1>15 DEF CleanupExpiredReservations
  <2>2. past \in SUBSET Calls
    BY <2>1 DEF Active
  <2> QED BY <1>15, <2>1, <2>2, ExpireType DEF CleanupExpiredReservations, TypeOK
<1>16. ASSUME ProbeLapses PROVE TypeOK'
  BY <1>16 DEF ProbeLapses, TypeOK, BreakerRecord, CallRecord
<1>17. ASSUME ProbeFallsDue PROVE TypeOK'
  BY <1>17 DEF ProbeFallsDue, TypeOK, BreakerRecord, CallRecord
<1>18. ASSUME NEW ended \in Boundaries, WindowsEnd(ended) PROVE TypeOK'
  <2>1. reservations' \in [Calls -> ReservationRecord]
    BY <1>18 DEF WindowsEnd, TypeOK, ReservationRecord
  <2> QED BY <1>18, <2>1 DEF WindowsEnd, TypeOK
<1>19. ASSUME UNCHANGED vars PROVE TypeOK'
  BY <1>19 DEF vars, TypeOK
<1> QED
  BY <1>1, <1>2, <1>3, <1>4, <1>5, <1>6, <1>7, <1>8, <1>9, <1>10, <1>11, <1>12, <1>13, <1>14,
     <1>15, <1>16, <1>17, <1>18, <1>19 DEF Next, CallStep

-----------------------------------------------------------------------------
(* Quota.                                                                  *)

\* A call that leaves or gives up keeps its own reservation or drops it.
LEMMA LeavesHolders ==
  ASSUME TypeOK, NEW c \in Calls, NEW held, held = reservations[c] \/ held = NoReservation,
         Leaves(c, held) \/ GivesUp(c, held), NEW w \in Windows
  PROVE  Holders(w)' \subseteq Holders(w)
BY DEF TypeOK, Leaves, GivesUp, Holders, NoReservation

LEMMA ExpireWindow ==
  ASSUME TypeOK, NEW past \in SUBSET Calls, ExpireReservations(past), NEW w \in Windows
  PROVE  WindowReleases(w)
<1>1. windows'[w] = [windows[w] EXCEPT
         !.reserved = Without(@, Reserve * Cardinality(Holders(w) \cap past))]
  BY DEF ExpireReservations
<1>2. Holders(w)' \subseteq Holders(w) \ past
  BY DEF TypeOK, ExpireReservations, Expired, Holders, NoReservation
<1> QED BY <1>1, <1>2 DEF WindowReleases

LEMMA WindowSteps ==
  ASSUME TypeOK, RequestsCounted, [Next]_vars, NEW w \in Windows
  PROVE  WindowStep(w)
<1>1. ASSUME NEW c \in Calls, Admit(c) PROVE WindowStep(w)
  BY <1>1, ExpireWindow DEF Admit, Active, WindowStep
<1>2. ASSUME NEW c \in Calls, AcquireHalfOpenProbe(c) PROVE WindowStep(w)
  BY <1>2 DEF AcquireHalfOpenProbe, WindowStep, WindowKept, Holders
<1>3. ASSUME NEW c \in Calls, CreateReservationIntent(c) PROVE WindowStep(w)
  BY <1>3 DEF CreateReservationIntent, WindowStep, WindowKept, Holders, NoReservation, TypeOK
<1>4. ASSUME NEW c \in Calls, TryApplyReservation(c) PROVE WindowStep(w)
  <2>1. CASE GivesUp(c, NoReservation) /\ UNCHANGED windows
    BY <2>1, LeavesHolders DEF WindowStep, WindowKept
  <2>2. CASE /\ \A v \in Windows : Fits(v)
             /\ windows' = [v \in Windows |-> [windows[v] EXCEPT !.reserved = @ + Reserve]]
             /\ reservations' = [reservations EXCEPT ![c].applied = reservations[c].state = "active"]
    <3>1. Holders(w)' \subseteq Holders(w) \cup {c}
      BY <2>2 DEF Holders, TypeOK
    <3> QED BY <2>2, <3>1 DEF WindowStep, WindowReserves
  <2> QED BY <1>4, <2>1, <2>2 DEF TryApplyReservation
<1>5. ASSUME NEW c \in Calls, AdmissionThrows(c) PROVE WindowStep(w)
  BY <1>5, LeavesHolders DEF AdmissionThrows, WindowStep, WindowKept
<1>6. ASSUME NEW c \in Calls, ReleaseHalfOpenProbe(c) PROVE WindowStep(w)
  BY <1>6, LeavesHolders DEF ReleaseHalfOpenProbe, WindowStep, WindowKept
<1>7. ASSUME NEW c \in Calls, SendRequest(c) PROVE WindowStep(w)
  BY <1>7 DEF SendRequest, WindowStep, WindowKept, Holders, TypeOK, ReservationRecord
<1>8. ASSUME NEW c \in Calls, ReconcileReservation(c) PROVE WindowStep(w)
  <2>1. reservations' = [reservations EXCEPT ![c] = IF @.applied THEN NoReservation ELSE @]
    BY <1>8 DEF ReconcileReservation
  <2>2. Holders(w)' \subseteq Holders(w) \ (IF reservations[c].applied THEN {c} ELSE {})
    BY <2>1 DEF Holders, NoReservation, TypeOK
  <2>3. CASE c \in Holders(w)
    <3>1. reservations[c].state = "active" /\ reservations[c].applied /\ w \in reservations[c].keys
      BY <2>3 DEF Holders
    <3>2. windows'[w] = [reserved |-> Without(windows[w].reserved, Reserve),
                         consumed |-> windows[w].consumed + calls[c].requests]
      BY <1>8, <3>1 DEF ReconcileReservation, Charges
    <3>3. calls[c].requests \in 0 .. Reserve
      BY DEF TypeOK, CallRecord
    <3>4. Holders(w)' \subseteq Holders(w) \ {c}
      BY <2>2, <3>1
    <3> QED BY <2>3, <3>2, <3>3, <3>4 DEF WindowStep, WindowCharges
  <2>4. CASE c \notin Holders(w)
    <3>1. windows'[w] = windows[w]
      BY <1>8, <2>4 DEF ReconcileReservation, Charges, Holders
    <3> QED BY <2>2, <3>1 DEF WindowStep, WindowKept
  <2> QED BY <2>3, <2>4
<1>9. ASSUME NEW c \in Calls, ReconcileThrows(c) PROVE WindowStep(w)
  <2>1. CASE UNCHANGED reservations
    BY <1>9, <2>1 DEF ReconcileThrows, WindowStep, WindowKept, Holders
  <2>2. CASE Leaves(c, reservations[c])
    BY <1>9, <2>2, LeavesHolders DEF ReconcileThrows, WindowStep, WindowKept
  <2> QED BY <1>9, <2>1, <2>2 DEF ReconcileThrows
<1>10. ASSUME NEW c \in Calls, RecordSuccess(c) PROVE WindowStep(w)
  BY <1>10, LeavesHolders DEF RecordSuccess, WindowStep, WindowKept
<1>11. ASSUME NEW c \in Calls, RecordSuccessThrows(c) PROVE WindowStep(w)
  BY <1>11 DEF RecordSuccessThrows, WindowStep, WindowKept, Holders
<1>12. ASSUME NEW c \in Calls, CountFailure(c) PROVE WindowStep(w)
  <2>1. CASE UNCHANGED reservations
    BY <1>12, <2>1 DEF CountFailure, WindowStep, WindowKept, Holders
  <2>2. CASE Leaves(c, reservations[c])
    BY <1>12, <2>2, LeavesHolders DEF CountFailure, WindowStep, WindowKept
  <2> QED BY <1>12, <2>1, <2>2 DEF CountFailure
<1>13. ASSUME NEW c \in Calls, OpenBreaker(c) PROVE WindowStep(w)
  BY <1>13, LeavesHolders DEF OpenBreaker, WindowStep, WindowKept
<1>14. ASSUME NEW c \in Calls, CallDies(c) PROVE WindowStep(w)
  BY <1>14, LeavesHolders DEF CallDies, WindowStep, WindowKept
<1>15. ASSUME CleanupExpiredReservations PROVE WindowStep(w)
  BY <1>15, ExpireWindow DEF CleanupExpiredReservations, Active, WindowStep
<1>16. ASSUME ProbeLapses \/ ProbeFallsDue PROVE WindowStep(w)
  BY <1>16 DEF ProbeLapses, ProbeFallsDue, WindowStep, WindowKept, Holders
<1>17. ASSUME NEW ended \in Boundaries, WindowsEnd(ended) PROVE WindowStep(w)
  <2>1. reservations' = [c \in Calls |-> [reservations[c] EXCEPT !.keys = @ \ ended]]
    BY <1>17 DEF WindowsEnd
  <2>2. CASE w \in ended
    <3>1. Holders(w)' = {}
      BY <2>1, <2>2 DEF Holders, TypeOK, ReservationRecord
    <3> QED BY <1>17, <2>2, <3>1 DEF WindowsEnd, WindowStep, WindowBegins
  <2>3. CASE w \notin ended
    <3>1. Holders(w)' \subseteq Holders(w)
      BY <2>1 DEF Holders, TypeOK, ReservationRecord
    <3> QED BY <1>17, <2>3, <3>1 DEF WindowsEnd, WindowStep, WindowKept
  <2> QED BY <2>2, <2>3
<1>18. ASSUME UNCHANGED vars PROVE WindowStep(w)
  BY <1>18 DEF vars, WindowStep, WindowKept, Holders
<1> QED
  BY <1>1, <1>2, <1>3, <1>4, <1>5, <1>6, <1>7, <1>8, <1>9, <1>10, <1>11, <1>12, <1>13, <1>14,
     <1>15, <1>16, <1>17, <1>18 DEF Next, CallStep

-----------------------------------------------------------------------------
(* What any step may do to the requests a window is yet to be charged for. *)

FlightKept(w) ==
  /\ w \notin uncharged /\ sent'[w] = sent[w]
  /\ windows'[w].consumed = windows[w].consumed /\ InFlight(w)' = InFlight(w)

FlightBegins(w) ==
  windows'[w].consumed = 0 /\ sent'[w] = 0 /\ InFlight(w)' = {}

FlightSends(w) ==
  \E request \in (Calls \X (1 .. Reserve)) \ InFlight(w) :
    /\ w \notin uncharged /\ sent'[w] = sent[w] + 1
    /\ windows'[w].consumed = windows[w].consumed
    /\ InFlight(w)' = InFlight(w) \cup {request}

FlightLands(w) ==
  \E c \in Calls, n \in 0 .. Reserve :
    /\ w \notin uncharged /\ sent'[w] = sent[w]
    /\ windows'[w].consumed = windows[w].consumed + n
    /\ {c} \X (1 .. n) \subseteq InFlight(w)
    /\ InFlight(w)' = InFlight(w) \ ({c} \X (1 .. n))

FlightStep(w) ==
  \/ w \in uncharged' \/ FlightKept(w) \/ FlightBegins(w) \/ FlightSends(w) \/ FlightLands(w)

LEMMA FlightIsFinite ==
  ASSUME NEW w
  PROVE  IsFiniteSet(InFlight(w)) /\ Cardinality(InFlight(w)) \in Nat
<1>1. Reserve \in Nat /\ IsFiniteSet(Calls)
  BY CapacityAssumption
<1>2. IsFiniteSet(1 .. Reserve)
  BY <1>1, FS_Interval
<1>3. IsFiniteSet(Calls \X (1 .. Reserve))
  BY <1>1, <1>2, FS_Product
<1>4. InFlight(w) \subseteq Calls \X (1 .. Reserve)
  BY DEF InFlight
<1>5. IsFiniteSet(InFlight(w))
  BY <1>3, <1>4, FS_Subset
<1> QED BY <1>5, FS_CardinalityType

\* A window stays charged for each request once.
LEMMA FlightSafe ==
  ASSUME TypeOK, NEW w \in Windows, FlightStep(w), w \notin uncharged',
         w \notin uncharged => windows[w].consumed + Cardinality(InFlight(w)) = sent[w]
  PROVE  windows'[w].consumed + Cardinality(InFlight(w)') = sent'[w]
<1> DEFINE flying == InFlight(w)
<1>1. windows[w].consumed \in Nat /\ sent[w] \in Nat
  BY DEF TypeOK
<1>2. IsFiniteSet(flying) /\ Cardinality(flying) \in Nat
  BY FlightIsFinite
<1>3. CASE FlightKept(w)
  BY <1>3 DEF FlightKept
<1>4. CASE FlightBegins(w)
  <2>1. Cardinality(InFlight(w)') = 0
    BY <1>4, FS_EmptySet DEF FlightBegins
  <2> QED BY <1>4, <2>1 DEF FlightBegins
<1>5. CASE FlightSends(w)
  <2>1. PICK request \in (Calls \X (1 .. Reserve)) \ flying :
          /\ w \notin uncharged /\ sent'[w] = sent[w] + 1
          /\ windows'[w].consumed = windows[w].consumed
          /\ InFlight(w)' = flying \cup {request}
    BY <1>5 DEF FlightSends
  <2>2. Cardinality(flying \cup {request}) = Cardinality(flying) + 1
    BY <1>2, <2>1, FS_AddElement
  <2>3. Cardinality(InFlight(w)') = Cardinality(flying) + 1
    BY <2>1, <2>2
  <2> HIDE DEF flying
  <2> QED BY <1>1, <1>2, <2>1, <2>3 DEF flying
<1>6. CASE FlightLands(w)
  <2>1. PICK c \in Calls, n \in 0 .. Reserve :
          /\ w \notin uncharged /\ sent'[w] = sent[w]
          /\ windows'[w].consumed = windows[w].consumed + n
          /\ {c} \X (1 .. n) \subseteq flying
          /\ InFlight(w)' = flying \ ({c} \X (1 .. n))
    BY <1>6 DEF FlightLands
  <2> DEFINE landed == {c} \X (1 .. n)
  <2>2. n \in Nat
    BY <2>1, CapacityAssumption
  <2>3. IsFiniteSet(1 .. n) /\ Cardinality(1 .. n) = n
    BY <2>2, FS_Interval
  <2>4. IsFiniteSet({c}) /\ Cardinality({c}) = 1
    BY FS_Singleton, Zenon
  <2>5. Cardinality(landed) = n
    <3>1. Cardinality(landed) = Cardinality({c}) * Cardinality(1 .. n)
      BY <2>3, <2>4, FS_Product
    <3> QED BY <2>2, <2>3, <2>4, <3>1
  <2>6. flying \cap landed = landed
    BY <2>1
  <2>7. Cardinality(flying \ landed) = Cardinality(flying) - n
    <3> HIDE DEF flying, landed
    <3>1. Cardinality(flying \ landed) = Cardinality(flying) - Cardinality(flying \cap landed)
      BY <1>2, FS_Difference
    <3> QED BY <2>5, <2>6, <3>1
  <2>8. Cardinality(InFlight(w)') = Cardinality(flying) - n
    BY <2>1, <2>7
  <2>9. windows[w].consumed + Cardinality(flying) = sent[w]
    BY <2>1
  <2> HIDE DEF flying
  <2> QED BY <1>1, <1>2, <2>1, <2>2, <2>8, <2>9
<1> QED BY <1>3, <1>4, <1>5, <1>6 DEF FlightStep

\* Reservations that neither come to hold a window nor cease to, nor change what they
\* have used, keep its requests.
LEMMA SameFlight ==
  ASSUME NEW w,
         \A c \in Calls : \/ reservations'[c] = reservations[c]
                          \/ c \notin Holders(w) /\ c \notin Holders(w)'
  PROVE  InFlight(w)' = InFlight(w)
<1>1. \A c \in Calls : c \in Holders(w)' <=> c \in Holders(w)
  BY DEF Holders
<1>2. \A c \in Holders(w) : reservations'[c] = reservations[c]
  BY <1>1 DEF Holders
<1>3. \A request \in Calls \X (1 .. Reserve) :
        request \in InFlight(w)' <=> request \in InFlight(w)
  BY <1>1, <1>2 DEF InFlight
<1>4. InFlight(w) \subseteq Calls \X (1 .. Reserve) /\ InFlight(w)' \subseteq Calls \X (1 .. Reserve)
  BY DEF InFlight
<1> QED BY <1>3, <1>4

\* A step that leaves the windows and what was sent alone, and no reservation that holds one.
QuietStep ==
  /\ UNCHANGED <<windows, sent, uncharged>>
  /\ \A w \in Windows, c \in Calls :
       \/ reservations'[c] = reservations[c]
       \/ c \notin Holders(w) /\ c \notin Holders(w)'

LEMMA QuietFlight ==
  ASSUME QuietStep, NEW w \in Windows
  PROVE  FlightStep(w)
<1>1. InFlight(w)' = InFlight(w)
  BY SameFlight DEF QuietStep
<1> QED BY <1>1 DEF QuietStep, FlightStep, FlightKept

LEMMA LeavesQuietly ==
  ASSUME TypeOK, NEW c \in Calls, UNCHANGED <<windows, sent, uncharged>>,
         \/ Leaves(c, reservations[c]) \/ GivesUp(c, reservations[c])
         \/ GivesUp(c, NoReservation) /\ ~reservations[c].applied
  PROVE  QuietStep
<1>1. \A d \in Calls \ {c} : reservations'[d] = reservations[d]
  BY DEF TypeOK, Leaves, GivesUp
<1>2. \/ reservations'[c] = reservations[c]
      \/ /\ reservations'[c] = NoReservation
         /\ reservations[c].state # "active" \/ ~reservations[c].applied
  BY DEF TypeOK, Leaves, GivesUp
<1>3. NoReservation.state # "active"
  BY DEF NoReservation
<1> QED BY <1>1, <1>2, <1>3 DEF QuietStep, Holders

LEMMA ExpireFlight ==
  ASSUME TypeOK, NEW past \in SUBSET Calls, ExpireReservations(past), UNCHANGED sent, NEW w \in Windows
  PROVE  FlightStep(w)
<1> SUFFICES ASSUME w \notin uncharged' PROVE FlightKept(w)
  BY DEF FlightStep
<1>1. w \notin uncharged /\ windows'[w].consumed = windows[w].consumed
  BY DEF ExpireReservations, TypeOK
<1>2. \A c \in past : w \in reservations[c].keys => reservations[c].used = 0
  BY DEF ExpireReservations, TypeOK, ReservationRecord
<1>3. \A c \in Calls \ past : reservations'[c] = reservations[c]
  BY DEF ExpireReservations
<1>4. \A c \in past : c \notin Holders(w)'
  BY DEF ExpireReservations, Expired, Holders, NoReservation, TypeOK, ReservationRecord
<1>5. \A request \in Calls \X (1 .. Reserve) :
        request \in InFlight(w)' <=> request \in InFlight(w)
  <2> SUFFICES ASSUME NEW c \in Calls, NEW n \in 1 .. Reserve
               PROVE  <<c, n>> \in InFlight(w)' <=> <<c, n>> \in InFlight(w)
    OBVIOUS
  <2>1. CASE c \in past
    <3>1. c \notin Holders(w)'
      BY <1>4, <2>1
    <3>2. <<c, n>> \notin InFlight(w)'
      BY <3>1 DEF InFlight
    <3>3. c \in Holders(w) => ~(n <= reservations[c].used)
      BY <1>2, <2>1 DEF Holders
    <3>4. <<c, n>> \notin InFlight(w)
      BY <3>3 DEF InFlight
    <3> QED BY <3>2, <3>4
  <2>2. CASE c \notin past
    <3>1. reservations'[c] = reservations[c]
      BY <1>3, <2>2
    <3>2. c \in Holders(w)' <=> c \in Holders(w)
      BY <3>1 DEF Holders
    <3> QED BY <3>1, <3>2 DEF InFlight
  <2> QED BY <2>1, <2>2
<1>6. InFlight(w) \subseteq Calls \X (1 .. Reserve) /\ InFlight(w)' \subseteq Calls \X (1 .. Reserve)
  BY DEF InFlight
<1>7. InFlight(w)' = InFlight(w)
  BY <1>5, <1>6
<1> QED BY <1>1, <1>7 DEF FlightKept

\* A request that goes out under a reservation that is held is in flight.
LEMMA SendFlight ==
  ASSUME TypeOK, RequestsCounted, UsedIsSent, NEW c \in Calls, SendRequest(c), NEW w \in Windows
  PROVE  FlightStep(w)
<1> DEFINE n == calls[c].requests + 1
<1> SUFFICES ASSUME w \notin uncharged' PROVE FlightKept(w) \/ FlightSends(w)
  BY DEF FlightStep
<1>1. /\ w \notin uncharged /\ UNCHANGED windows
      /\ w \in reservations[c].keys => reservations[c].state = "active" /\ reservations[c].applied
      /\ sent'[w] = IF w \in reservations[c].keys THEN sent[w] + 1 ELSE sent[w]
  BY DEF SendRequest
<1>2. /\ reservations' = [reservations EXCEPT ![c].used = n]
      /\ reservations \in [Calls -> ReservationRecord]
  BY DEF SendRequest, TypeOK
<1>3. /\ \A d \in Calls \ {c} : reservations'[d] = reservations[d]
      /\ reservations'[c] = [reservations[c] EXCEPT !.used = n]
  BY <1>2
<1>4. Holders(w)' = Holders(w)
  BY <1>2, <1>3 DEF Holders, ReservationRecord
<1>5. CASE w \notin reservations[c].keys
  <2>1. c \notin Holders(w)
    BY <1>5 DEF Holders
  <2>2. InFlight(w)' = InFlight(w)
    BY <1>3, <1>4, <2>1, SameFlight
  <2> QED BY <1>1, <1>5, <2>2 DEF FlightKept
<1>6. CASE w \in reservations[c].keys
  <2>1. c \in Holders(w)
    BY <1>1, <1>6 DEF Holders
  <2>2. reservations[c].used = calls[c].requests /\ calls[c].requests \in Nat
    BY DEF SendRequest, UsedIsSent, TypeOK, CallRecord
  <2>3. reservations'[c].used = n
    BY <1>2, <1>3 DEF ReservationRecord
  <2>4. n \in 1 .. Reserve
    BY <2>2, CapacityAssumption DEF SendRequest, RequestsCounted
  <2>5. <<c, n>> \in (Calls \X (1 .. Reserve)) \ InFlight(w)
    <3>1. ~(n <= reservations[c].used)
      BY <2>2
    <3> QED BY <2>4, <3>1 DEF InFlight
  <2>6. \A request \in Calls \X (1 .. Reserve) :
          request \in InFlight(w)' <=> request \in InFlight(w) \/ request = <<c, n>>
    <3> SUFFICES ASSUME NEW d \in Calls, NEW m \in 1 .. Reserve
                 PROVE  <<d, m>> \in InFlight(w)' <=> <<d, m>> \in InFlight(w) \/ (d = c /\ m = n)
      OBVIOUS
    <3>1. <<d, m>> \in InFlight(w) <=> d \in Holders(w) /\ m <= reservations[d].used
      BY DEF InFlight
    <3>2. <<d, m>> \in InFlight(w)' <=> d \in Holders(w) /\ m <= reservations'[d].used
      BY <1>4 DEF InFlight
    <3>3. CASE d = c
      BY <2>1, <2>2, <2>3, <3>1, <3>2, <3>3
    <3>4. CASE d # c
      BY <1>3, <3>1, <3>2, <3>4
    <3> QED BY <3>3, <3>4
  <2>7. InFlight(w) \subseteq Calls \X (1 .. Reserve) /\ InFlight(w)' \subseteq Calls \X (1 .. Reserve)
    BY DEF InFlight
  <2>8. InFlight(w)' = InFlight(w) \cup {<<c, n>>}
    <3> HIDE DEF n
    <3> QED BY <2>5, <2>6, <2>7
  <2> QED BY <1>1, <1>6, <2>5, <2>8 DEF FlightSends
<1> QED BY <1>5, <1>6

\* What a call reports is all it sent, and leaves the flight as it is charged.
LEMMA ReconcileFlight ==
  ASSUME TypeOK, UsedIsSent, NEW c \in Calls, ReconcileReservation(c), NEW w \in Windows
  PROVE  FlightStep(w)
<1> SUFFICES ASSUME w \notin uncharged' PROVE FlightKept(w) \/ FlightLands(w)
  BY DEF FlightStep
<1> DEFINE n == calls[c].requests
<1>1. /\ w \notin uncharged /\ UNCHANGED sent /\ calls[c].phase = "charge"
      /\ reservations' = [reservations EXCEPT ![c] = IF @.applied THEN NoReservation ELSE @]
      /\ Charges(c)
  BY DEF ReconcileReservation
<1>2. w \in reservations[c].keys /\ reservations[c].state = "active" => ~(n < reservations[c].used)
  BY DEF ReconcileReservation
<1>3. /\ \A d \in Calls \ {c} : reservations'[d] = reservations[d]
      /\ reservations[c].applied => reservations'[c] = NoReservation
      /\ ~reservations[c].applied => reservations'[c] = reservations[c]
  BY <1>1 DEF TypeOK
<1>4. NoReservation.state # "active"
  BY DEF NoReservation
<1>5. CASE c \notin Holders(w)
  <2>1. windows'[w] = windows[w]
    BY <1>1, <1>5 DEF Charges, Holders
  <2>2. c \notin Holders(w)'
    BY <1>3, <1>4, <1>5 DEF Holders
  <2>3. InFlight(w)' = InFlight(w)
    BY <1>3, <1>5, <2>2, SameFlight
  <2> QED BY <1>1, <2>1, <2>3 DEF FlightKept
<1>6. CASE c \in Holders(w)
  <2>1. reservations[c].state = "active" /\ reservations[c].applied /\ w \in reservations[c].keys
    BY <1>6 DEF Holders
  <2>2. windows'[w].consumed = windows[w].consumed + n
    BY <1>1, <2>1 DEF Charges
  <2>3. reservations[c].used = n /\ n \in 0 .. Reserve
    <3>1. n <= reservations[c].used
      BY <1>1 DEF UsedIsSent
    <3>2. n \in 0 .. Reserve /\ reservations[c].used \in 0 .. Reserve
      BY DEF TypeOK, CallRecord, ReservationRecord
    <3>3. ~(n < reservations[c].used)
      BY <1>2, <2>1
    <3> HIDE DEF n
    <3> QED BY <3>1, <3>2, <3>3, CapacityAssumption
  <2>4. c \notin Holders(w)' /\ \A d \in Calls \ {c} : d \in Holders(w)' <=> d \in Holders(w)
    BY <1>3, <1>4, <2>1 DEF Holders
  <2>5. \A request \in Calls \X (1 .. Reserve) :
          /\ request \in InFlight(w)' <=> request \in InFlight(w) /\ request[1] # c
          /\ request[1] = c => (request \in InFlight(w) <=> request[2] <= n)
    <3> SUFFICES ASSUME NEW d \in Calls, NEW m \in 1 .. Reserve
                 PROVE  /\ <<d, m>> \in InFlight(w)' <=> <<d, m>> \in InFlight(w) /\ d # c
                        /\ d = c => (<<d, m>> \in InFlight(w) <=> m <= n)
      OBVIOUS
    <3>1. <<d, m>> \in InFlight(w) <=> d \in Holders(w) /\ m <= reservations[d].used
      BY DEF InFlight
    <3>2. <<d, m>> \in InFlight(w)' <=> d \in Holders(w)' /\ m <= reservations'[d].used
      BY DEF InFlight
    <3> HIDE DEF n
    <3>3. CASE d = c
      BY <1>6, <2>3, <2>4, <3>1, <3>2, <3>3
    <3>4. CASE d # c
      BY <1>3, <2>4, <3>1, <3>2, <3>4
    <3> QED BY <3>3, <3>4
  <2>6. InFlight(w) \subseteq Calls \X (1 .. Reserve) /\ InFlight(w)' \subseteq Calls \X (1 .. Reserve)
    BY DEF InFlight
  <2>7. \A m \in 1 .. n : m \in 1 .. Reserve /\ m <= n
    BY <2>3, CapacityAssumption
  <2>8. \A m \in 1 .. Reserve : m <= n => m \in 1 .. n
    BY <2>3, CapacityAssumption
  <2> DEFINE landed == {c} \X (1 .. n)
  <2>9. landed \subseteq InFlight(w)
    <3> SUFFICES ASSUME NEW m \in 1 .. n PROVE <<c, m>> \in InFlight(w)
      OBVIOUS
    <3> QED BY <2>5, <2>7
  <2>10. ASSUME NEW d \in Calls, NEW m \in 1 .. Reserve
         PROVE  <<d, m>> \in InFlight(w)' <=> <<d, m>> \in InFlight(w) /\ <<d, m>> \notin landed
    <3>1. <<d, m>> \in landed <=> d = c /\ m \in 1 .. n
      OBVIOUS
    <3>2. /\ <<d, m>> \in InFlight(w)' <=> <<d, m>> \in InFlight(w) /\ d # c
          /\ d = c => (<<d, m>> \in InFlight(w) <=> m <= n)
      BY <2>5
    <3> HIDE DEF n, landed
    <3> QED BY <2>8, <3>1, <3>2
  <2>11. InFlight(w)' = InFlight(w) \ landed
    <3> HIDE DEF landed
    <3> QED BY <2>6, <2>10
  <2> HIDE DEF n
  <2> QED BY <1>1, <2>2, <2>3, <2>9, <2>11 DEF FlightLands
<1> QED BY <1>5, <1>6

LEMMA FlightSteps ==
  ASSUME TypeOK, RequestsCounted, UsedIsSent, [Next]_vars, NEW w \in Windows
  PROVE  FlightStep(w)
<1>0. ASSUME UNCHANGED <<windows, sent, uncharged, reservations>> PROVE QuietStep
  BY <1>0 DEF QuietStep
<1>1. ASSUME NEW c \in Calls, Admit(c) PROVE FlightStep(w)
  BY <1>1, ExpireFlight DEF Admit, Active
<1>2. ASSUME NEW c \in Calls, AcquireHalfOpenProbe(c) PROVE FlightStep(w)
  BY <1>0, <1>2, QuietFlight DEF AcquireHalfOpenProbe
<1>3. ASSUME NEW c \in Calls, CreateReservationIntent(c) PROVE FlightStep(w)
  <2>1. UNCHANGED <<windows, sent, uncharged>>
    BY <1>3 DEF CreateReservationIntent
  <2>2. \A d \in Calls \ {c} : reservations'[d] = reservations[d]
    BY <1>3 DEF CreateReservationIntent, TypeOK
  <2>3. reservations[c].state = "free"
    BY <1>3 DEF CreateReservationIntent, UsedIsSent
  <2>4. ~reservations'[c].applied
    BY <1>3 DEF CreateReservationIntent, NoReservation, TypeOK
  <2>5. QuietStep
    BY <2>1, <2>2, <2>3, <2>4 DEF QuietStep, Holders
  <2> QED BY <2>5, QuietFlight
<1>4. ASSUME NEW c \in Calls, TryApplyReservation(c) PROVE FlightStep(w)
  <2>0. ~reservations[c].applied /\ reservations[c].used = 0
    BY <1>4 DEF TryApplyReservation, UsedIsSent
  <2>1. CASE GivesUp(c, NoReservation) /\ UNCHANGED windows
    BY <1>4, <2>0, <2>1, LeavesQuietly, QuietFlight DEF TryApplyReservation
  <2>2. CASE /\ windows' = [v \in Windows |-> [windows[v] EXCEPT !.reserved = @ + Reserve]]
             /\ reservations' = [reservations EXCEPT ![c].applied = reservations[c].state = "active"]
    <3>1. windows'[w].consumed = windows[w].consumed
      BY <2>2 DEF TypeOK
    <3>2. \A d \in Calls \ {c} : reservations'[d] = reservations[d]
      BY <2>2 DEF TypeOK
    <3>3. reservations'[c].used = 0
      BY <2>0, <2>2 DEF TypeOK, ReservationRecord
    <3>4. ASSUME NEW d \in Calls, NEW n \in 1 .. Reserve
          PROVE  <<d, n>> \in InFlight(w)' <=> <<d, n>> \in InFlight(w)
      <4>1. CASE d = c
        <5>1. ~(n <= reservations[d].used) /\ ~(n <= reservations'[d].used)
          BY <2>0, <3>3, <4>1
        <5> QED BY <5>1 DEF InFlight
      <4>2. CASE d # c
        <5>1. reservations'[d] = reservations[d]
          BY <3>2, <4>2
        <5>2. d \in Holders(w)' <=> d \in Holders(w)
          BY <5>1 DEF Holders
        <5> QED BY <5>1, <5>2 DEF InFlight
      <4> QED BY <4>1, <4>2
    <3>5. InFlight(w) \subseteq Calls \X (1 .. Reserve) /\ InFlight(w)' \subseteq Calls \X (1 .. Reserve)
      BY DEF InFlight
    <3>6. InFlight(w)' = InFlight(w)
      BY <3>4, <3>5
    <3> QED BY <1>4, <3>1, <3>6 DEF TryApplyReservation, FlightStep, FlightKept
  <2> QED BY <1>4, <2>1, <2>2 DEF TryApplyReservation
<1>5. ASSUME NEW c \in Calls, AdmissionThrows(c) PROVE FlightStep(w)
  BY <1>5, LeavesQuietly, QuietFlight DEF AdmissionThrows
<1>6. ASSUME NEW c \in Calls, ReleaseHalfOpenProbe(c) PROVE FlightStep(w)
  BY <1>6, LeavesQuietly, QuietFlight DEF ReleaseHalfOpenProbe
<1>7. ASSUME NEW c \in Calls, SendRequest(c) PROVE FlightStep(w)
  BY <1>7, SendFlight
<1>8. ASSUME NEW c \in Calls, ReconcileReservation(c) PROVE FlightStep(w)
  BY <1>8, ReconcileFlight
<1>9. ASSUME NEW c \in Calls, ReconcileThrows(c) PROVE FlightStep(w)
  BY <1>0, <1>9, LeavesQuietly, QuietFlight DEF ReconcileThrows
<1>10. ASSUME NEW c \in Calls, RecordSuccess(c) PROVE FlightStep(w)
  BY <1>10, LeavesQuietly, QuietFlight DEF RecordSuccess
<1>11. ASSUME NEW c \in Calls, RecordSuccessThrows(c) PROVE FlightStep(w)
  BY <1>0, <1>11, QuietFlight DEF RecordSuccessThrows
<1>12. ASSUME NEW c \in Calls, CountFailure(c) PROVE FlightStep(w)
  BY <1>0, <1>12, LeavesQuietly, QuietFlight DEF CountFailure
<1>13. ASSUME NEW c \in Calls, OpenBreaker(c) PROVE FlightStep(w)
  BY <1>13, LeavesQuietly, QuietFlight DEF OpenBreaker
<1>14. ASSUME NEW c \in Calls, CallDies(c) PROVE FlightStep(w)
  BY <1>14, LeavesQuietly, QuietFlight DEF CallDies
<1>15. ASSUME CleanupExpiredReservations PROVE FlightStep(w)
  BY <1>15, ExpireFlight DEF CleanupExpiredReservations, Active
<1>16. ASSUME ProbeLapses \/ ProbeFallsDue PROVE FlightStep(w)
  BY <1>0, <1>16, QuietFlight DEF ProbeLapses, ProbeFallsDue
<1>17. ASSUME NEW ended \in Boundaries, WindowsEnd(ended) PROVE FlightStep(w)
  <2>1. \A c \in Calls :
          /\ reservations'[c].state = reservations[c].state
          /\ reservations'[c].applied = reservations[c].applied
          /\ reservations'[c].used = reservations[c].used
          /\ reservations'[c].keys = reservations[c].keys \ ended
    BY <1>17 DEF WindowsEnd, TypeOK, ReservationRecord
  <2>2. CASE w \in ended
    <3>1. Holders(w)' = {}
      BY <2>1, <2>2 DEF Holders
    <3>2. InFlight(w)' = {}
      BY <3>1 DEF InFlight
    <3> QED BY <1>17, <2>2, <3>2 DEF WindowsEnd, FlightStep, FlightBegins
  <2>3. CASE w \notin ended
    <3>1. Holders(w)' = Holders(w)
      BY <2>1, <2>3 DEF Holders
    <3>2. InFlight(w)' = InFlight(w)
      BY <2>1, <3>1 DEF InFlight, Holders
    <3> QED BY <1>17, <2>3, <3>2 DEF WindowsEnd, FlightStep, FlightKept
  <2> QED BY <2>2, <2>3
<1>18. ASSUME UNCHANGED vars PROVE FlightStep(w)
  BY <1>0, <1>18, QuietFlight DEF vars
<1> QED
  BY <1>1, <1>2, <1>3, <1>4, <1>5, <1>6, <1>7, <1>8, <1>9, <1>10, <1>11, <1>12, <1>13, <1>14,
     <1>15, <1>16, <1>17, <1>18 DEF Next, CallStep

-----------------------------------------------------------------------------
(* Calls and the breaker.                                                  *)

LEMMA RequestsStep ==
  ASSUME TypeOK, RequestsCounted, [Next]_vars
  PROVE  RequestsCounted'
<1>1. ASSUME NEW c \in Calls, NEW held, Leaves(c, held) PROVE RequestsCounted'
  BY <1>1 DEF Leaves, RequestsCounted, Idle, TypeOK
<1>2. ASSUME NEW c \in Calls, NEW phase, GoesTo(c, phase), phase \notin {"repair", "charge"},
             calls[c].phase \notin {"repair", "charge"}
      PROVE  RequestsCounted'
  BY <1>2 DEF GoesTo, RequestsCounted, TypeOK, CallRecord
<1>3. ASSUME UNCHANGED calls PROVE RequestsCounted'
  BY <1>3 DEF RequestsCounted
<1>4. ASSUME NEW c \in Calls, NEW held, GivesUp(c, held), calls[c].phase \in {"intent", "apply"}
      PROVE  RequestsCounted'
  BY <1>1, <1>2, <1>4 DEF GivesUp
<1>5. ASSUME NEW c \in Calls, Admit(c) PROVE RequestsCounted'
  BY <1>2, <1>3, <1>5 DEF Admit
<1>6. ASSUME NEW c \in Calls, AcquireHalfOpenProbe(c) PROVE RequestsCounted'
  BY <1>6 DEF AcquireHalfOpenProbe, RequestsCounted, Idle, TypeOK, CallRecord
<1>7. ASSUME NEW c \in Calls, CreateReservationIntent(c) PROVE RequestsCounted'
  BY <1>2, <1>7 DEF CreateReservationIntent
<1>8. ASSUME NEW c \in Calls, TryApplyReservation(c) PROVE RequestsCounted'
  BY <1>2, <1>4, <1>8 DEF TryApplyReservation
<1>9. ASSUME NEW c \in Calls, AdmissionThrows(c) PROVE RequestsCounted'
  BY <1>4, <1>9 DEF AdmissionThrows
<1>10. ASSUME NEW c \in Calls, SendRequest(c) PROVE RequestsCounted'
  BY <1>10, CapacityAssumption DEF SendRequest, Repairs, RequestsCounted, TypeOK, CallRecord
<1>11. ASSUME NEW c \in Calls, ReconcileReservation(c) PROVE RequestsCounted'
  BY <1>11 DEF ReconcileReservation, RequestsCounted, TypeOK, CallRecord
<1>12. ASSUME NEW c \in Calls, ReconcileThrows(c) PROVE RequestsCounted'
  <2>1. CASE calls' = [calls EXCEPT ![c].ok = FALSE, ![c].requests = 1]
    BY <1>12, <2>1 DEF ReconcileThrows, RequestsCounted, TypeOK, CallRecord
  <2> QED BY <1>1, <1>12, <2>1 DEF ReconcileThrows
<1>13. ASSUME NEW c \in Calls,
              \/ ReleaseHalfOpenProbe(c) \/ RecordSuccess(c) \/ OpenBreaker(c) \/ CallDies(c)
       PROVE  RequestsCounted'
  BY <1>1, <1>13 DEF ReleaseHalfOpenProbe, RecordSuccess, OpenBreaker, CallDies
<1>14. ASSUME NEW c \in Calls, RecordSuccessThrows(c) PROVE RequestsCounted'
  BY <1>2, <1>14 DEF RecordSuccessThrows
<1>15. ASSUME NEW c \in Calls, CountFailure(c) PROVE RequestsCounted'
  <2>1. CASE calls' = [calls EXCEPT ![c].phase = "open", ![c].counted = breaker.failures + 1]
    BY <1>15, <2>1 DEF CountFailure, RequestsCounted, TypeOK, CallRecord
  <2> QED BY <1>1, <1>15, <2>1 DEF CountFailure
<1>16. ASSUME ProbeLapses \/ ProbeFallsDue PROVE RequestsCounted'
  BY <1>16 DEF ProbeLapses, ProbeFallsDue, RequestsCounted, TypeOK, CallRecord
<1>17. ASSUME NEW ended \in Boundaries, WindowsEnd(ended) PROVE RequestsCounted'
  BY <1>3, <1>17 DEF WindowsEnd
<1> QED
  BY <1>3, <1>5, <1>6, <1>7, <1>8, <1>9, <1>10, <1>11, <1>12, <1>13, <1>14, <1>15, <1>16, <1>17
  DEF Next, CallStep, CleanupExpiredReservations, vars

\* A call that is over, or about to be, and reservations of others that are kept or expire.
LEMMA UsedKept ==
  ASSUME UsedIsSent,
         \A c \in Calls :
           \/ /\ calls'[c].phase = calls[c].phase /\ calls'[c].requests = calls[c].requests
              /\ reservations'[c].used = reservations[c].used
              /\ reservations'[c].applied = reservations[c].applied
              /\ reservations[c].state = "free" => reservations'[c].state = "free"
           \/ calls'[c].phase \notin {"acquire", "intent", "apply", "send", "repair", "charge"}
  PROVE  UsedIsSent'
BY DEF UsedIsSent

LEMMA UsedStep ==
  ASSUME TypeOK, RequestsCounted, UsedIsSent, [Next]_vars
  PROVE  UsedIsSent'
<1>1. ASSUME NEW c \in Calls, NEW held, Leaves(c, held) PROVE UsedIsSent'
  <2>1. \A d \in Calls \ {c} : calls'[d] = calls[d] /\ reservations'[d] = reservations[d]
    BY <1>1 DEF Leaves, TypeOK
  <2>2. calls'[c].phase = "idle"
    BY <1>1 DEF Leaves, Idle, TypeOK
  <2> QED BY <2>1, <2>2, UsedKept
<1>2. ASSUME NEW c \in Calls, NEW held, GivesUp(c, held) PROVE UsedIsSent'
  <2>1. CASE GoesTo(c, "release") /\ reservations' = [reservations EXCEPT ![c] = held]
    <3>1. \A d \in Calls \ {c} : calls'[d] = calls[d] /\ reservations'[d] = reservations[d]
      BY <2>1 DEF GoesTo, TypeOK
    <3>2. calls'[c].phase = "release"
      BY <2>1 DEF GoesTo, TypeOK, CallRecord
    <3> QED BY <3>1, <3>2, UsedKept
  <2> QED BY <1>1, <1>2, <2>1 DEF GivesUp
<1>3. ASSUME NEW past \in SUBSET Active, ExpireReservations(past)
      PROVE  \A c \in Calls :
               \/ c \notin past /\ reservations'[c] = reservations[c]
               \/ /\ c \in past /\ reservations[c].state = "active"
                  /\ \/ calls[c].phase = "idle"
                     \/ /\ reservations'[c].used = reservations[c].used
                        /\ reservations'[c].applied = reservations[c].applied
  <2> SUFFICES ASSUME NEW c \in past
               PROVE  /\ reservations[c].state = "active"
                      /\ \/ calls[c].phase = "idle"
                         \/ /\ reservations'[c].used = reservations[c].used
                            /\ reservations'[c].applied = reservations[c].applied
    BY <1>3 DEF ExpireReservations
  <2>1. c \in Calls /\ reservations[c].state = "active" /\ reservations'[c] = Expired(c)
    BY <1>3 DEF ExpireReservations, Active
  <2>2. reservations[c] \in ReservationRecord
    BY <2>1 DEF TypeOK
  <2> QED BY <2>1, <2>2 DEF Expired, ReservationRecord
<1>4. ASSUME UNCHANGED <<calls, reservations>> PROVE UsedIsSent'
  BY <1>4 DEF UsedIsSent
<1>5. ASSUME NEW c \in Calls, Admit(c) PROVE UsedIsSent'
  <2>1. PICK past \in SUBSET Active : ExpireReservations(past)
    BY <1>5 DEF Admit
  <2>2. reservations[c].state = "free" /\ calls[c].phase = "idle"
    BY <1>5 DEF Admit
  <2>3. reservations'[c] = reservations[c]
    BY <1>3, <2>1, <2>2
  <2>4. \A d \in Calls \ {c} : calls'[d] = calls[d]
    BY <1>5 DEF Admit, GoesTo, TypeOK
  <2>5. calls'[c].phase \in {"idle", "acquire", "intent"}
    BY <1>5, <2>2 DEF Admit, GoesTo, TypeOK, CallRecord
  <2>6. ASSUME NEW d \in Calls \ {c}
        PROVE  \/ /\ calls'[d] = calls[d] /\ reservations'[d].used = reservations[d].used
                  /\ reservations'[d].applied = reservations[d].applied
                  /\ reservations[d].state = "free" => reservations'[d].state = "free"
               \/ calls'[d].phase = "idle"
    BY <1>3, <2>1, <2>4
  <2> QED BY <2>2, <2>3, <2>5, <2>6 DEF UsedIsSent
<1>6. ASSUME NEW c \in Calls, AcquireHalfOpenProbe(c) PROVE UsedIsSent'
  <2>1. UNCHANGED reservations /\ calls[c].phase = "acquire"
    BY <1>6 DEF AcquireHalfOpenProbe
  <2>2. \A d \in Calls \ {c} : calls'[d] = calls[d]
    BY <1>6 DEF AcquireHalfOpenProbe, TypeOK
  <2>3. calls'[c].phase \in {"intent", "idle"}
    BY <1>6 DEF AcquireHalfOpenProbe, TypeOK, CallRecord, Idle
  <2> QED BY <2>1, <2>2, <2>3 DEF UsedIsSent
<1>7. ASSUME NEW c \in Calls, CreateReservationIntent(c) PROVE UsedIsSent'
  <2>1. /\ \A d \in Calls \ {c} : calls'[d] = calls[d] /\ reservations'[d] = reservations[d]
        /\ calls'[c].phase = "apply"
    BY <1>7 DEF CreateReservationIntent, GoesTo, TypeOK, CallRecord
  <2>2. ~reservations'[c].applied /\ reservations'[c].used = 0
    BY <1>7 DEF CreateReservationIntent, NoReservation, TypeOK
  <2> QED BY <2>1, <2>2 DEF UsedIsSent
<1>8. ASSUME NEW c \in Calls, TryApplyReservation(c) PROVE UsedIsSent'
  <2>1. CASE /\ reservations' = [reservations EXCEPT ![c].applied = reservations[c].state = "active"]
             /\ GoesTo(c, "send")
    <3>1. /\ \A d \in Calls \ {c} : calls'[d] = calls[d] /\ reservations'[d] = reservations[d]
          /\ calls'[c].phase = "send" /\ calls'[c].requests = calls[c].requests
      BY <2>1 DEF GoesTo, TypeOK, CallRecord
    <3>2. reservations'[c].used = reservations[c].used
      BY <2>1 DEF TypeOK, ReservationRecord
    <3>3. reservations[c].used = 0 /\ calls[c].requests = 0
      BY <1>8 DEF TryApplyReservation, UsedIsSent, RequestsCounted
    <3> QED BY <3>1, <3>2, <3>3 DEF UsedIsSent
  <2> QED BY <1>2, <1>8, <2>1 DEF TryApplyReservation
<1>9. ASSUME NEW c \in Calls, SendRequest(c) PROVE UsedIsSent'
  <2> DEFINE n == calls[c].requests + 1
  <2>1. /\ \A d \in Calls \ {c} : calls'[d] = calls[d] /\ reservations'[d] = reservations[d]
        /\ calls'[c].phase \in {"repair", "charge"}
        /\ calls'[c].requests = n
    BY <1>9 DEF SendRequest, TypeOK, CallRecord
  <2>2. reservations'[c].used = n
    BY <1>9 DEF SendRequest, TypeOK, ReservationRecord
  <2>3. n \in Nat /\ 1 <= n
    BY DEF TypeOK, CallRecord
  <2> HIDE DEF n
  <2> QED BY <2>1, <2>2, <2>3 DEF UsedIsSent
<1>10. ASSUME NEW c \in Calls, ReconcileReservation(c) PROVE UsedIsSent'
  <2>1. \A d \in Calls \ {c} : calls'[d] = calls[d] /\ reservations'[d] = reservations[d]
    BY <1>10 DEF ReconcileReservation, TypeOK
  <2>2. calls'[c].phase \in {"succeed", "count"}
    BY <1>10 DEF ReconcileReservation, TypeOK, CallRecord
  <2> QED BY <2>1, <2>2, UsedKept
<1>11. ASSUME NEW c \in Calls, ReconcileThrows(c) PROVE UsedIsSent'
  <2>1. CASE calls' = [calls EXCEPT ![c].ok = FALSE, ![c].requests = 1] /\ UNCHANGED reservations
    <3>1. /\ \A d \in Calls \ {c} : calls'[d] = calls[d]
          /\ calls'[c].phase = "charge" /\ calls'[c].requests = 1
      BY <1>11, <2>1 DEF ReconcileThrows, TypeOK, CallRecord
    <3>2. 1 <= reservations[c].used
      BY <1>11 DEF ReconcileThrows, UsedIsSent
    <3> QED BY <2>1, <3>1, <3>2 DEF UsedIsSent
  <2> QED BY <1>1, <1>11, <2>1 DEF ReconcileThrows
<1>12. ASSUME NEW c \in Calls, RecordSuccessThrows(c) PROVE UsedIsSent'
  <2>1. /\ \A d \in Calls \ {c} : calls'[d] = calls[d]
        /\ calls'[c].phase = "count" /\ UNCHANGED reservations
    BY <1>12 DEF RecordSuccessThrows, GoesTo, TypeOK, CallRecord
  <2> QED BY <2>1, UsedKept
<1>13. ASSUME NEW c \in Calls, CountFailure(c) PROVE UsedIsSent'
  <2>1. CASE /\ calls' = [calls EXCEPT ![c].phase = "open", ![c].counted = breaker.failures + 1]
             /\ UNCHANGED reservations
    <3>1. /\ \A d \in Calls \ {c} : calls'[d] = calls[d]
          /\ calls'[c].phase = "open"
      BY <2>1 DEF TypeOK, CallRecord
    <3> QED BY <2>1, <3>1, UsedKept
  <2> QED BY <1>1, <1>13, <2>1 DEF CountFailure
<1>14. ASSUME NEW c \in Calls,
              \/ ReleaseHalfOpenProbe(c) \/ RecordSuccess(c) \/ OpenBreaker(c) \/ CallDies(c)
       PROVE  UsedIsSent'
  BY <1>1, <1>14 DEF ReleaseHalfOpenProbe, RecordSuccess, OpenBreaker, CallDies
<1>15. ASSUME NEW c \in Calls, AdmissionThrows(c) PROVE UsedIsSent'
  BY <1>2, <1>15 DEF AdmissionThrows
<1>16. ASSUME CleanupExpiredReservations PROVE UsedIsSent'
  <2>1. PICK past \in SUBSET Active : ExpireReservations(past)
    BY <1>16 DEF CleanupExpiredReservations
  <2>2. UNCHANGED calls
    BY <1>16 DEF CleanupExpiredReservations
  <2>3. \A c \in Calls :
          \/ /\ reservations'[c].used = reservations[c].used
             /\ reservations'[c].applied = reservations[c].applied
             /\ reservations[c].state = "free" => reservations'[c].state = "free"
          \/ calls'[c].phase = "idle"
    BY <1>3, <2>1, <2>2
  <2> QED BY <2>2, <2>3, UsedKept
<1>17. ASSUME ProbeLapses \/ ProbeFallsDue PROVE UsedIsSent'
  <2>1. UNCHANGED reservations
    BY <1>17 DEF ProbeLapses, ProbeFallsDue
  <2>2. \A c \in Calls : calls'[c].phase = calls[c].phase /\ calls'[c].requests = calls[c].requests
    BY <1>17 DEF ProbeLapses, ProbeFallsDue, TypeOK, CallRecord
  <2> QED BY <2>1, <2>2, UsedKept
<1>18. ASSUME NEW ended \in Boundaries, WindowsEnd(ended) PROVE UsedIsSent'
  <2>1. UNCHANGED calls
    BY <1>18 DEF WindowsEnd
  <2>2. \A c \in Calls :
          /\ reservations'[c].state = reservations[c].state
          /\ reservations'[c].applied = reservations[c].applied
          /\ reservations'[c].used = reservations[c].used
    BY <1>18 DEF WindowsEnd, TypeOK, ReservationRecord
  <2> QED BY <2>1, <2>2, UsedKept
<1>19. ASSUME UNCHANGED vars PROVE UsedIsSent'
  BY <1>4, <1>19 DEF vars
<1> QED
  BY <1>5, <1>6, <1>7, <1>8, <1>9, <1>10, <1>11, <1>12, <1>13, <1>14, <1>15, <1>16, <1>17, <1>18,
     <1>19 DEF Next, CallStep

\* No call becomes a probe.
ProbesKept == \A c \in Calls : LiveProbe(c)' => LiveProbe(c)

SameLease ==
  /\ breaker'.state = breaker.state /\ breaker'.owner = breaker.owner
  /\ breaker'.lapsed = breaker.lapsed /\ breaker'.due = breaker.due

LEMMA ProbeStep ==
  ASSUME TypeOK, ProbeIsLeased, [Next]_vars
  PROVE  ProbeIsLeased'
<1>0. \A c \in Calls : c # NoCall
  BY CapacityAssumption
<1>1. ASSUME ProbesKept, SameLease PROVE ProbeIsLeased'
  BY <1>1 DEF ProbesKept, SameLease, ProbeIsLeased
<1>2. ASSUME UNCHANGED breaker PROVE SameLease
  BY <1>2 DEF SameLease
<1>3. ASSUME NEW c \in Calls, NEW held, Leaves(c, held) PROVE ProbesKept /\ ~LiveProbe(c)'
  BY <1>3 DEF Leaves, ProbesKept, LiveProbe, Idle, TypeOK
<1>4. ASSUME NEW c \in Calls, NEW phase, GoesTo(c, phase), calls[c].phase # "release" PROVE ProbesKept
  BY <1>4 DEF GoesTo, ProbesKept, LiveProbe, TypeOK, CallRecord
<1>5. ASSUME UNCHANGED calls PROVE ProbesKept
  BY <1>5 DEF ProbesKept, LiveProbe
<1>6. ASSUME NEW c \in Calls, NEW held, GivesUp(c, held), calls[c].phase \in {"intent", "apply"}
      PROVE  ProbesKept
  BY <1>3, <1>4, <1>6 DEF GivesUp
<1>7. ASSUME NEW c \in Calls, Admit(c) PROVE ProbeIsLeased'
  BY <1>1, <1>2, <1>4, <1>5, <1>7 DEF Admit
<1>8. ASSUME NEW c \in Calls, AcquireHalfOpenProbe(c) PROVE ProbeIsLeased'
  <2>1. CASE /\ breaker.state \in {"open", "half_open"} /\ breaker.due /\ ProbeIsFree
             /\ breaker' = [breaker EXCEPT !.state = "half_open", !.owner = c, !.lapsed = FALSE]
             /\ calls' = [calls EXCEPT ![c].phase = "intent", ![c].probe = TRUE]
    <3>1. \A d \in Calls : ~LiveProbe(d)
      BY <1>0, <2>1 DEF ProbeIsLeased, ProbeIsFree
    <3>2. \A d \in Calls : LiveProbe(d)' => d = c
      BY <2>1, <3>1 DEF LiveProbe, TypeOK
    <3>3. breaker'.state = "half_open" /\ breaker'.owner = c /\ ~breaker'.lapsed
      BY <2>1 DEF TypeOK, BreakerRecord
    <3> QED BY <3>2, <3>3 DEF ProbeIsLeased
  <2>2. CASE calls' = [calls EXCEPT ![c] = Idle] /\ UNCHANGED breaker
    <3>1. ProbesKept
      BY <2>2 DEF ProbesKept, LiveProbe, Idle, TypeOK
    <3> QED BY <1>1, <1>2, <2>2, <3>1
  <2> QED BY <1>8, <2>1, <2>2 DEF AcquireHalfOpenProbe
<1>9. ASSUME NEW c \in Calls, CreateReservationIntent(c) PROVE ProbeIsLeased'
  BY <1>1, <1>2, <1>4, <1>9 DEF CreateReservationIntent
<1>10. ASSUME NEW c \in Calls, TryApplyReservation(c) PROVE ProbeIsLeased'
  BY <1>1, <1>2, <1>4, <1>6, <1>10 DEF TryApplyReservation
<1>11. ASSUME NEW c \in Calls, AdmissionThrows(c) PROVE ProbeIsLeased'
  BY <1>1, <1>2, <1>6, <1>11 DEF AdmissionThrows
<1>12. ASSUME NEW c \in Calls, ReleaseHalfOpenProbe(c) PROVE ProbeIsLeased'
  <2>1. ProbesKept /\ ~LiveProbe(c)'
    BY <1>3, <1>12 DEF ReleaseHalfOpenProbe
  <2>2. CASE breaker.state = "half_open" /\ breaker.owner = c
    <3>1. \A d \in Calls \ {c} : ~LiveProbe(d)
      BY <2>2 DEF ProbeIsLeased
    <3> QED BY <2>1, <3>1 DEF ProbeIsLeased, ProbesKept
  <2>3. CASE ~(breaker.state = "half_open" /\ breaker.owner = c)
    BY <1>1, <1>2, <1>12, <2>1, <2>3 DEF ReleaseHalfOpenProbe
  <2> QED BY <2>2, <2>3
<1>13. ASSUME NEW c \in Calls, SendRequest(c) PROVE ProbeIsLeased'
  <2>1. ProbesKept
    BY <1>13 DEF SendRequest, ProbesKept, LiveProbe, TypeOK, CallRecord
  <2> QED BY <1>1, <1>2, <1>13, <2>1 DEF SendRequest
<1>14. ASSUME NEW c \in Calls, ReconcileReservation(c) PROVE ProbeIsLeased'
  <2>1. ProbesKept
    BY <1>14 DEF ReconcileReservation, ProbesKept, LiveProbe, TypeOK, CallRecord
  <2> QED BY <1>1, <1>2, <1>14, <2>1 DEF ReconcileReservation
<1>15. ASSUME NEW c \in Calls, ReconcileThrows(c) PROVE ProbeIsLeased'
  <2>1. CASE calls' = [calls EXCEPT ![c].ok = FALSE, ![c].requests = 1]
    <3>1. ProbesKept
      BY <2>1 DEF ProbesKept, LiveProbe, TypeOK, CallRecord
    <3> QED BY <1>1, <1>2, <1>15, <3>1 DEF ReconcileThrows
  <2> QED BY <1>1, <1>2, <1>3, <1>15, <2>1 DEF ReconcileThrows
<1>16. ASSUME NEW c \in Calls, RecordSuccess(c) PROVE ProbeIsLeased'
  <2>1. ProbesKept /\ ~LiveProbe(c)'
    BY <1>3, <1>16 DEF RecordSuccess
  <2>2. CASE breaker.state = "closed" \/ (breaker.state = "half_open" /\ breaker.owner = c)
    <3>1. \A d \in Calls \ {c} : ~LiveProbe(d)
      BY <2>2 DEF ProbeIsLeased
    <3> QED BY <2>1, <3>1 DEF ProbeIsLeased, ProbesKept
  <2>3. CASE ~(breaker.state = "closed" \/ (breaker.state = "half_open" /\ breaker.owner = c))
    BY <1>1, <1>2, <1>16, <2>1, <2>3 DEF RecordSuccess
  <2> QED BY <2>2, <2>3
<1>17. ASSUME NEW c \in Calls, RecordSuccessThrows(c) PROVE ProbeIsLeased'
  BY <1>1, <1>2, <1>4, <1>17 DEF RecordSuccessThrows
<1>18. ASSUME NEW c \in Calls, CountFailure(c) PROVE ProbeIsLeased'
  <2>1. SameLease
    BY <1>18 DEF CountFailure, SameLease, TypeOK, BreakerRecord
  <2>2. CASE calls' = [calls EXCEPT ![c].phase = "open", ![c].counted = breaker.failures + 1]
    <3>1. ProbesKept
      BY <1>18, <2>2 DEF CountFailure, ProbesKept, LiveProbe, TypeOK, CallRecord
    <3> QED BY <1>1, <2>1, <3>1
  <2> QED BY <1>1, <1>3, <1>18, <2>1, <2>2 DEF CountFailure
<1>19. ASSUME NEW c \in Calls, OpenBreaker(c) PROVE ProbeIsLeased'
  <2>1. ProbesKept
    BY <1>3, <1>19 DEF OpenBreaker
  <2>2. CASE breaker.failures = calls[c].counted
    <3>1. breaker'.state = "open" /\ breaker'.owner = NoCall /\ ~breaker'.due
      BY <1>19, <2>2 DEF OpenBreaker, TypeOK, BreakerRecord
    <3> QED BY <2>1, <3>1 DEF ProbeIsLeased, ProbesKept
  <2>3. CASE breaker.failures # calls[c].counted
    BY <1>1, <1>2, <1>19, <2>1, <2>3 DEF OpenBreaker
  <2> QED BY <2>2, <2>3
<1>20. ASSUME NEW c \in Calls, CallDies(c) PROVE ProbeIsLeased'
  <2>1. SameLease
    BY <1>20 DEF CallDies, SameLease, TypeOK, BreakerRecord
  <2> QED BY <1>1, <1>3, <1>20, <2>1 DEF CallDies
<1>21. ASSUME ProbeLapses \/ ProbeFallsDue PROVE ProbeIsLeased'
  <2>1. \A c \in Calls : ~LiveProbe(c)'
    BY <1>21 DEF ProbeLapses, ProbeFallsDue, LiveProbe, TypeOK, CallRecord
  <2> QED BY <2>1 DEF ProbeIsLeased
<1>22. ASSUME UNCHANGED <<breaker, calls>> PROVE ProbeIsLeased'
  BY <1>1, <1>2, <1>5, <1>22
<1> QED
  BY <1>7, <1>8, <1>9, <1>10, <1>11, <1>12, <1>13, <1>14, <1>15, <1>16, <1>17, <1>18, <1>19,
     <1>20, <1>21, <1>22
  DEF Next, CallStep, CleanupExpiredReservations, WindowsEnd, vars

\* Who is about to open the breaker stays so.
AboutToOpen(c) == calls[c].phase = "open" /\ calls[c].counted = breaker.failures

LEMMA ThresholdStep ==
  ASSUME TypeOK, OpensAtThreshold, [Next]_vars
  PROVE  OpensAtThreshold'
<1>1. ASSUME breaker'.state = breaker.state, breaker'.failures = breaker.failures,
             breaker.missed => breaker'.missed,
             \A c \in Calls : AboutToOpen(c) => AboutToOpen(c)' \/ breaker'.missed
      PROVE  OpensAtThreshold'
  BY <1>1 DEF OpensAtThreshold, AboutToOpen
<1>2. ASSUME UNCHANGED breaker, NEW c \in Calls, calls[c].phase # "open",
             \A d \in Calls \ {c} : calls'[d] = calls[d]
      PROVE  OpensAtThreshold'
  BY <1>1, <1>2 DEF AboutToOpen
<1>3. ASSUME NEW c \in Calls, NEW held, Leaves(c, held) \/ GivesUp(c, held)
      PROVE  \A d \in Calls \ {c} : calls'[d] = calls[d]
  BY <1>3 DEF Leaves, GivesUp, GoesTo, TypeOK
<1>4. ASSUME NEW c \in Calls,
             \/ Admit(c) \/ CreateReservationIntent(c) \/ TryApplyReservation(c)
             \/ AdmissionThrows(c) \/ RecordSuccessThrows(c)
      PROVE  OpensAtThreshold'
  <2>1. \A d \in Calls \ {c} : calls'[d] = calls[d]
    BY <1>3, <1>4 DEF Admit, CreateReservationIntent, TryApplyReservation, AdmissionThrows,
       RecordSuccessThrows, GoesTo, TypeOK
  <2> QED BY <1>2, <1>4, <2>1 DEF Admit, CreateReservationIntent, TryApplyReservation,
       AdmissionThrows, RecordSuccessThrows
<1>5. ASSUME NEW c \in Calls, SendRequest(c) \/ ReconcileReservation(c) \/ ReconcileThrows(c)
      PROVE  OpensAtThreshold'
  <2>1. \A d \in Calls \ {c} : calls'[d] = calls[d]
    BY <1>3, <1>5 DEF SendRequest, ReconcileReservation, ReconcileThrows, TypeOK
  <2> QED BY <1>2, <1>5, <2>1 DEF SendRequest, ReconcileReservation, ReconcileThrows
<1>6. ASSUME NEW c \in Calls, AcquireHalfOpenProbe(c) PROVE OpensAtThreshold'
  <2>1. CASE breaker' = [breaker EXCEPT !.state = "half_open", !.owner = c, !.lapsed = FALSE]
    BY <2>1 DEF OpensAtThreshold, TypeOK, BreakerRecord
  <2>2. CASE calls' = [calls EXCEPT ![c] = Idle] /\ UNCHANGED breaker
    BY <1>2, <1>6, <2>2 DEF AcquireHalfOpenProbe, TypeOK
  <2> QED BY <1>6, <2>1, <2>2 DEF AcquireHalfOpenProbe
<1>7. ASSUME NEW c \in Calls, ReleaseHalfOpenProbe(c) PROVE OpensAtThreshold'
  <2>1. CASE breaker.state = "half_open" /\ breaker.owner = c
    BY <1>7, <2>1 DEF ReleaseHalfOpenProbe, OpensAtThreshold, TypeOK, BreakerRecord
  <2>2. CASE ~(breaker.state = "half_open" /\ breaker.owner = c)
    BY <1>2, <1>3, <1>7, <2>2 DEF ReleaseHalfOpenProbe
  <2> QED BY <2>1, <2>2
<1>8. ASSUME NEW c \in Calls, RecordSuccess(c) PROVE OpensAtThreshold'
  <2>1. CASE breaker' = Closed
    BY <2>1, CapacityAssumption DEF Closed, OpensAtThreshold
  <2>2. CASE UNCHANGED breaker
    BY <1>2, <1>3, <1>8, <2>2 DEF RecordSuccess
  <2> QED BY <1>8, <2>1, <2>2 DEF RecordSuccess
<1>9. ASSUME NEW c \in Calls, CountFailure(c) PROVE OpensAtThreshold'
  <2>1. breaker'.failures = breaker.failures + 1
    BY <1>9 DEF CountFailure, TypeOK, BreakerRecord
  <2>2. CASE breaker.failures + 1 < Threshold
    BY <2>1, <2>2, CapacityAssumption DEF OpensAtThreshold, TypeOK, BreakerRecord
  <2>3. CASE ~(breaker.failures + 1 < Threshold)
    <3>1. calls'[c].phase = "open" /\ calls'[c].counted = breaker.failures + 1
      BY <1>9, <2>3 DEF CountFailure, TypeOK, CallRecord
    <3> QED BY <2>1, <3>1 DEF OpensAtThreshold
  <2> QED BY <2>2, <2>3
<1>10. ASSUME NEW c \in Calls, OpenBreaker(c) PROVE OpensAtThreshold'
  <2>1. CASE breaker.failures = calls[c].counted
    BY <1>10, <2>1 DEF OpenBreaker, OpensAtThreshold, TypeOK, BreakerRecord
  <2>2. CASE breaker.failures # calls[c].counted
    BY <1>1, <1>3, <1>10, <2>2 DEF OpenBreaker, AboutToOpen
  <2> QED BY <2>1, <2>2
<1>11. ASSUME NEW c \in Calls, CallDies(c) PROVE OpensAtThreshold'
  <2>1. breaker' = [breaker EXCEPT !.missed = @ \/ calls[c].phase = "open"] /\ breaker \in BreakerRecord
    BY <1>11 DEF CallDies, TypeOK
  <2>2. /\ breaker'.state = breaker.state /\ breaker'.failures = breaker.failures
        /\ breaker.missed => breaker'.missed
        /\ calls[c].phase = "open" => breaker'.missed
    BY <2>1 DEF BreakerRecord
  <2> QED BY <1>1, <1>3, <1>11, <2>2 DEF CallDies, AboutToOpen
<1>12. ASSUME ProbeLapses \/ ProbeFallsDue PROVE OpensAtThreshold'
  <2>1. /\ breaker'.state = breaker.state /\ breaker'.failures = breaker.failures
        /\ breaker'.missed = breaker.missed
    BY <1>12 DEF ProbeLapses, ProbeFallsDue, TypeOK, BreakerRecord
  <2>2. \A c \in Calls : calls'[c].phase = calls[c].phase /\ calls'[c].counted = calls[c].counted
    BY <1>12 DEF ProbeLapses, ProbeFallsDue, TypeOK, CallRecord
  <2> QED BY <1>1, <2>1, <2>2 DEF AboutToOpen
<1>13. ASSUME UNCHANGED <<breaker, calls>> PROVE OpensAtThreshold'
  BY <1>13 DEF OpensAtThreshold
<1> QED
  BY <1>4, <1>5, <1>6, <1>7, <1>8, <1>9, <1>10, <1>11, <1>12, <1>13
  DEF Next, CallStep, CleanupExpiredReservations, WindowsEnd, vars

-----------------------------------------------------------------------------
(* The invariant and what follows from it.                                 *)

LEMMA InitInv == Init => IInv
<1> SUFFICES ASSUME Init PROVE IInv
  OBVIOUS
<1>1. TypeOK
  BY Records, CapacityAssumption DEF Init, TypeOK, ReservationRecord, CallRecord
<1>2. \A w \in Windows : windows[w].reserved = 0 /\ windows[w].consumed = 0 /\ Limit[w] \in Nat
  BY CapacityAssumption DEF Init
<1>3. \A w \in Windows : Holders(w) = {}
  BY DEF Init, Holders, NoReservation
<1>4. NotOverdrawn
  BY <1>1, <1>2 DEF NotOverdrawn
<1>5. HeldIsReserved
  <2>1. Reserve * 0 = 0
    BY CapacityAssumption
  <2>2. \A w \in Windows : Cardinality(Holders(w)) = 0
    BY <1>3, FS_EmptySet
  <2> QED BY <1>2, <2>1, <2>2 DEF HeldIsReserved
<1>6. RequestsCounted /\ ProbeIsLeased
  BY DEF Init, Idle, RequestsCounted, ProbeIsLeased, LiveProbe
<1>7. OpensAtThreshold
  BY CapacityAssumption DEF Init, Closed, OpensAtThreshold
<1>8. UsedIsSent
  BY DEF Init, Idle, UsedIsSent
<1>9. ChargedExactlyOnce
  <2>1. \A w \in Windows : InFlight(w) = {}
    BY <1>3 DEF InFlight
  <2>2. \A w \in Windows : Cardinality(InFlight(w)) = 0
    BY <2>1, FS_EmptySet
  <2>3. \A w \in Windows : sent[w] = 0
    BY DEF Init
  <2> QED BY <1>2, <2>2, <2>3 DEF ChargedExactlyOnce
<1> QED BY <1>4, <1>5, <1>6, <1>7, <1>8, <1>9 DEF IInv

LEMMA NextInv == IInv /\ [Next]_vars => IInv'
<1> SUFFICES ASSUME IInv, [Next]_vars PROVE IInv'
  OBVIOUS
<1>1. TypeOK
  BY DEF IInv, NotOverdrawn
<1>2. TypeOK'
  BY <1>1, TypeStep DEF IInv
<1>3. ASSUME NEW w \in Windows
      PROVE  /\ windows'[w].reserved + windows'[w].consumed <= Limit[w]
             /\ windows'[w].reserved >= Reserve * Cardinality(Holders(w)')
  <2>1. WindowStep(w)
    BY <1>1, WindowSteps DEF IInv
  <2>2. windows'[w] \in [reserved : Nat, consumed : Nat]
    BY <1>2 DEF TypeOK
  <2> QED BY <1>1, <2>1, <2>2, WindowSafe DEF IInv, NotOverdrawn, HeldIsReserved
<1>4. NotOverdrawn'
  BY <1>2, <1>3 DEF NotOverdrawn
<1>5. HeldIsReserved'
  BY <1>3 DEF HeldIsReserved
<1>6. RequestsCounted' /\ ProbeIsLeased' /\ OpensAtThreshold'
  BY <1>1, RequestsStep, ProbeStep, ThresholdStep DEF IInv
<1>7. UsedIsSent'
  BY <1>1, UsedStep DEF IInv
<1>8. ChargedExactlyOnce'
  <2>1. ASSUME NEW w \in Windows, w \notin uncharged'
        PROVE  windows'[w].consumed + Cardinality(InFlight(w)') = sent'[w]
    <3>1. FlightStep(w)
      BY <1>1, FlightSteps DEF IInv
    <3>2. w \notin uncharged => windows[w].consumed + Cardinality(InFlight(w)) = sent[w]
      BY DEF IInv, ChargedExactlyOnce
    <3> QED BY <1>1, <2>1, <3>1, <3>2, FlightSafe
  <2> QED BY <2>1 DEF ChargedExactlyOnce
<1> QED BY <1>4, <1>5, <1>6, <1>7, <1>8 DEF IInv

\* The inductive invariant holds in every reachable state, for any number of
\* calls, windows and limits.
THEOREM Invariance == Spec => []IInv
BY InitInv, NextInv, PTL DEF Spec

\* No quota window is ever overdrawn (tryApplyReservation and
\* reconcileReservation of ai-capacity.repository.ts).
THEOREM NeverOverdrawn == Spec => []NotOverdrawn
<1>1. IInv => NotOverdrawn
  BY DEF IInv
<1> QED BY <1>1, Invariance, PTL

\* What is reserved in a window covers the reservations that hold it.
THEOREM ReservedCoversHeld == Spec => []HeldIsReserved
<1>1. IInv => HeldIsReserved
  BY DEF IInv
<1> QED BY <1>1, Invariance, PTL

\* What was sent is charged exactly once: what a window has consumed and what its running
\* calls have used is what it let through, unless a reservation ran out or its usage was
\* lost with a failed statement (reconcileReservation, expireReservations).
THEOREM EachChargedOnce == Spec => []ChargedExactlyOnce
<1>1. IInv => ChargedExactlyOnce
  BY DEF IInv
<1> QED BY <1>1, Invariance, PTL

\* The breaker lends out one probe at a time (acquireHalfOpenProbe).
THEOREM OneProbeAtATime == Spec => []OneProbe
<1>1. IInv => OneProbe
  <2> SUFFICES ASSUME IInv PROVE OneProbe
    OBVIOUS
  <2> DEFINE Probes == {c \in Calls : calls[c].probe /\ ~calls[c].late /\ calls[c].phase # "release"}
  <2>1. \A c, d \in Probes : c = d
    BY DEF IInv, ProbeIsLeased, LiveProbe
  <2>2. Probes = {} \/ \E c \in Probes : Probes = {c}
    BY <2>1
  <2>3. Cardinality({}) = 0 /\ \A c : Cardinality({c}) = 1
    BY FS_EmptySet, FS_Singleton
  <2>4. Cardinality(Probes) = 0 \/ Cardinality(Probes) = 1
    BY <2>2, <2>3
  <2> QED BY <2>4 DEF OneProbe
<1> QED BY <1>1, Invariance, PTL

\* Enough failures in a row open the breaker (the two statements of recordFailure).
THEOREM FailuresOpenBreaker == Spec => []OpensAtThreshold
<1>1. IInv => OpensAtThreshold
  BY DEF IInv
<1> QED BY <1>1, Invariance, PTL
=============================================================================
