------------------------------ MODULE AiCapacity ------------------------------
(***************************************************************************)
(* The zero-cost guard in front of one hosted AI provider and operation:   *)
(* what AiProviderRegistry.runWithCapacity, AiCapacityService and the two  *)
(* repositories behind it do to the quota windows, the reservations and    *)
(* the circuit breaker (apps/worker-api/src/jobs/ai).                      *)
(*                                                                         *)
(* A call first reserves the most requests it may send in every quota      *)
(* window of its provider, then sends one request and, when the answer is  *)
(* malformed, one repair request, then replaces its reservation by what it *)
(* sent and tells the breaker how it ended. Each statement or batch of D1  *)
(* is one action, so that calls interleave between any two of them, and a  *)
(* call may die between any two. Nothing ends a slow call, while its       *)
(* reservation and its probe lease run out.                                *)
(*                                                                         *)
(* Quota is counted in requests. The three other units of a window take    *)
(* the same path, except that what they reconcile to is not capped by what *)
(* was reserved. Rows of past windows are never read again, so a window    *)
(* stands for its current row.                                             *)
(***************************************************************************)
EXTENDS Integers, FiniteSets

CONSTANTS
  Calls,        \* calls of the provider, each with a reservation of its own
  NoCall,       \* no call: the NULL of probe_lease_owner
  Windows,      \* quota windows of the provider (minute, day)
  Limit,        \* requests each window allows
  Boundaries,   \* windows that end together: the minute, or the day with it
  Reserve,      \* requests a call reserves: the first and its repair
  Threshold,    \* CIRCUIT_BREAKER_FAILURE_THRESHOLD
  MaxFailures   \* bound on the failures counted in a row

ASSUME CapacityAssumption ==
  /\ IsFiniteSet(Calls)
  /\ NoCall \notin Calls
  /\ Limit \in [Windows -> Nat]
  /\ Boundaries \subseteq SUBSET Windows
  /\ Reserve \in Nat \ {0}
  /\ Threshold \in Nat \ {0}
  /\ MaxFailures \in Nat

VARIABLES
  windows,       \* ai_capacity_windows: reserved and consumed requests
  reservations,  \* ai_capacity_reservations, by the call that made them
  breaker,       \* ai_circuit_breakers: the row of the provider
  calls,         \* where each call stands
  sent,          \* history: requests sent by the calls a window admitted
  uncharged      \* history: windows that miss a request that was sent

vars == <<windows, reservations, breaker, calls, sent, uncharged>>

-----------------------------------------------------------------------------
(* Records *)

\* "free" is no row, or a row nobody will read again.
NoReservation ==
  [state |-> "free", applied |-> FALSE, keys |-> {}, used |-> 0]

ReservationRecord ==
  [state : {"free", "active", "expired"}, applied : BOOLEAN,
   keys : SUBSET Windows, used : 0..Reserve]

\* missed: history, a failure that reached the threshold never opened it.
Closed ==
  [state |-> "closed", failures |-> 0, due |-> FALSE,
   owner |-> NoCall, lapsed |-> FALSE, missed |-> FALSE]

BreakerRecord ==
  [state : {"closed", "open", "half_open"}, failures : 0..MaxFailures,
   due : BOOLEAN, owner : Calls \cup {NoCall}, lapsed : BOOLEAN, missed : BOOLEAN]

\* late: history, the time a probe lease lasts has passed for this call.
\* ok and requests are what the provider's answer came to, counted what
\* recordFailure read back.
Idle ==
  [phase |-> "idle", probe |-> FALSE, late |-> FALSE,
   ok |-> FALSE, requests |-> 0, counted |-> 0]

CallRecord ==
  [phase : {"idle", "acquire", "intent", "apply", "release", "send", "repair",
            "charge", "succeed", "count", "open"},
   probe : BOOLEAN, late : BOOLEAN, ok : BOOLEAN,
   requests : 0..Reserve, counted : 0..MaxFailures]

Init ==
  /\ windows = [w \in Windows |-> [reserved |-> 0, consumed |-> 0]]
  /\ reservations = [c \in Calls |-> NoReservation]
  /\ breaker = Closed
  /\ calls = [c \in Calls |-> Idle]
  /\ sent = [w \in Windows |-> 0]
  /\ uncharged = {}

-----------------------------------------------------------------------------
(* Helpers *)

\* The reservations whose requests are in window w's reserved column.
Holders(w) ==
  {c \in Calls : /\ reservations[c].state = "active"
                 /\ reservations[c].applied
                 /\ w \in reservations[c].keys}

Active == {c \in Calls : reservations[c].state = "active"}

\* MAX(0, n - m)
Without(n, m) == IF n > m THEN n - m ELSE 0

GoesTo(c, phase) == calls' = [calls EXCEPT ![c].phase = phase]

\* The call is over. Its reservation, when nobody can act on it any more,
\* is forgotten.
Leaves(c, held) ==
  /\ calls' = [calls EXCEPT ![c] = Idle]
  /\ reservations' =
       [reservations EXCEPT ![c] = IF held.state = "active" THEN held ELSE NoReservation]

\* The row an expiry leaves: a call still running keeps the keys of its row,
\* since the requests it has yet to send were admitted by those windows.
Expired(c) ==
  IF calls[c].phase = "idle" THEN NoReservation
  ELSE [reservations[c] EXCEPT !.state = "expired"]

\* expireReservations finds the rows past their expires_at, two minutes after
\* the intent: any of the active ones, as nothing else looks at the time.
\* A reservation that runs out gives back all it holds, whatever was sent
\* under it.
ExpireReservations(past) ==
  /\ windows' = [w \in Windows |->
       [windows[w] EXCEPT
          !.reserved = Without(@, Reserve * Cardinality(Holders(w) \cap past))]]
  /\ reservations' =
       [c \in Calls |-> IF c \in past THEN Expired(c) ELSE reservations[c]]
  /\ uncharged' = uncharged \cup
       UNION {reservations[c].keys : c \in {d \in past : reservations[d].used > 0}}

-----------------------------------------------------------------------------
(* AiCapacityService.admit *)

\* The call returns what ran out, then reads the breaker. A call the breaker
\* refuses ends with PROVIDER_UNAVAILABLE.
Admit(c) ==
  /\ calls[c].phase = "idle"
  /\ reservations[c].state = "free"
  /\ \E past \in SUBSET Active : ExpireReservations(past)
  /\ \/ breaker.state = "closed" /\ GoesTo(c, "intent")
     \/ breaker.state # "closed" /\ breaker.due /\ GoesTo(c, "acquire")
     \/ breaker.state # "closed" /\ ~breaker.due /\ UNCHANGED calls
  /\ UNCHANGED <<breaker, sent>>

\* Faulty variant: whoever finds the probe due takes it.
ProbeIsAlwaysFree == breaker.state \in {"open", "half_open"}

\* The condition of acquireHalfOpenProbe's UPDATE.
ProbeIsFree == breaker.owner = NoCall \/ breaker.lapsed

AcquireHalfOpenProbe(c) ==
  /\ calls[c].phase = "acquire"
  /\ \/ /\ breaker.state \in {"open", "half_open"} /\ breaker.due /\ ProbeIsFree
        /\ breaker' = [breaker EXCEPT !.state = "half_open", !.owner = c, !.lapsed = FALSE]
        /\ calls' = [calls EXCEPT ![c].phase = "intent", ![c].probe = TRUE]
     \/ /\ ~(breaker.state \in {"open", "half_open"} /\ breaker.due /\ ProbeIsFree)
        /\ calls' = [calls EXCEPT ![c] = Idle]
        /\ UNCHANGED breaker
  /\ UNCHANGED <<windows, reservations, sent, uncharged>>

\* The row is written before the windows are asked.
CreateReservationIntent(c) ==
  /\ calls[c].phase = "intent"
  /\ reservations' =
       [reservations EXCEPT ![c] = [NoReservation EXCEPT !.state = "active", !.keys = Windows]]
  /\ GoesTo(c, "apply")
  /\ UNCHANGED <<windows, breaker, sent, uncharged>>

\* Faulty variant: what other calls have reserved is not looked at.
FitsConsumed(w) == windows[w].consumed + Reserve <= Limit[w]

Fits(w) == windows[w].reserved + windows[w].consumed + Reserve <= Limit[w]

\* What a call that is refused, or whose admission throws, does next.
GivesUp(c, held) ==
  \/ /\ calls[c].probe
     /\ GoesTo(c, "release")
     /\ reservations' = [reservations EXCEPT ![c] = held]
  \/ /\ ~calls[c].probe
     /\ Leaves(c, held)

\* One statement reserves in every window or in none. It does not look at
\* the reservation: an intent that ran out before is not marked as applied,
\* and what it reserved is never given back.
TryApplyReservation(c) ==
  /\ calls[c].phase = "apply"
  /\ \/ /\ \A w \in Windows : Fits(w)
        /\ windows' = [w \in Windows |-> [windows[w] EXCEPT !.reserved = @ + Reserve]]
        /\ reservations' =
             [reservations EXCEPT ![c].applied = reservations[c].state = "active"]
        /\ GoesTo(c, "send")
     \/ /\ \E w \in Windows : ~Fits(w)
        /\ GivesUp(c, NoReservation)
        /\ UNCHANGED windows
  /\ UNCHANGED <<breaker, sent, uncharged>>

\* A statement of the admission throws: the intent, if it is there, stays.
AdmissionThrows(c) ==
  /\ calls[c].phase \in {"intent", "apply"}
  /\ GivesUp(c, reservations[c])
  /\ UNCHANGED <<windows, breaker, sent, uncharged>>

ReleaseHalfOpenProbe(c) ==
  /\ calls[c].phase = "release"
  /\ breaker' = IF breaker.state = "half_open" /\ breaker.owner = c
                THEN [breaker EXCEPT !.state = "open", !.owner = NoCall, !.lapsed = FALSE]
                ELSE breaker
  /\ Leaves(c, reservations[c])
  /\ UNCHANGED <<windows, sent, uncharged>>

-----------------------------------------------------------------------------
(* The adapters' callAi *)

\* A malformed answer is repaired once: attempt = 1.
Repairs(c) == calls[c].phase = "send" /\ Reserve > 1

\* A request goes out and its answer comes in: accepted, malformed, which the
\* first time asks for a repair, or an error.
SendRequest(c) ==
  /\ calls[c].phase \in {"send", "repair"}
  /\ LET r == reservations[c]
         n == calls[c].requests + 1
     IN /\ \E answer \in {"accepted", "malformed", "error"} :
             calls' = [calls EXCEPT
               ![c].requests = n,
               ![c].ok = answer = "accepted",
               ![c].phase = IF answer = "malformed" /\ Repairs(c)
                            THEN "repair" ELSE "charge"]
        /\ reservations' = [reservations EXCEPT ![c].used = n]
        /\ sent' = [w \in Windows |->
             IF w \in r.keys \ uncharged THEN sent[w] + 1 ELSE sent[w]]
        /\ uncharged' = IF r.state = "active" /\ r.applied THEN uncharged
                        ELSE uncharged \cup r.keys
  /\ UNCHANGED <<windows, breaker>>

-----------------------------------------------------------------------------
(* completeSuccess and completeFailure *)

\* Faulty variant: the reservation is given back though it ran out before.
ChargesAnyway(c) ==
  windows' = [w \in Windows |->
    IF w \notin reservations[c].keys THEN windows[w]
    ELSE [reserved |-> Without(windows[w].reserved, Reserve),
          consumed |-> windows[w].consumed + calls[c].requests]]

\* Faulty variant: a call is charged as one request, repaired or not.
ChargesOneRequest(c) ==
  IF reservations[c].state = "active" /\ reservations[c].applied
  THEN windows' = [w \in Windows |->
         IF w \notin reservations[c].keys THEN windows[w]
         ELSE [reserved |-> Without(windows[w].reserved, Reserve),
               consumed |-> windows[w].consumed + 1]]
  ELSE UNCHANGED windows

\* reconcileReservation: the requests reported replace the ones reserved, as
\* long as the reservation is still there.
Charges(c) ==
  IF reservations[c].state = "active" /\ reservations[c].applied
  THEN windows' = [w \in Windows |->
         IF w \notin reservations[c].keys THEN windows[w]
         ELSE [reserved |-> Without(windows[w].reserved, Reserve),
               consumed |-> windows[w].consumed + calls[c].requests]]
  ELSE UNCHANGED windows

ReconcileReservation(c) ==
  /\ calls[c].phase = "charge"
  /\ Charges(c)
  /\ reservations' =
       [reservations EXCEPT ![c] = IF @.applied THEN NoReservation ELSE @]
  /\ uncharged' = IF /\ reservations[c].state = "active"
                     /\ calls[c].requests < reservations[c].used
                  THEN uncharged \cup reservations[c].keys ELSE uncharged
  /\ calls' = [calls EXCEPT ![c].phase = IF calls[c].ok THEN "succeed" ELSE "count",
                            ![c].ok = FALSE, ![c].requests = 0]
  /\ UNCHANGED <<breaker, sent>>

\* The statement throws. completeSuccess runs inside the try block, so its
\* failure goes through completeFailure, with an error that reports no usage:
\* one request is charged. A failure of completeFailure ends the call.
ReconcileThrows(c) ==
  /\ calls[c].phase = "charge"
  /\ \/ /\ calls[c].ok
        /\ calls' = [calls EXCEPT ![c].ok = FALSE, ![c].requests = 1]
        /\ UNCHANGED reservations
     \/ /\ ~calls[c].ok
        /\ Leaves(c, reservations[c])
  /\ UNCHANGED <<windows, breaker, sent, uncharged>>

RecordSuccess(c) ==
  /\ calls[c].phase = "succeed"
  /\ breaker' = IF \/ breaker.state = "closed"
                   \/ /\ breaker.state = "half_open" /\ breaker.owner = c
                      /\ calls[c].probe /\ ~breaker.lapsed
                THEN Closed ELSE breaker
  /\ Leaves(c, reservations[c])
  /\ UNCHANGED <<windows, sent, uncharged>>

\* The success of the provider is then recorded as a failure: the reservation
\* is reconciled already, so only the breaker hears of it.
RecordSuccessThrows(c) ==
  /\ calls[c].phase = "succeed"
  /\ GoesTo(c, "count")
  /\ UNCHANGED <<windows, reservations, breaker, sent, uncharged>>

\* recordFailure, first statement: the failure is counted, whoever it is of.
CountFailure(c) ==
  /\ calls[c].phase = "count"
  /\ breaker.failures < MaxFailures
  /\ breaker' = [breaker EXCEPT !.failures = @ + 1]
  /\ IF breaker.failures + 1 < Threshold
     THEN Leaves(c, reservations[c])
     ELSE /\ calls' = [calls EXCEPT ![c].phase = "open", ![c].counted = breaker.failures + 1]
          /\ UNCHANGED reservations
  /\ UNCHANGED <<windows, sent, uncharged>>

\* Faulty variant: only the failure that is the threshold's opens the breaker.
OpenBreakerAtThreshold(c) ==
  /\ calls[c].phase = "open"
  /\ breaker' = IF breaker.failures = Threshold /\ calls[c].counted = Threshold
                THEN [breaker EXCEPT !.state = "open", !.due = FALSE, !.owner = NoCall,
                                     !.lapsed = FALSE, !.missed = FALSE]
                ELSE breaker
  /\ Leaves(c, reservations[c])
  /\ UNCHANGED <<windows, sent, uncharged>>

\* recordFailure, second statement: the breaker opens if nobody counted since.
OpenBreaker(c) ==
  /\ calls[c].phase = "open"
  /\ breaker' = IF breaker.failures = calls[c].counted
                THEN [breaker EXCEPT !.state = "open", !.due = FALSE, !.owner = NoCall,
                                     !.lapsed = FALSE, !.missed = FALSE]
                ELSE breaker
  /\ Leaves(c, reservations[c])
  /\ UNCHANGED <<windows, sent, uncharged>>

-----------------------------------------------------------------------------
(* The scheduled handler, the clock and the death of a call *)

CleanupExpiredReservations ==
  /\ \E past \in SUBSET Active \ {{}} : ExpireReservations(past)
  /\ UNCHANGED <<breaker, calls, sent>>

\* probe_lease_expires_at, one minute after the acquisition.
ProbeLapses ==
  /\ breaker.owner # NoCall /\ ~breaker.lapsed
  /\ breaker' = [breaker EXCEPT !.lapsed = TRUE]
  /\ calls' = [c \in Calls |->
       IF calls[c].probe THEN [calls[c] EXCEPT !.late = TRUE] ELSE calls[c]]
  /\ UNCHANGED <<windows, reservations, sent, uncharged>>

\* next_probe_at, five minutes or more after the breaker opened: longer than
\* any probe lease given before.
ProbeFallsDue ==
  /\ breaker.state # "closed" /\ ~breaker.due
  /\ breaker' = [breaker EXCEPT !.due = TRUE]
  /\ calls' = [c \in Calls |->
       IF calls[c].probe THEN [calls[c] EXCEPT !.late = TRUE] ELSE calls[c]]
  /\ UNCHANGED <<windows, reservations, sent, uncharged>>

\* New windows begin: their rows start empty, and the keys of reservations
\* made before name the rows of the windows that ended.
WindowsEnd(ended) ==
  /\ windows' = [w \in Windows |->
       IF w \in ended THEN [reserved |-> 0, consumed |-> 0] ELSE windows[w]]
  /\ reservations' = [c \in Calls |-> [reservations[c] EXCEPT !.keys = @ \ ended]]
  /\ sent' = [w \in Windows |-> IF w \in ended THEN 0 ELSE sent[w]]
  /\ uncharged' = uncharged \ ended
  /\ UNCHANGED <<breaker, calls>>

\* The Worker that runs the call is evicted.
CallDies(c) ==
  /\ calls[c].phase # "idle"
  /\ breaker' = [breaker EXCEPT !.missed = @ \/ calls[c].phase = "open"]
  /\ Leaves(c, reservations[c])
  /\ UNCHANGED <<windows, sent, uncharged>>

CallStep(c) ==
  \/ Admit(c) \/ AcquireHalfOpenProbe(c) \/ CreateReservationIntent(c)
  \/ TryApplyReservation(c) \/ AdmissionThrows(c) \/ ReleaseHalfOpenProbe(c)
  \/ SendRequest(c) \/ ReconcileReservation(c) \/ ReconcileThrows(c)
  \/ RecordSuccess(c) \/ RecordSuccessThrows(c) \/ CountFailure(c) \/ OpenBreaker(c)
  \/ CallDies(c)

Next ==
  \/ \E c \in Calls : CallStep(c)
  \/ CleanupExpiredReservations \/ ProbeLapses \/ ProbeFallsDue
  \/ \E ended \in Boundaries : WindowsEnd(ended)

Spec == Init /\ [][Next]_vars

-----------------------------------------------------------------------------
(* Properties *)

\* Every variable stays in its type.
TypeOK ==
  /\ windows \in [Windows -> [reserved : Nat, consumed : Nat]]
  /\ reservations \in [Calls -> ReservationRecord]
  /\ breaker \in BreakerRecord
  /\ calls \in [Calls -> CallRecord]
  /\ sent \in [Windows -> Nat]
  /\ uncharged \subseteq Windows

\* All is well typed, and whatever calls race for a window's last requests, lapse, die or come late,
\* what is reserved and consumed in it never passes its limit: the check and
\* the reservation are one statement, and reconciling never adds more than
\* was reserved.
NotOverdrawn ==
  /\ TypeOK
  /\ \A w \in Windows : windows[w].reserved + windows[w].consumed <= Limit[w]

\* A window's reserved column covers the reservations that hold it, so giving
\* one back never takes from another, and the MAX(0, ...) of the statements
\* never cuts anything off.
HeldIsReserved ==
  \A w \in Windows : windows[w].reserved >= Reserve * Cardinality(Holders(w))

\* The requests sent that window w is yet to be charged for: the first, second, ...
\* of each call whose reservation it holds.
InFlight(w) ==
  {request \in Calls \X (1 .. Reserve) :
     request[1] \in Holders(w) /\ request[2] <= reservations[request[1]].used}

\* Each request sent is charged to every window that admitted it, exactly
\* once: what is consumed and what the running calls have used is what was
\* sent. Excused are the windows of a call whose reservation ran out or whose
\* usage was lost with a failed statement.
ChargedExactlyOnce ==
  \A w \in Windows \ uncharged :
    windows[w].consumed + Cardinality(InFlight(w)) = sent[w]

\* While the breaker is not closed the provider gets one probe at a time: no
\* two calls run as probes within the minute their lease lasts.
OneProbe ==
  Cardinality({c \in Calls : calls[c].probe /\ ~calls[c].late /\ calls[c].phase # "release"}) <= 1

\* Failures counted in a row open the breaker however their two statements
\* interleave: at the threshold and still closed, the last to count is about
\* to open it, unless it died there.
OpensAtThreshold ==
  breaker.state = "closed" /\ breaker.failures >= Threshold =>
    \/ breaker.missed
    \/ \E c \in Calls : calls[c].phase = "open" /\ calls[c].counted = breaker.failures
=============================================================================
