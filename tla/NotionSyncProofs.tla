---- MODULE NotionSyncProofs ----
(***************************************************************************)
(* Theorems about NotionSync.  The state is taken apart item by item: a    *)
(* step concerns one item, whose runs, attempts, links and pages it may    *)
(* change, and leaves what holds of any other item alone (OthersStay).     *)
(***************************************************************************)
EXTENDS NotionSync, FiniteSetTheorems, TLAPS

\* An item has one active attempt (idx_sync_attempts_active_unique); an attempt that is
\* there belongs to an item.
OneActive ==
  /\ \A a, b \in Attempts :
       Active(a) /\ Active(b) /\ attempts[a].item = attempts[b].item => a = b
  /\ \A a \in Attempts : attempts[a].status \in {"absent", "erased"} <=> attempts[a].item = None

\* A run works on the item of its attempt, as long as that item is there, and never knows
\* a later version than the item's.
RunKnown(r) ==
  IF runs[r].phase = "idle" THEN runs[r] = IdleRun
  ELSE /\ runs[r].attempt \in Attempts /\ runs[r].item \in Items
       /\ attempts[runs[r].attempt].item \in {runs[r].item, None}
       /\ attempts[runs[r].attempt].status # "absent"
       /\ items[runs[r].item].state # "gone" => runs[r].version <= items[runs[r].item].version
       /\ runs[r].phase \in {"update", "persist"} => runs[r].page \in Pages

RunsKnown == \A r \in Runs : RunKnown(r)

\* A page belongs to the item it was made for, wherever its id is kept.
Known(p, i) == p \in Pages => pages[p].item = i /\ pages[p].state # "absent"

PagesKnown ==
  /\ \A i \in Items : Known(items[i].page, i)
  /\ \A r \in Runs : Known(runs[r].page, runs[r].item)
  /\ \A p \in Pages : pages[p].state # "absent" => pages[p].item \in Items

\* A purge works on a deleted item.
PurgeKnown(i) ==
  /\ items[i].purge \in {"freeze", "archive", "erase"} => items[i].state = "deleted"
  /\ items[i].purge = "done" <=> items[i].state = "gone"

PurgesKnown == \A i \in Items : PurgeKnown(i)

\* What a run that is still the owner of its attempt can rely on.
Reliable(r, i) ==
  LET phase == runs[r].phase
      p == runs[r].page
  IN /\ phase \in {"query", "create", "update", "persist", "missing"} =>
          items[i].purge \in {"none", "freeze"}
     /\ phase \in {"query", "create"} => items[i].page = None
     /\ phase = "create" => Live(i) = {}
     /\ phase \in {"update", "persist"} => items[i].page \in {None, p} /\ Live(i) \subseteq {p}
     /\ phase \in {"query", "create", "update", "persist"} /\ items[i].synced =>
          items[i].version = runs[r].version
     /\ phase = "persist" /\ p \in Live(i) => pages[p].version = runs[r].version
     /\ phase = "missing" => items[i].page \notin Live(i)
     /\ phase = "complete" /\ items[i].version = runs[r].version => items[i].synced

\* A run about to re-enqueue has left its version behind, and knows no later one than the
\* run that came after it.
Requeues(r, i) ==
  runs[r].phase = "requeue" /\ items[i].state # "gone" =>
    /\ items[i].version = runs[r].version => items[i].synced
    /\ \A s \in Runs :
         /\ runs[s].phase \in {"query", "create", "update", "persist", "complete"}
         /\ runs[s].item = i /\ StillOwner(s)
         => runs[r].version <= runs[s].version

\* The pages of an item: at most one, no other than the linked one, none but one the
\* purge could not know of once the purge has archived it.
PagesOf(i) ==
  /\ \A p, q \in Live(i) : p = q
  /\ items[i].page # None => Live(i) \subseteq {items[i].page}
  /\ items[i].purge \in {"erase", "done"} => Live(i) = {} \/ unseen

\* An item has an attempt in sight: one that is active, or one that has failed.
Sighted(i) ==
  \E a \in Attempts :
    attempts[a].item = i /\ attempts[a].status \in {"pending", "processing", "failed"}

\* What NoUpdateLost says, of deleted items too.
InSight(i) ==
  (~dropped /\ items[i].state # "gone" /\ items[i].scheduled /\ ~items[i].synced
     /\ items[i].purge = "none")
  => Sighted(i) \/ \E r \in Runs : runs[r].phase = "requeue" /\ runs[r].item = i

Shown(i) ==
  /\ items[i].synced /\ items[i].page \in Live(i) => pages[items[i].page].version = items[i].version
  /\ items[i].missing => items[i].page \notin Live(i)

\* How an item stands while no run has gone on without its attempt.
Undisturbed(i) ==
  /\ \A r \in Runs : runs[r].item = i => (StillOwner(r) => Reliable(r, i)) /\ Requeues(r, i)
  /\ PagesOf(i) /\ InSight(i) /\ Shown(i)

Base == TypeOK /\ OneActive /\ RunsKnown /\ PagesKnown /\ PurgesKnown

\* The inductive invariant.
IInv == Base /\ (~overtaken => \A i \in Items : Undisturbed(i))

-----------------------------------------------------------------------------
(* The rows of sync_attempts.                                              *)

\* What a step that leases nothing makes of the attempts: rows stay where they are until
\* their item goes, and nobody becomes the owner of one.
Moves ==
  /\ attempts' \in [Attempts -> AttemptRecord]
  /\ \A a \in Attempts : attempts'[a].owner # None <=> attempts'[a].status = "processing"
  /\ OneActive'
  /\ \A a \in Attempts : attempts[a].status # "absent" =>
       attempts'[a].status # "absent" /\ attempts'[a].item \in {attempts[a].item, None}
  /\ \A a \in Attempts : attempts'[a].status = "processing" =>
       /\ attempts[a].status = "processing" /\ attempts'[a].owner = attempts[a].owner
       /\ attempts'[a].item = attempts[a].item

\* All items keep the sight of an attempt.
StaySighted == \A i \in Items : Sighted(i) => Sighted(i)'

LEMMA Constants ==
  /\ None \notin Items /\ None \notin Pages /\ None \notin Attempts /\ None \notin Runs
  /\ MaxVersion \in Nat /\ MaxAttempts \in Nat /\ MaxManualRetries \in Nat /\ MaxAttempts >= 1
BY SyncAssumption

LEMMA AbsentRow ==
  AbsentAttempt \in AttemptRecord /\ AbsentAttempt.owner = None
BY Constants DEF AbsentAttempt, AttemptRecord

LEMMA FreshRow ==
  ASSUME NEW i \in Items
  PROVE  LET t == [AbsentAttempt EXCEPT !.item = i, !.status = "pending"]
         IN t \in AttemptRecord /\ t.item = i /\ t.status = "pending" /\ t.owner = None
<1> DEFINE one == [AbsentAttempt EXCEPT !.item = i]
           two == [one EXCEPT !.status = "pending"]
<1>1. one \in AttemptRecord /\ one.item = i /\ one.owner = None
  BY AbsentRow DEF AttemptRecord
<1> HIDE DEF one
<1>2. two \in AttemptRecord /\ two.item = i /\ two.status = "pending" /\ two.owner = None
  BY <1>1 DEF AttemptRecord
<1>3. two = [AbsentAttempt EXCEPT !.item = i, !.status = "pending"]
  BY DEF one
<1> HIDE DEF two
<1> QED BY <1>2, <1>3

LEMMA EndedRow ==
  ASSUME NEW t \in AttemptRecord, NEW status \in {"complete", "failed", "pending"},
         NEW code \in {"none", "missing", "superseded", "other"}
  PROVE  LET e == Ended(t, status, code)
         IN /\ e \in AttemptRecord /\ e.item = t.item /\ e.status = status /\ e.owner = None
            /\ e.tries <= MaxAttempts
<1> DEFINE one == [AbsentAttempt EXCEPT !.item = t.item]
           two == [one EXCEPT !.status = status]
           three == [two EXCEPT !.code = code]
           c == IF status = "failed" THEN code ELSE "none"
           four == [t EXCEPT !.status = status]
           five == [four EXCEPT !.owner = None]
           six == [five EXCEPT !.lapsed = FALSE]
           seven == [six EXCEPT !.code = c]
<1>1. Ended(t, status, code) = IF status = "complete" \/ code = "superseded" THEN three ELSE seven
  BY DEF Ended
<1>2. c \in {"none", "missing", "superseded", "other"}
  OBVIOUS
<1> HIDE DEF c
<1>3. three \in AttemptRecord /\ three.item = t.item /\ three.status = status /\ three.owner = None
  <2>1. one \in AttemptRecord /\ one.item = t.item /\ one.owner = None
    BY AbsentRow DEF AttemptRecord
  <2> HIDE DEF one
  <2>2. two \in AttemptRecord /\ two.item = t.item /\ two.status = status /\ two.owner = None
    BY <2>1 DEF AttemptRecord
  <2> HIDE DEF two
  <2> QED BY <2>2 DEF AttemptRecord
<1>4. six \in AttemptRecord /\ six.item = t.item /\ six.status = status /\ six.owner = None
  <2>1. four \in AttemptRecord /\ four.item = t.item /\ four.status = status
    BY DEF AttemptRecord
  <2> HIDE DEF four
  <2>2. five \in AttemptRecord /\ five.item = t.item /\ five.status = status /\ five.owner = None
    BY <2>1 DEF AttemptRecord
  <2> HIDE DEF five
  <2> QED BY <2>2 DEF AttemptRecord
<1> HIDE DEF six, three
<1>5. seven \in AttemptRecord /\ seven.item = t.item /\ seven.status = status /\ seven.owner = None
  BY <1>2, <1>4 DEF AttemptRecord
<1> HIDE DEF seven
<1>6. \A e \in AttemptRecord : e.tries <= MaxAttempts
  BY Constants DEF AttemptRecord
<1> QED BY <1>1, <1>3, <1>5, <1>6

LEMMA Failed ==
  ASSUME TypeOK, NEW i \in Items, NEW code \in {"none", "missing", "superseded", "other"}
  PROVE  LET f == FailedAll(i, code)
         IN /\ f \in [Attempts -> AttemptRecord]
            /\ \A a \in Attempts :
                 IF Active(a) /\ attempts[a].item = i
                 THEN f[a].item = i /\ f[a].status = "failed" /\ f[a].owner = None
                 ELSE f[a] = attempts[a]
<1> DEFINE f == FailedAll(i, code)
<1>1. attempts \in [Attempts -> AttemptRecord]
  BY DEF TypeOK
<1>2. \A a \in Attempts :
        f[a] = IF Active(a) /\ attempts[a].item = i THEN Ended(attempts[a], "failed", code)
               ELSE attempts[a]
  BY DEF FailedAll, ActiveOf
<1>3. \A a \in Attempts :
        LET e == Ended(attempts[a], "failed", code)
        IN e \in AttemptRecord /\ e.item = attempts[a].item /\ e.status = "failed" /\ e.owner = None
  <2> TAKE a \in Attempts
  <2>1. attempts[a] \in AttemptRecord
    BY <1>1
  <2> QED BY <2>1, EndedRow
<1>4. \A a \in Attempts : f[a] \in AttemptRecord
  BY <1>1, <1>2, <1>3
<1>5. f \in [Attempts -> AttemptRecord]
  <2>1. f = [a \in Attempts |-> f[a]]
    BY DEF FailedAll
  <2> HIDE DEF f
  <2> QED BY <1>4, <2>1
<1> HIDE DEF f
<1>6. \A a \in Attempts :
        IF Active(a) /\ attempts[a].item = i
        THEN f[a].item = i /\ f[a].status = "failed" /\ f[a].owner = None
        ELSE f[a] = attempts[a]
  BY <1>2, <1>3
<1> QED BY <1>5, <1>6 DEF f

LEMMA Fresh ==
  ASSUME Room, NEW i \in Items, NEW rows \in [Attempts -> AttemptRecord]
  PROVE  \E n \in Attempts :
           /\ attempts[n].status = "absent"
           /\ WithAttempt(rows, i) \in [Attempts -> AttemptRecord]
           /\ WithAttempt(rows, i)[n].item = i
           /\ WithAttempt(rows, i)[n].status = "pending"
           /\ WithAttempt(rows, i)[n].owner = None
           /\ \A a \in Attempts \ {n} : WithAttempt(rows, i)[a] = rows[a]
<1> DEFINE n == CHOOSE a \in Attempts : attempts[a].status = "absent"
           t == [AbsentAttempt EXCEPT !.item = i, !.status = "pending"]
<1>1. n \in Attempts /\ attempts[n].status = "absent"
  BY DEF Room
<1>2. WithAttempt(rows, i) = [rows EXCEPT ![n] = t]
  BY DEF WithAttempt
<1>3. t \in AttemptRecord /\ t.item = i /\ t.status = "pending" /\ t.owner = None
  BY FreshRow, Zenon
<1> HIDE DEF n, t
<1>4. [rows EXCEPT ![n] = t] \in [Attempts -> AttemptRecord] /\ [rows EXCEPT ![n] = t][n] = t
      /\ \A a \in Attempts \ {n} : [rows EXCEPT ![n] = t][a] = rows[a]
  BY <1>1, <1>3
<1> QED BY <1>1, <1>2, <1>3, <1>4

\* An INSERT of a pending row on top of rows none of which is active for the item.
LEMMA FreshMoves ==
  ASSUME TypeOK, OneActive, Room, NEW i \in Items, NEW rows \in [Attempts -> AttemptRecord],
         \A a \in Attempts :
           \/ rows[a] = attempts[a] /\ ~(Active(a) /\ attempts[a].item = i)
           \/ /\ attempts[a].status \in {"pending", "processing"} /\ attempts[a].item = i
              /\ rows[a].item = i /\ rows[a].status = "failed" /\ rows[a].owner = None,
         attempts' = WithAttempt(rows, i)
  PROVE  /\ Moves /\ StaySighted /\ Sighted(i)'
         /\ \A a \in Attempts : attempts'[a].status = "processing" => attempts'[a].item # i
<1>1. PICK n \in Attempts :
        /\ attempts[n].status = "absent"
        /\ attempts' \in [Attempts -> AttemptRecord]
        /\ attempts'[n].item = i /\ attempts'[n].status = "pending" /\ attempts'[n].owner = None
        /\ \A a \in Attempts \ {n} : attempts'[a] = rows[a]
  <2>1. \E n \in Attempts :
          /\ attempts[n].status = "absent"
          /\ WithAttempt(rows, i) \in [Attempts -> AttemptRecord]
          /\ WithAttempt(rows, i)[n].item = i
          /\ WithAttempt(rows, i)[n].status = "pending"
          /\ WithAttempt(rows, i)[n].owner = None
          /\ \A a \in Attempts \ {n} : WithAttempt(rows, i)[a] = rows[a]
    BY Fresh
  <2> QED BY <2>1
<1>2. attempts[n].item = None
  BY <1>1 DEF OneActive
<1>3. \A a \in Attempts : attempts'[a].owner # None <=> attempts'[a].status = "processing"
  BY <1>1 DEF TypeOK, Active
<1>4. OneActive'
  <2>1. \A a, b \in Attempts :
          Active(a)' /\ Active(b)' /\ attempts'[a].item = attempts'[b].item => a = b
    BY <1>1 DEF OneActive, Active
  <2>2. \A a \in Attempts : attempts'[a].status \in {"absent", "erased"} <=> attempts'[a].item = None
    BY <1>1, Constants DEF OneActive, Active
  <2> QED BY <2>1, <2>2 DEF OneActive
<1>5. /\ \A a \in Attempts : attempts[a].status # "absent" =>
           attempts'[a].status # "absent" /\ attempts'[a].item \in {attempts[a].item, None}
      /\ \A a \in Attempts : attempts'[a].status = "processing" =>
           /\ attempts[a].status = "processing" /\ attempts'[a].owner = attempts[a].owner
           /\ attempts'[a].item = attempts[a].item
      /\ \A a \in Attempts : attempts'[a].status = "processing" => attempts'[a].item # i
  BY <1>1 DEF Active
<1>6. Sighted(i)'
  BY <1>1 DEF Sighted
<1>7. StaySighted
  BY <1>1, <1>2, Constants DEF StaySighted, Sighted
<1> QED BY <1>1, <1>3, <1>4, <1>5, <1>6, <1>7 DEF Moves

LEMMA SameMoves ==
  ASSUME TypeOK, OneActive, attempts' = attempts
  PROVE  Moves /\ StaySighted
<1>1. attempts \in [Attempts -> AttemptRecord]
      /\ \A a \in Attempts : attempts[a].owner # None <=> attempts[a].status = "processing"
  BY DEF TypeOK
<1>2. OneActive'
  BY DEF OneActive, Active
<1> QED BY <1>1, <1>2 DEF Moves, StaySighted, Sighted

LEMMA EnqueuedMoves ==
  ASSUME TypeOK, OneActive, NEW i \in Items, Enqueued(i, attempts')
  PROVE  Moves /\ StaySighted /\ Sighted(i)'
<1>1. CASE ActiveOf(i) # {}
  <2>1. attempts' = attempts
    BY <1>1 DEF Enqueued
  <2>2. Sighted(i)
    BY <1>1 DEF ActiveOf, Active, Sighted
  <2> QED BY <2>1, <2>2, SameMoves DEF StaySighted
<1>2. CASE ActiveOf(i) = {}
  <2>1. Room /\ attempts' = WithAttempt(attempts, i)
    BY <1>2 DEF Enqueued
  <2>2. attempts \in [Attempts -> AttemptRecord]
    BY DEF TypeOK
  <2>3. \A a \in Attempts : ~(Active(a) /\ attempts[a].item = i)
    BY <1>2 DEF ActiveOf
  <2> QED BY <2>1, <2>2, <2>3, FreshMoves
<1> QED BY <1>1, <1>2

\* A recreation: the active attempt is superseded and a new one inserted.
LEMMA SupersededMoves ==
  ASSUME TypeOK, OneActive, Room, NEW i \in Items,
         attempts' = WithAttempt(FailedAll(i, "superseded"), i)
  PROVE  /\ Moves /\ StaySighted /\ Sighted(i)'
         /\ \A a \in Attempts : attempts'[a].status = "processing" => attempts'[a].item # i
<1> DEFINE f == FailedAll(i, "superseded")
<1>1. /\ f \in [Attempts -> AttemptRecord]
      /\ \A a \in Attempts :
           IF Active(a) /\ attempts[a].item = i
           THEN f[a].item = i /\ f[a].status = "failed" /\ f[a].owner = None
           ELSE f[a] = attempts[a]
  BY Failed
<1>2. attempts' = WithAttempt(f, i)
  OBVIOUS
<1> HIDE DEF f
<1>3. \A a \in Attempts :
        \/ f[a] = attempts[a] /\ ~(Active(a) /\ attempts[a].item = i)
        \/ /\ attempts[a].status \in {"pending", "processing"} /\ attempts[a].item = i
           /\ f[a].item = i /\ f[a].status = "failed" /\ f[a].owner = None
  BY <1>1 DEF Active
<1> QED BY <1>1, <1>2, <1>3, FreshMoves

\* The freezing of an item: the active attempt fails.
LEMMA FrozenMoves ==
  ASSUME TypeOK, OneActive, NEW i \in Items, attempts' = FailedAll(i, "other")
  PROVE  /\ Moves /\ StaySighted
         /\ \A a \in Attempts : attempts'[a].status = "processing" => attempts'[a].item # i
<1>1. /\ attempts' \in [Attempts -> AttemptRecord]
      /\ \A a \in Attempts :
           IF Active(a) /\ attempts[a].item = i
           THEN attempts'[a].item = i /\ attempts'[a].status = "failed" /\ attempts'[a].owner = None
           ELSE attempts'[a] = attempts[a]
  BY Failed
<1>2. \A a \in Attempts : attempts'[a].owner # None <=> attempts'[a].status = "processing"
  BY <1>1 DEF TypeOK, Active
<1>3. OneActive'
  BY <1>1, Constants DEF OneActive, Active
<1>4. StaySighted
  BY <1>1 DEF StaySighted, Sighted
<1> QED BY <1>1, <1>2, <1>3, <1>4 DEF Moves, Active

\* A row changes its status within its item.
LEMMA RowMoves ==
  ASSUME TypeOK, OneActive, NEW a \in Attempts,
         attempts' \in [Attempts -> AttemptRecord],
         \A b \in Attempts \ {a} : attempts'[b] = attempts[b],
         attempts'[a].item = attempts[a].item, attempts[a].item # None,
         attempts'[a].status \in {"pending", "processing", "complete", "failed"},
         attempts'[a].owner # None <=> attempts'[a].status = "processing",
         attempts'[a].status = "processing" =>
           attempts[a].status = "processing" /\ attempts'[a].owner = attempts[a].owner,
         attempts'[a].status = "pending" => Active(a) \/ ActiveOf(attempts[a].item) = {}
  PROVE  /\ Moves
         /\ \A i \in Items : Sighted(i) =>
              Sighted(i)' \/ (attempts'[a].status = "complete" /\ i = attempts[a].item)
<1>2. \A b \in Attempts : attempts'[b].owner # None <=> attempts'[b].status = "processing"
  BY DEF TypeOK
<1>3. OneActive'
  <2>1. \A b \in Attempts \ {a} : Active(a)' /\ Active(b)' => attempts'[b].item # attempts'[a].item
    BY DEF OneActive, Active, ActiveOf
  <2>2. \A b, c \in Attempts \ {a} :
          Active(b)' /\ Active(c)' /\ attempts'[b].item = attempts'[c].item => b = c
    BY DEF OneActive, Active
  <2>3. \A b \in Attempts : attempts'[b].status \in {"absent", "erased"} <=> attempts'[b].item = None
    BY DEF OneActive
  <2>4. \A b, c \in Attempts :
          Active(b)' /\ Active(c)' /\ attempts'[b].item = attempts'[c].item => b = c
    BY <2>1, <2>2
  <2> QED BY <2>3, <2>4 DEF OneActive
<1>4. \A i \in Items : Sighted(i) =>
        Sighted(i)' \/ (attempts'[a].status = "complete" /\ i = attempts[a].item)
  BY DEF Sighted
<1>5. /\ \A b \in Attempts : attempts[b].status # "absent" =>
           attempts'[b].status # "absent" /\ attempts'[b].item \in {attempts[b].item, None}
      /\ \A b \in Attempts : attempts'[b].status = "processing" =>
           /\ attempts[b].status = "processing" /\ attempts'[b].owner = attempts[b].owner
           /\ attempts'[b].item = attempts[b].item
  OBVIOUS
<1> QED BY <1>2, <1>3, <1>4, <1>5 DEF Moves

LEMMA RetryMoves ==
  ASSUME TypeOK, OneActive, NEW a \in Attempts, ManuallyRetrySync(a)
  PROVE  Moves /\ StaySighted
<1> DEFINE one == [attempts EXCEPT ![a].status = "pending"]
           two == [one EXCEPT ![a].code = "none"]
           more == attempts[a].retries + 1
           four == [two EXCEPT ![a].retries = more]
           three == [four EXCEPT ![a].retrying = FALSE]
<1>1. attempts \in [Attempts -> AttemptRecord]
  BY DEF TypeOK
<1>2. /\ attempts[a].status = "failed" /\ attempts[a].retries < MaxManualRetries
      /\ ActiveOf(attempts[a].item) = {}
      /\ attempts' = [attempts EXCEPT ![a].status = "pending", ![a].code = "none",
                                      ![a].retries = @ + 1, ![a].retrying = FALSE]
  BY DEF ManuallyRetrySync
<1>3. attempts' = three
  BY <1>1, <1>2
<1>4. /\ one \in [Attempts -> AttemptRecord] /\ \A b \in Attempts \ {a} : one[b] = attempts[b]
      /\ one[a].status = "pending" /\ one[a].item = attempts[a].item
      /\ one[a].owner = attempts[a].owner /\ one[a].retries = attempts[a].retries
  BY <1>1 DEF AttemptRecord
<1> HIDE DEF one
<1>5. /\ two \in [Attempts -> AttemptRecord] /\ \A b \in Attempts \ {a} : two[b] = attempts[b]
      /\ two[a].status = "pending" /\ two[a].item = attempts[a].item
      /\ two[a].owner = attempts[a].owner /\ two[a].retries = attempts[a].retries
  BY <1>4 DEF AttemptRecord
<1> HIDE DEF two
<1>6. /\ four \in [Attempts -> AttemptRecord] /\ \A b \in Attempts \ {a} : four[b] = attempts[b]
      /\ four[a].status = "pending" /\ four[a].item = attempts[a].item
      /\ four[a].owner = attempts[a].owner
  <2>1. more \in 0 .. MaxManualRetries
    BY <1>1, <1>2, Constants DEF AttemptRecord
  <2> QED BY <1>5, <2>1 DEF AttemptRecord
<1> HIDE DEF four
<1>7. /\ three \in [Attempts -> AttemptRecord] /\ \A b \in Attempts \ {a} : three[b] = attempts[b]
      /\ three[a].status = "pending" /\ three[a].item = attempts[a].item
      /\ three[a].owner = attempts[a].owner
  BY <1>6 DEF AttemptRecord
<1> HIDE DEF three
<1>8. attempts[a].owner = None /\ attempts[a].item # None
  BY <1>2 DEF TypeOK, OneActive
<1>9. /\ Moves
      /\ \A i \in Items : Sighted(i) =>
           Sighted(i)' \/ (attempts'[a].status = "complete" /\ i = attempts[a].item)
  BY <1>2, <1>3, <1>7, <1>8, RowMoves
<1> QED BY <1>3, <1>7, <1>9 DEF StaySighted

\* Between the check and the UPDATE of a manual retry the row is as it was.
LEMMA CheckMoves ==
  ASSUME TypeOK, OneActive, NEW a \in Attempts, CheckRetry(a)
  PROVE  Moves /\ StaySighted
<1>1. attempts \in [Attempts -> AttemptRecord] /\ attempts' = [attempts EXCEPT ![a].retrying = TRUE]
  BY DEF TypeOK, CheckRetry
<1>2. /\ attempts' \in [Attempts -> AttemptRecord]
      /\ \A b \in Attempts :
           /\ attempts'[b].status = attempts[b].status /\ attempts'[b].item = attempts[b].item
           /\ attempts'[b].owner = attempts[b].owner
  BY <1>1 DEF AttemptRecord
<1>3. OneActive'
  BY <1>2 DEF OneActive, Active
<1> QED BY <1>2, <1>3 DEF Moves, StaySighted, Sighted, TypeOK

LEMMA LapseMoves ==
  ASSUME TypeOK, OneActive, NEW a \in Attempts, attempts[a].status = "processing",
         attempts' = [attempts EXCEPT ![a].lapsed = TRUE]
  PROVE  Moves /\ StaySighted
<1>1. attempts \in [Attempts -> AttemptRecord] /\ attempts[a].owner # None
  BY DEF TypeOK
<1>2. /\ attempts' \in [Attempts -> AttemptRecord]
      /\ \A b \in Attempts \ {a} : attempts'[b] = attempts[b]
      /\ attempts'[a].status = attempts[a].status /\ attempts'[a].item = attempts[a].item
      /\ attempts'[a].owner = attempts[a].owner
  BY <1>1 DEF AttemptRecord
<1>3. attempts[a].item # None
  BY DEF OneActive
<1>4. /\ Moves
      /\ \A i \in Items : Sighted(i) =>
           Sighted(i)' \/ (attempts'[a].status = "complete" /\ i = attempts[a].item)
  BY <1>1, <1>2, <1>3, RowMoves
<1> QED BY <1>2, <1>4 DEF StaySighted

\* The end of a hold.
LEMMA EndMoves ==
  ASSUME TypeOK, OneActive, NEW a \in Attempts, attempts[a].status = "processing",
         NEW t \in AttemptRecord, attempts' = [attempts EXCEPT ![a] = t],
         t.item = attempts[a].item, t.owner = None, t.status \in {"pending", "complete", "failed"}
  PROVE  /\ Moves
         /\ \A i \in Items : Sighted(i) => Sighted(i)' \/ (t.status = "complete" /\ i = t.item)
         /\ \A b \in Attempts : attempts'[b].status = "processing" => attempts'[b].item # t.item
<1>1. /\ attempts' \in [Attempts -> AttemptRecord]
      /\ attempts'[a] = t /\ \A b \in Attempts \ {a} : attempts'[b] = attempts[b]
  BY DEF TypeOK
<1>2. attempts[a].item # None /\ Active(a)
  BY DEF OneActive, Active
<1>3. /\ Moves
      /\ \A i \in Items : Sighted(i) =>
           Sighted(i)' \/ (attempts'[a].status = "complete" /\ i = attempts[a].item)
  BY <1>1, <1>2, RowMoves
<1>4. \A b \in Attempts : attempts'[b].status = "processing" => attempts'[b].item # t.item
  BY <1>1, <1>2 DEF OneActive, Active
<1> QED BY <1>1, <1>3, <1>4

LEMMA PurgedMoves ==
  ASSUME TypeOK, OneActive, NEW i \in Items,
         attempts' = [a \in Attempts |->
           IF attempts[a].item = i THEN [AbsentAttempt EXCEPT !.status = "erased"]
           ELSE attempts[a]]
  PROVE  /\ Moves
         /\ \A j \in Items \ {i} : Sighted(j) => Sighted(j)'
         /\ \A a \in Attempts : attempts'[a].status = "processing" => attempts'[a].item # i
<1> DEFINE t == [AbsentAttempt EXCEPT !.status = "erased"]
<1>1. t \in AttemptRecord /\ t.item = None /\ t.status = "erased" /\ t.owner = None
  <2>1. AbsentAttempt.item = None
    BY DEF AbsentAttempt
  <2> QED BY <2>1, AbsentRow DEF AttemptRecord
<1>2. attempts' = [a \in Attempts |-> IF attempts[a].item = i THEN t ELSE attempts[a]]
  OBVIOUS
<1> HIDE DEF t
<1>3. /\ attempts' \in [Attempts -> AttemptRecord]
      /\ \A a \in Attempts : attempts'[a] = IF attempts[a].item = i THEN t ELSE attempts[a]
  BY <1>1, <1>2 DEF TypeOK
<1>4. \A a \in Attempts : attempts'[a].owner # None <=> attempts'[a].status = "processing"
  BY <1>1, <1>3 DEF TypeOK
<1>5. OneActive'
  BY <1>1, <1>3, Constants DEF OneActive, Active
<1>6. \A j \in Items \ {i} : Sighted(j) => Sighted(j)'
  BY <1>3 DEF Sighted
<1>7. \A a \in Attempts : attempts'[a].status = "processing" => attempts'[a].item # i
  BY <1>1, <1>3
<1> QED BY <1>1, <1>3, <1>4, <1>5, <1>6, <1>7, Constants DEF Moves

\* A lease: a run that was idle becomes the owner of an active attempt.
LEMMA LeasedMoves ==
  ASSUME TypeOK, OneActive, NEW r \in Runs, NEW a \in Attempts,
         attempts[a].status \in {"pending", "processing"},
         attempts' = [attempts EXCEPT ![a].status = "processing", ![a].owner = r,
                                      ![a].lapsed = FALSE]
  PROVE  /\ attempts' \in [Attempts -> AttemptRecord]
         /\ \A b \in Attempts \ {a} : attempts'[b] = attempts[b]
         /\ attempts'[a].status = "processing" /\ attempts'[a].owner = r
         /\ attempts'[a].item = attempts[a].item /\ attempts[a].item \in Items
         /\ \A b \in Attempts : attempts'[b].owner # None <=> attempts'[b].status = "processing"
         /\ OneActive' /\ StaySighted
<1> DEFINE one == [attempts EXCEPT ![a].status = "processing"]
           two == [one EXCEPT ![a].owner = r]
           three == [two EXCEPT ![a].lapsed = FALSE]
<1>1. attempts \in [Attempts -> AttemptRecord]
  BY DEF TypeOK
<1>2. attempts' = three
  OBVIOUS
<1>4. /\ one \in [Attempts -> AttemptRecord] /\ \A b \in Attempts \ {a} : one[b] = attempts[b]
      /\ one[a].status = "processing" /\ one[a].item = attempts[a].item
  BY <1>1 DEF AttemptRecord
<1> HIDE DEF one
<1>5. /\ two \in [Attempts -> AttemptRecord] /\ \A b \in Attempts \ {a} : two[b] = attempts[b]
      /\ two[a].status = "processing" /\ two[a].item = attempts[a].item /\ two[a].owner = r
  BY <1>4 DEF AttemptRecord
<1> HIDE DEF two
<1>6. /\ three \in [Attempts -> AttemptRecord] /\ \A b \in Attempts \ {a} : three[b] = attempts[b]
      /\ three[a].status = "processing" /\ three[a].item = attempts[a].item /\ three[a].owner = r
  BY <1>5 DEF AttemptRecord
<1> HIDE DEF three
<1>7. attempts[a].item \in Items
  <2>1. attempts[a].item \in Items \cup {None}
    BY <1>1 DEF AttemptRecord
  <2> QED BY <2>1 DEF OneActive
<1>8. \A b \in Attempts : attempts'[b].owner # None <=> attempts'[b].status = "processing"
  BY <1>2, <1>6, Constants DEF TypeOK
<1>9. OneActive'
  BY <1>2, <1>6 DEF OneActive, Active
<1>10. StaySighted
  BY <1>2, <1>6 DEF StaySighted, Sighted
<1> QED BY <1>2, <1>6, <1>7, <1>8, <1>9, <1>10

-----------------------------------------------------------------------------
(* One item at a time.                                                     *)

OnlyItem(i) ==
  /\ items' \in [Items -> ItemRecord]
  /\ \A j \in Items \ {i} : items'[j] = items[j]

OnlyRun(r) ==
  /\ runs' \in [Runs -> RunRecord]
  /\ \A s \in Runs \ {r} : runs'[s] = runs[s]

\* A row never comes back and its version never goes back.
GoesOn(i) ==
  items'[i].state # "gone" => items[i].state # "gone" /\ items[i].version <= items'[i].version

\* A page stays with its item.
PagesStay ==
  /\ pages' \in [Pages -> PageRecord]
  /\ \A p \in Pages : pages[p].state # "absent" =>
       pages'[p].state # "absent" /\ pages'[p].item = pages[p].item
  /\ \A p \in Pages : pages'[p].state # "absent" => pages'[p].item \in Items

\* The pages of an item are left alone.
PagesAlone(i) == Live(i)' = Live(i) /\ \A p \in Live(i) : pages'[p] = pages[p]

\* A step that has to do with another item.
LEMMA OthersStay ==
  ASSUME NEW j \in Items, Undisturbed(j), items'[j] = items[j], PagesAlone(j), Moves, RunsKnown,
         \A r \in Runs : runs[r].item = j => runs'[r] = runs[r],
         \A r \in Runs : runs'[r].item = j => runs[r].item = j,
         Sighted(j) => Sighted(j)', dropped => dropped', unseen => unseen'
  PROVE  Undisturbed(j)'
<1>1. ASSUME NEW r \in Runs, runs[r].item = j
      PROVE  runs[r].attempt \in Attempts /\ (StillOwner(r)' => StillOwner(r))
  <2>1. runs[r].attempt \in Attempts
    BY <1>1, Constants DEF RunsKnown, RunKnown, IdleRun
  <2> QED BY <1>1, <2>1 DEF Moves, StillOwner
<1>2. \A r \in Runs : runs'[r].item = j =>
        (StillOwner(r)' => Reliable(r, j)') /\ Requeues(r, j)'
  <2>1. ASSUME NEW r \in Runs, runs'[r].item = j, StillOwner(r)'
        PROVE  Reliable(r, j)'
    <3>1. runs[r].item = j /\ runs'[r] = runs[r] /\ Reliable(r, j)
      BY <1>1, <2>1 DEF Undisturbed
    <3> QED BY <3>1 DEF Reliable, PagesAlone
  <2>2. ASSUME NEW r \in Runs, runs'[r].item = j
        PROVE  Requeues(r, j)'
    <3>1. runs[r].item = j /\ runs'[r] = runs[r] /\ Requeues(r, j)
      BY <2>2 DEF Undisturbed
    <3> QED BY <1>1, <3>1 DEF Requeues
  <2> QED BY <2>1, <2>2
<1>3. PagesOf(j)'
  BY DEF Undisturbed, PagesOf, PagesAlone
<1>4. InSight(j)'
  BY DEF Undisturbed, InSight
<1>5. Shown(j)'
  BY DEF Undisturbed, Shown, PagesAlone
<1> QED BY <1>2, <1>3, <1>4, <1>5 DEF Undisturbed

\* A run that stays as it is, while its attempt and its item go on.
LEMMA RunStays ==
  ASSUME Base, Moves, NEW r \in Runs, runs'[r] = runs[r], \A i \in Items : GoesOn(i),
         items' \in [Items -> ItemRecord]
  PROVE  RunKnown(r)'
<1>1. CASE runs[r].phase = "idle"
  BY <1>1 DEF Base, RunsKnown, RunKnown
<1>2. CASE runs[r].phase # "idle"
  <2>1. /\ runs[r].attempt \in Attempts /\ runs[r].item \in Items
        /\ attempts[runs[r].attempt].item \in {runs[r].item, None}
        /\ attempts[runs[r].attempt].status # "absent"
        /\ items[runs[r].item].state # "gone" => runs[r].version <= items[runs[r].item].version
        /\ runs[r].phase \in {"update", "persist"} => runs[r].page \in Pages
    BY <1>2 DEF Base, RunsKnown, RunKnown
  <2>2. /\ attempts'[runs[r].attempt].item \in {runs[r].item, None}
        /\ attempts'[runs[r].attempt].status # "absent"
    BY <2>1 DEF Moves
  <2>3. ASSUME items'[runs[r].item].state # "gone"
        PROVE  runs[r].version <= items'[runs[r].item].version
    <3>1. runs[r].version \in Nat /\ items[runs[r].item].version \in Nat
      BY <2>1, Constants DEF Base, TypeOK, RunRecord, ItemRecord
    <3>2. items'[runs[r].item].version \in Nat
      BY <2>1, Constants DEF ItemRecord
    <3> QED BY <2>1, <2>3, <3>1, <3>2 DEF GoesOn
  <2> QED BY <1>2, <2>1, <2>2, <2>3 DEF RunKnown
<1> QED BY <1>1, <1>2

\* A run still has the attempt it was given, which is of its item; nobody else has it.
LEMMA OwnersItem ==
  ASSUME Base, NEW r \in Runs, runs[r].phase # "idle"
  PROVE  /\ runs[r].attempt \in Attempts /\ runs[r].item \in Items
         /\ StillOwner(r) => /\ attempts[runs[r].attempt].item = runs[r].item
                             /\ attempts[runs[r].attempt].status = "processing"
                             /\ Sighted(runs[r].item)
BY DEF Base, RunsKnown, RunKnown, OneActive, StillOwner, Sighted

LEMMA OneOwner ==
  ASSUME Base, NEW r \in Runs, NEW s \in Runs, runs[r].item \in Items,
         runs[s].item = runs[r].item, StillOwner(r), StillOwner(s)
  PROVE  r = s
<1>1. runs[r].phase # "idle" /\ runs[s].phase # "idle"
  BY Constants DEF Base, RunsKnown, RunKnown, IdleRun
<1>2. attempts[runs[r].attempt].item = attempts[runs[s].attempt].item
      /\ runs[r].attempt \in Attempts /\ runs[s].attempt \in Attempts
  BY <1>1, OwnersItem
<1>3. runs[r].attempt = runs[s].attempt
  BY <1>2 DEF Base, OneActive, Active, StillOwner
<1> QED BY <1>3 DEF StillOwner

\* Nobody becomes the owner of an attempt; who owns one of an item that has none any more
\* has lost it.
LEMMA OwnersKeep ==
  ASSUME Base, Moves, NEW r \in Runs, runs'[r].attempt = runs[r].attempt,
         runs[r].phase # "idle"
  PROVE  /\ StillOwner(r)' => StillOwner(r)
         /\ (\A a \in Attempts : attempts'[a].status = "processing" => attempts'[a].item # runs[r].item)
              => ~StillOwner(r)'
<1>1. runs[r].attempt \in Attempts
  BY OwnersItem
<1>2. StillOwner(r)' => StillOwner(r)
  BY <1>1 DEF StillOwner, Moves
<1>3. StillOwner(r)' => attempts'[runs[r].attempt].item = runs[r].item
                        /\ attempts'[runs[r].attempt].status = "processing"
  BY <1>1, <1>2, OwnersItem DEF StillOwner, Moves
<1> QED BY <1>1, <1>2, <1>3

\* A step of the owner or of a purge, on one item.
LEMMA ItemStep ==
  ASSUME IInv, NEW i \in Items, OnlyItem(i), Moves, GoesOn(i), PagesStay,
         runs' = runs, UNCHANGED <<overtaken, dropped>>, faults' \in 0 .. MaxFaults,
         unseen' \in BOOLEAN, unseen => unseen',
         items'[i].page \in {items[i].page, None}, PurgeKnown(i)',
         \A j \in Items \ {i} : PagesAlone(j) /\ (Sighted(j) => Sighted(j)'),
         ~overtaken /\ Undisturbed(i) => Undisturbed(i)'
  PROVE  IInv'
<1>1. TypeOK'
  BY DEF IInv, Base, TypeOK, OnlyItem, Moves, PagesStay
<1>2. \A j \in Items : GoesOn(j)
  <2>1. \A j \in Items : items[j].version \in Nat
    BY Constants DEF IInv, Base, TypeOK, ItemRecord
  <2> QED BY <2>1 DEF OnlyItem, GoesOn
<1>3. RunsKnown'
  BY <1>2, RunStays DEF IInv, RunsKnown, OnlyItem
<1>4. PagesKnown'
  BY Constants DEF IInv, Base, PagesKnown, Known, OnlyItem, PagesStay
<1>5. PurgesKnown'
  BY DEF IInv, Base, PurgesKnown, PurgeKnown, OnlyItem
<1>6. ASSUME ~overtaken', NEW j \in Items \ {i}
      PROVE  Undisturbed(j)'
  BY <1>6, OthersStay DEF IInv, Base, OnlyItem
<1> QED BY <1>1, <1>3, <1>4, <1>5, <1>6 DEF IInv, Base, Moves

\* A step of a run, on its item.
LEMMA RunStep ==
  ASSUME IInv, NEW r \in Runs, NEW i \in Items, runs[r].item = i,
         OnlyRun(r), runs'[r].item \in {i, None}, RunKnown(r)', Known(runs[r].page, i)',
         OnlyItem(i), Moves, GoesOn(i), PagesStay, items'[i].purge = items[i].purge,
         items'[i].state = items[i].state, Known(items[i].page, i)',
         faults' \in 0 .. MaxFaults, overtaken' \in BOOLEAN, overtaken => overtaken',
         dropped' \in BOOLEAN, dropped => dropped', unseen' = unseen,
         \A j \in Items \ {i} : PagesAlone(j) /\ (Sighted(j) => Sighted(j)'),
         ~overtaken' /\ Undisturbed(i) => Undisturbed(i)'
  PROVE  IInv'
<1>1. TypeOK'
  BY DEF IInv, Base, TypeOK, OnlyItem, OnlyRun, Moves, PagesStay
<1>2. \A j \in Items : GoesOn(j)
  <2>1. \A j \in Items : items[j].version \in Nat
    BY Constants DEF IInv, Base, TypeOK, ItemRecord
  <2> QED BY <2>1 DEF OnlyItem, GoesOn
<1>3. RunsKnown'
  BY <1>2, RunStays DEF IInv, RunsKnown, OnlyRun, OnlyItem
<1>4. PagesKnown'
  <2>1. \A j \in Items \ {i} : Known(items[j].page, j)'
    BY DEF IInv, Base, PagesKnown, Known, OnlyItem, PagesStay
  <2>2. \A s \in Runs \ {r} : Known(runs[s].page, runs[s].item)'
    BY DEF IInv, Base, PagesKnown, Known, OnlyRun, PagesStay
  <2>3. Known(runs[r].page, runs[r].item)'
    <3>1. CASE runs'[r].item = i
      BY <3>1 DEF Known
    <3>2. CASE runs'[r].item = None
      BY <3>2, Constants DEF RunKnown, IdleRun, Known
    <3> QED BY <3>1, <3>2
  <2> QED BY <2>1, <2>2, <2>3 DEF PagesKnown, PagesStay
<1>5. PurgesKnown'
  BY DEF IInv, Base, PurgesKnown, PurgeKnown, OnlyItem
<1>6. ASSUME ~overtaken', NEW j \in Items \ {i}
      PROVE  Undisturbed(j)'
  <2>1. Undisturbed(j) /\ items'[j] = items[j] /\ RunsKnown
    BY <1>6 DEF IInv, Base, OnlyItem
  <2>2. \A s \in Runs : (runs[s].item = j => runs'[s] = runs[s])
                        /\ (runs'[s].item = j => runs[s].item = j)
    BY Constants DEF OnlyRun
  <2> QED BY <2>1, <2>2, OthersStay
<1> QED BY <1>1, <1>3, <1>4, <1>5, <1>6 DEF IInv, Base, Moves

-----------------------------------------------------------------------------
(* The steps of the owner and of a purge.                                  *)

LEMMA Alone ==
  ASSUME Base, pages' = pages
  PROVE  PagesStay /\ \A i \in Items : PagesAlone(i)
BY DEF Base, PagesKnown, TypeOK, PagesStay, PagesAlone, Live

\* What the projection of an item depends on.
SameProjection(i) ==
  /\ items'[i].version = items[i].version /\ items'[i].synced = items[i].synced
  /\ items'[i].page = items[i].page /\ items'[i].missing = items[i].missing

\* The runs of an item, as long as nothing they rely on changes.
LEMMA RunsRely ==
  ASSUME Base, NEW i \in Items, Undisturbed(i), SameProjection(i), Moves, runs' = runs,
         PagesAlone(i), items'[i].state = "gone" <=> items[i].state = "gone",
         items'[i].purge \in {items[i].purge, "freeze"}
  PROVE  \A r \in Runs : runs'[r].item = i =>
           (StillOwner(r)' => Reliable(r, i)') /\ Requeues(r, i)'
<1>1. \A r \in Runs : runs[r].item = i => runs[r].phase # "idle"
  BY Constants DEF Base, RunsKnown, RunKnown, IdleRun
<1>2. \A r \in Runs : runs[r].item = i => (StillOwner(r)' => StillOwner(r))
  BY <1>1, OwnersKeep
<1>3. ASSUME NEW r \in Runs, runs[r].item = i, StillOwner(r)'
      PROVE  Reliable(r, i)'
  <2>1. Reliable(r, i)
    BY <1>2, <1>3 DEF Undisturbed
  <2> QED BY <2>1 DEF Reliable, SameProjection, PagesAlone
<1>4. ASSUME NEW r \in Runs, runs[r].item = i
      PROVE  Requeues(r, i)'
  <2>1. Requeues(r, i)
    BY <1>4 DEF Undisturbed
  <2> QED BY <1>2, <2>1 DEF Requeues, SameProjection
<1> QED BY <1>3, <1>4

\* A step that leaves the projection of the item alone.
LEMMA PlainStep ==
  ASSUME IInv, NEW i \in Items, OnlyItem(i), SameProjection(i), Moves, StaySighted,
         UNCHANGED <<runs, pages, overtaken, dropped, unseen>>, faults' \in 0 .. MaxFaults,
         items'[i].state = "gone" <=> items[i].state = "gone", PurgeKnown(i)',
         items'[i].purge \in {items[i].purge, "freeze"},
         items'[i].purge = "freeze" => items[i].purge \in {"none", "freeze"},
         items'[i].scheduled => items[i].scheduled \/ Sighted(i)'
  PROVE  IInv'
<1>1. PagesStay /\ \A j \in Items : PagesAlone(j)
  BY Alone DEF IInv
<1>2. GoesOn(i)
  BY Constants DEF GoesOn, SameProjection, OnlyItem, ItemRecord
<1>3. ASSUME Undisturbed(i)
      PROVE  Undisturbed(i)'
  <2>1. \A r \in Runs : runs'[r].item = i => (StillOwner(r)' => Reliable(r, i)') /\ Requeues(r, i)'
    BY <1>1, <1>3, RunsRely DEF IInv
  <2>2. PagesOf(i)' /\ Shown(i)'
    BY <1>1, <1>3 DEF Undisturbed, PagesOf, Shown, PagesAlone, SameProjection
  <2>3. InSight(i)'
    BY <1>3 DEF Undisturbed, InSight, StaySighted, SameProjection
  <2> QED BY <2>1, <2>2, <2>3 DEF Undisturbed
<1>4. unseen' \in BOOLEAN /\ (unseen => unseen')
  BY DEF IInv, Base, TypeOK
<1>5. items'[i].page \in {items[i].page, None}
  BY DEF SameProjection
<1>6. \A j \in Items \ {i} : Sighted(j) => Sighted(j)'
  BY DEF StaySighted
<1> QED BY <1>1, <1>2, <1>3, <1>4, <1>5, <1>6, ItemStep

LEMMA Typed ==
  ASSUME IInv
  PROVE  /\ items \in [Items -> ItemRecord] /\ attempts \in [Attempts -> AttemptRecord]
         /\ runs \in [Runs -> RunRecord] /\ pages \in [Pages -> PageRecord]
         /\ faults \in 0 .. MaxFaults /\ unseen \in BOOLEAN
         /\ TypeOK /\ OneActive /\ Base /\ \A i \in Items : PurgeKnown(i)
BY DEF IInv, Base, TypeOK, PurgesKnown

LEMMA ScheduleInv ==
  ASSUME IInv, NEW i \in Items, ScheduleSync(i)
  PROVE  IInv'
<1>1. /\ OnlyItem(i) /\ SameProjection(i) /\ items'[i].state = items[i].state
      /\ items'[i].purge = items[i].purge
  BY Typed DEF ScheduleSync, OnlyItem, SameProjection, ItemRecord
<1>2. Moves /\ StaySighted /\ Sighted(i)'
  BY Typed, EnqueuedMoves DEF ScheduleSync
<1>3. PurgeKnown(i)'
  BY <1>1, Typed DEF PurgeKnown
<1>4. UNCHANGED <<runs, pages, faults, overtaken, dropped, unseen>>
  BY DEF ScheduleSync
<1> QED BY <1>1, <1>2, <1>3, <1>4, PlainStep, Typed

LEMMA SetDeletedInv ==
  ASSUME IInv, NEW i \in Items, NEW state \in {"live", "deleted"}, SetDeleted(i, state)
  PROVE  IInv'
<1>1. /\ OnlyItem(i) /\ SameProjection(i) /\ items'[i].state = state
      /\ items'[i].purge = items[i].purge /\ items'[i].scheduled = items[i].scheduled
  BY Typed DEF SetDeleted, OnlyItem, SameProjection, ItemRecord
<1>2. Moves /\ StaySighted
  BY Typed, SameMoves DEF SetDeleted
<1>3. items[i].purge = "none" /\ items[i].state # "gone"
      /\ UNCHANGED <<runs, pages, faults, overtaken, dropped, unseen>>
  BY DEF SetDeleted
<1>4. PurgeKnown(i)'
  BY <1>1, <1>3 DEF PurgeKnown
<1> QED BY <1>1, <1>2, <1>3, <1>4, PlainStep, Typed

LEMMA CheckInv ==
  ASSUME IInv, NEW i \in Items, CheckRecreation(i)
  PROVE  IInv'
<1>1. /\ OnlyItem(i) /\ SameProjection(i) /\ items'[i].state = items[i].state
      /\ items'[i].purge = items[i].purge /\ items'[i].scheduled = items[i].scheduled
  BY Typed DEF CheckRecreation, OnlyItem, SameProjection, ItemRecord
<1>2. Moves /\ StaySighted
  BY Typed, SameMoves DEF CheckRecreation
<1>3. UNCHANGED <<runs, pages, faults, overtaken, dropped, unseen>>
  BY DEF CheckRecreation
<1>4. PurgeKnown(i)'
  BY <1>1, Typed DEF PurgeKnown
<1> QED BY <1>1, <1>2, <1>3, <1>4, PlainStep, Typed

LEMMA StartPurgeInv ==
  ASSUME IInv, NEW i \in Items, StartPurge(i)
  PROVE  IInv'
<1>1. /\ OnlyItem(i) /\ SameProjection(i) /\ items'[i].state = items[i].state
      /\ items'[i].purge = "freeze" /\ items'[i].scheduled = items[i].scheduled
  BY Typed DEF StartPurge, OnlyItem, SameProjection, ItemRecord
<1>2. Moves /\ StaySighted
  BY Typed, SameMoves DEF StartPurge
<1>3. /\ items[i].purge = "none" /\ items[i].state = "deleted"
      /\ UNCHANGED <<runs, pages, faults, overtaken, dropped, unseen>>
  BY DEF StartPurge
<1>4. PurgeKnown(i)'
  BY <1>1, <1>3 DEF PurgeKnown
<1> QED BY <1>1, <1>2, <1>3, <1>4, PlainStep, Typed

\* A step on an attempt alone.
LEMMA AttemptStep ==
  ASSUME IInv, NEW a \in Attempts, attempts[a].item # None, Moves, StaySighted,
         UNCHANGED <<items, runs, pages, overtaken, dropped, unseen>>, faults' \in 0 .. MaxFaults
  PROVE  IInv'
<1>1. PICK i \in Items : attempts[a].item = i
  BY Typed DEF AttemptRecord
<1>2. /\ OnlyItem(i) /\ SameProjection(i) /\ items'[i] = items[i]
  BY Typed DEF OnlyItem, SameProjection
<1>3. PurgeKnown(i)'
  BY Typed DEF PurgeKnown
<1> QED BY <1>1, <1>2, <1>3, PlainStep

LEMMA AttemptsInv ==
  ASSUME IInv, NEW a \in Attempts,
         CheckRetry(a) \/ ManuallyRetrySync(a) \/ AbandonedLeaseLapses(a) \/ LeaseLapses(a)
  PROVE  IInv'
<1>0. CASE CheckRetry(a)
  <2>1. attempts[a].item # None /\ Moves /\ StaySighted
    BY <1>0, Typed, CheckMoves DEF CheckRetry, OneActive
  <2>2. UNCHANGED <<items, runs, pages, faults, overtaken, dropped, unseen>>
    BY <1>0 DEF CheckRetry
  <2> QED BY <2>1, <2>2, Typed, AttemptStep
<1>1. CASE ManuallyRetrySync(a)
  <2>1. attempts[a].item # None /\ Moves /\ StaySighted
    BY <1>1, Typed, RetryMoves DEF ManuallyRetrySync, OneActive
  <2>2. UNCHANGED <<items, runs, pages, faults, overtaken, dropped, unseen>>
    BY <1>1 DEF ManuallyRetrySync
  <2> QED BY <2>1, <2>2, Typed, AttemptStep
<1>2. CASE Lapse(a) /\ faults' \in 0 .. MaxFaults
  <2>1. attempts[a].status = "processing" /\ attempts[a].item # None
        /\ UNCHANGED <<items, runs, pages, overtaken, dropped, unseen>>
    BY <1>2, Typed DEF Lapse, OneActive
  <2>2. Moves /\ StaySighted
    BY <1>2, <2>1, Typed, LapseMoves DEF Lapse
  <2> QED BY <1>2, <2>1, <2>2, AttemptStep
<1>3. CASE AbandonedLeaseLapses(a)
  BY <1>2, <1>3, Typed DEF AbandonedLeaseLapses
<1>4. CASE LeaseLapses(a)
  <2>1. faults' \in 0 .. MaxFaults
    BY <1>4, Typed, SyncAssumption DEF LeaseLapses
  <2> QED BY <1>2, <1>4, <2>1 DEF LeaseLapses
<1> QED BY <1>0, <1>1, <1>3, <1>4

LEMMA ChangeInv ==
  ASSUME IInv, NEW i \in Items, ChangeProjection(i)
  PROVE  IInv'
<1> DEFINE one == [items EXCEPT ![i].version = @ + 1]
           two == [one EXCEPT ![i].synced = FALSE]
<1>0. /\ items[i].state = "live" /\ items[i].version < MaxVersion
      /\ UNCHANGED <<runs, pages, faults, overtaken, dropped, unseen>>
      /\ Enqueued(i, attempts')
  BY DEF ChangeProjection
<1>1. items' = two
  BY DEF ChangeProjection
<1>2. /\ one \in [Items -> ItemRecord] /\ \A j \in Items \ {i} : one[j] = items[j]
      /\ one[i].state = "live" /\ one[i].version = items[i].version + 1
      /\ one[i].page = items[i].page /\ one[i].missing = items[i].missing
      /\ one[i].purge = items[i].purge
  BY <1>0, Typed, Constants DEF ItemRecord
<1> HIDE DEF one
<1>3. /\ two \in [Items -> ItemRecord] /\ \A j \in Items \ {i} : two[j] = items[j]
      /\ two[i].state = "live" /\ two[i].version = items[i].version + 1
      /\ two[i].page = items[i].page /\ two[i].missing = items[i].missing
      /\ two[i].purge = items[i].purge /\ two[i].synced = FALSE
  BY <1>2 DEF ItemRecord
<1> HIDE DEF two
<1>4. Moves /\ StaySighted /\ Sighted(i)'
  BY <1>0, Typed, EnqueuedMoves
<1>5. PagesStay /\ \A j \in Items : PagesAlone(j)
  BY <1>0, Alone, Typed
<1>6. OnlyItem(i) /\ GoesOn(i) /\ PurgeKnown(i)'
  <2>1. items[i].version \in Nat
    BY Typed, Constants DEF ItemRecord
  <2> QED BY <1>0, <1>1, <1>3, <2>1, Typed DEF OnlyItem, GoesOn, PurgeKnown
<1>7. ASSUME Undisturbed(i)
      PROVE  Undisturbed(i)'
  <2>1. ASSUME NEW r \in Runs, runs[r].item = i
        PROVE  /\ runs[r].phase # "idle" /\ runs[r].version # items'[i].version
               /\ StillOwner(r)' => StillOwner(r)
    <3>1. runs[r].phase # "idle" /\ runs[r].version <= items[i].version
      BY <1>0, <2>1, Typed, Constants DEF Base, RunsKnown, RunKnown, IdleRun
    <3>2. runs[r].version \in Nat /\ items[i].version \in Nat
      BY Typed, Constants DEF RunRecord, ItemRecord
    <3>3. StillOwner(r)' => StillOwner(r)
      BY <1>0, <1>4, <3>1, OwnersKeep, Typed
    <3> QED BY <1>1, <1>3, <3>1, <3>2, <3>3
  <2>2. ASSUME NEW r \in Runs, runs[r].item = i, StillOwner(r)'
        PROVE  Reliable(r, i)'
    <3>1. Reliable(r, i)
      BY <1>7, <2>1, <2>2 DEF Undisturbed
    <3> QED BY <1>0, <1>1, <1>3, <1>5, <2>1, <2>2, <3>1 DEF Reliable, PagesAlone
  <2>3. ASSUME NEW r \in Runs, runs[r].item = i
        PROVE  Requeues(r, i)'
    <3>1. Requeues(r, i)
      BY <1>7, <2>3 DEF Undisturbed
    <3> QED BY <1>0, <2>1, <2>3, <3>1 DEF Requeues
  <2>4. PagesOf(i)' /\ Shown(i)' /\ InSight(i)'
    BY <1>0, <1>1, <1>3, <1>4, <1>5, <1>7 DEF Undisturbed, PagesOf, Shown, InSight, PagesAlone
  <2> QED BY <1>0, <2>2, <2>3, <2>4 DEF Undisturbed
<1> QED BY <1>0, <1>1, <1>3, <1>4, <1>5, <1>6, <1>7, Typed, ItemStep DEF StaySighted

\* A step that takes the attempt of an item away from whoever owns it.
LEMMA OustingStep ==
  ASSUME IInv, NEW i \in Items, OnlyItem(i), Moves, PurgeKnown(i)',
         UNCHANGED <<runs, pages, faults, overtaken, dropped, unseen>>,
         \A a \in Attempts : attempts'[a].status = "processing" => attempts'[a].item # i,
         \A j \in Items \ {i} : Sighted(j) => Sighted(j)',
         items'[i].page \in {items[i].page, None},
         items'[i].state # "gone" =>
           /\ items[i].state # "gone" /\ items'[i].version = items[i].version
           /\ items'[i].synced = items[i].synced,
         Undisturbed(i) => PagesOf(i)' /\ InSight(i)' /\ Shown(i)'
  PROVE  IInv'
<1>1. PagesStay /\ \A j \in Items : PagesAlone(j)
  BY Alone, Typed
<1>2. GoesOn(i)
  <2>1. items[i].version \in Nat
    BY Typed, Constants DEF ItemRecord
  <2> QED BY <2>1 DEF GoesOn
<1>3. ASSUME NEW r \in Runs, runs[r].item = i
      PROVE  ~StillOwner(r)'
  <2>1. runs[r].phase # "idle"
    BY <1>3, Typed, Constants DEF Base, RunsKnown, RunKnown, IdleRun
  <2> QED BY <1>3, <2>1, OwnersKeep, Typed
<1>4. ASSUME Undisturbed(i)
      PROVE  Undisturbed(i)'
  <2>1. ASSUME NEW r \in Runs, runs[r].item = i
        PROVE  Requeues(r, i)'
    <3>1. Requeues(r, i)
      BY <1>4, <2>1 DEF Undisturbed
    <3> QED BY <1>3, <3>1 DEF Requeues
  <2> QED BY <1>3, <1>4, <2>1 DEF Undisturbed
<1> QED BY <1>1, <1>2, <1>4, Typed, ItemStep

LEMMA ApproveInv ==
  ASSUME IInv, NEW i \in Items, ApproveRecreation(i)
  PROVE  IInv'
<1>0. UNCHANGED <<runs, pages, faults, overtaken, dropped, unseen>>
  BY Zenon DEF ApproveRecreation
<1>1. CASE /\ items[i].state # "gone"
           /\ items' = [items EXCEPT ![i].approving = FALSE, ![i].page = None,
                                     ![i].missing = FALSE]
           /\ Room /\ attempts' = WithAttempt(FailedAll(i, "superseded"), i)
  <2> DEFINE one == [items EXCEPT ![i].approving = FALSE]
             two == [one EXCEPT ![i].page = None]
             three == [two EXCEPT ![i].missing = FALSE]
  <2>1. items' = three
    BY <1>1
  <2>2. /\ one \in [Items -> ItemRecord] /\ \A j \in Items \ {i} : one[j] = items[j]
        /\ one[i].state = items[i].state /\ one[i].version = items[i].version
        /\ one[i].synced = items[i].synced /\ one[i].purge = items[i].purge
        /\ one[i].scheduled = items[i].scheduled
    BY Typed DEF ItemRecord
  <2> HIDE DEF one
  <2>3. /\ two \in [Items -> ItemRecord] /\ \A j \in Items \ {i} : two[j] = items[j]
        /\ two[i].state = items[i].state /\ two[i].version = items[i].version
        /\ two[i].synced = items[i].synced /\ two[i].purge = items[i].purge
        /\ two[i].scheduled = items[i].scheduled /\ two[i].page = None
    BY <2>2 DEF ItemRecord
  <2> HIDE DEF two
  <2>4. /\ three \in [Items -> ItemRecord] /\ \A j \in Items \ {i} : three[j] = items[j]
        /\ three[i].state = items[i].state /\ three[i].version = items[i].version
        /\ three[i].synced = items[i].synced /\ three[i].purge = items[i].purge
        /\ three[i].scheduled = items[i].scheduled /\ three[i].page = None
        /\ three[i].missing = FALSE
    <3> DEFINE row == [two[i] EXCEPT !.missing = FALSE]
    <3>1. /\ row \in ItemRecord /\ row.state = two[i].state /\ row.version = two[i].version
          /\ row.synced = two[i].synced /\ row.purge = two[i].purge
          /\ row.scheduled = two[i].scheduled /\ row.page = two[i].page /\ row.missing = FALSE
      BY <2>3 DEF ItemRecord
    <3>2. three = [two EXCEPT ![i] = row]
      BY <2>3
    <3> HIDE DEF row, three
    <3> QED BY <2>3, <3>1, <3>2
  <2> HIDE DEF three
  <2>5. /\ Moves /\ StaySighted /\ Sighted(i)'
        /\ \A a \in Attempts : attempts'[a].status = "processing" => attempts'[a].item # i
    BY <1>1, Typed, SupersededMoves
  <2>6. OnlyItem(i) /\ PurgeKnown(i)'
    BY <2>1, <2>4, Typed DEF OnlyItem, PurgeKnown
  <2>7. Live(i)' = Live(i) /\ None \notin Live(i)
    BY <1>0, Constants DEF Live
  <2>8. Undisturbed(i) => PagesOf(i)' /\ InSight(i)' /\ Shown(i)'
    BY <1>0, <2>1, <2>4, <2>5, <2>7 DEF Undisturbed, PagesOf, InSight, Shown
  <2> QED BY <1>0, <1>1, <2>1, <2>4, <2>5, <2>6, <2>8, OustingStep DEF StaySighted
<1>2. CASE items' = [items EXCEPT ![i].approving = FALSE] /\ UNCHANGED attempts
  <2>1. /\ OnlyItem(i) /\ SameProjection(i) /\ items'[i].state = items[i].state
        /\ items'[i].purge = items[i].purge /\ items'[i].scheduled = items[i].scheduled
    BY <1>2, Typed DEF OnlyItem, SameProjection, ItemRecord
  <2>2. Moves /\ StaySighted
    BY <1>2, Typed, SameMoves
  <2>3. PurgeKnown(i)'
    BY <2>1, Typed DEF PurgeKnown
  <2> QED BY <1>0, <2>1, <2>2, <2>3, PlainStep, Typed
<1> QED BY <1>1, <1>2, Zenon DEF ApproveRecreation

LEMMA FreezeInv ==
  ASSUME IInv, NEW i \in Items, FreezeItemWork(i)
  PROVE  IInv'
<1>0. /\ UNCHANGED <<runs, pages, faults, overtaken, dropped, unseen>>
      /\ items[i].purge = "freeze" /\ attempts' = FailedAll(i, "other")
  BY DEF FreezeItemWork
<1>1. /\ OnlyItem(i) /\ SameProjection(i) /\ items'[i].state = items[i].state
      /\ items'[i].purge = "archive" /\ items'[i].scheduled = items[i].scheduled
  BY Typed DEF FreezeItemWork, OnlyItem, SameProjection, ItemRecord
<1>2. /\ Moves /\ StaySighted
      /\ \A a \in Attempts : attempts'[a].status = "processing" => attempts'[a].item # i
  BY <1>0, Typed, FrozenMoves
<1>3. PurgeKnown(i)' /\ items[i].state = "deleted"
  BY <1>0, <1>1, Typed DEF PurgeKnown
<1>4. Live(i)' = Live(i)
  BY <1>0 DEF Live
<1>5. Undisturbed(i) => PagesOf(i)' /\ InSight(i)' /\ Shown(i)'
  BY <1>0, <1>1, <1>4 DEF Undisturbed, PagesOf, InSight, Shown, SameProjection
<1> QED BY <1>0, <1>1, <1>2, <1>3, <1>5, OustingStep DEF StaySighted, SameProjection

LEMMA PurgeItemInv ==
  ASSUME IInv, NEW i \in Items, PurgeItem(i)
  PROVE  IInv'
<1>0. /\ UNCHANGED <<runs, pages, faults, overtaken, dropped, unseen>>
      /\ items[i].purge = "erase" /\ items' = [items EXCEPT ![i] = GoneItem]
  BY DEF PurgeItem
<1>1. /\ GoneItem \in ItemRecord /\ GoneItem.state = "gone" /\ GoneItem.purge = "done"
      /\ GoneItem.page = None /\ GoneItem.synced = FALSE /\ GoneItem.missing = FALSE
  <2>1. NewItem \in ItemRecord /\ NewItem.page = None /\ NewItem.synced = FALSE /\ NewItem.missing = FALSE
    BY Constants DEF NewItem, ItemRecord
  <2> DEFINE one == [NewItem EXCEPT !.state = "gone"]
             two == [one EXCEPT !.purge = "done"]
  <2>2. GoneItem = two
    BY DEF GoneItem
  <2>3. /\ one \in ItemRecord /\ one.state = "gone" /\ one.page = None /\ one.synced = FALSE
        /\ one.missing = FALSE
    BY <2>1 DEF ItemRecord
  <2> HIDE DEF one
  <2>4. /\ two \in ItemRecord /\ two.state = "gone" /\ two.page = None /\ two.synced = FALSE
        /\ two.missing = FALSE /\ two.purge = "done"
    BY <2>3 DEF ItemRecord
  <2> HIDE DEF two
  <2> QED BY <2>2, <2>4
<1>2. OnlyItem(i) /\ items'[i] = GoneItem
  BY <1>0, <1>1, Typed DEF OnlyItem
<1>3. /\ Moves /\ \A j \in Items \ {i} : Sighted(j) => Sighted(j)'
      /\ \A a \in Attempts : attempts'[a].status = "processing" => attempts'[a].item # i
  BY Typed, PurgedMoves DEF PurgeItem
<1>4. PurgeKnown(i)'
  BY <1>1, <1>2 DEF PurgeKnown
<1>5. Live(i)' = Live(i)
  BY <1>0 DEF Live
<1>6. Undisturbed(i) => PagesOf(i)' /\ InSight(i)' /\ Shown(i)'
  BY <1>0, <1>1, <1>2, <1>5 DEF Undisturbed, PagesOf, InSight, Shown
<1> QED BY <1>0, <1>1, <1>2, <1>3, <1>4, <1>6, OustingStep

LEMMA GoneRow ==
  ASSUME NEW page \in PageRecord
  PROVE  Gone(page) \in PageRecord /\ Gone(page).item = page.item /\ Gone(page).state = "gone"
<1> DEFINE one == [page EXCEPT !.state = "gone"]
           two == [one EXCEPT !.version = 0]
<1>1. Gone(page) = two
  BY DEF Gone
<1>2. one \in PageRecord /\ one.item = page.item /\ one.state = "gone"
  BY DEF PageRecord
<1> HIDE DEF one
<1>3. two \in PageRecord /\ two.item = page.item /\ two.state = "gone"
  BY <1>2, Constants DEF PageRecord
<1> HIDE DEF two
<1> QED BY <1>1, <1>3

\* A page that goes takes nothing from any other item.
LEMMA PageGoes ==
  ASSUME IInv, NEW p \in Pages, NEW i \in Items, Known(p, i),
         pages' = [pages EXCEPT ![p] = Gone(@)]
  PROVE  /\ PagesStay /\ \A j \in Items \ {i} : PagesAlone(j)
         /\ Live(i)' = Live(i) \ {p} /\ \A q \in Live(i)' : pages'[q] = pages[q]
<1>1. /\ pages[p] \in PageRecord /\ pages[p].item = i /\ pages[p].state # "absent"
  BY Typed DEF Known
<1>2. /\ Gone(pages[p]) \in PageRecord /\ Gone(pages[p]).item = i
      /\ Gone(pages[p]).state = "gone"
  BY <1>1, GoneRow
<1>3. /\ pages' \in [Pages -> PageRecord] /\ pages'[p] = Gone(pages[p])
      /\ \A q \in Pages \ {p} : pages'[q] = pages[q]
  BY <1>2, Typed
<1>4. PagesStay
  BY <1>1, <1>2, <1>3 DEF PagesStay, IInv, Base, PagesKnown
<1> QED BY <1>1, <1>2, <1>3, <1>4 DEF PagesAlone, Live

LEMMA ArchiveInv ==
  ASSUME IInv, NEW i \in Items, ArchiveProjection(i)
  PROVE  IInv'
<1>0. /\ items[i].purge = "archive" /\ items' = [items EXCEPT ![i].purge = "erase"]
      /\ UNCHANGED <<attempts, runs, faults, overtaken, dropped>>
  BY DEF ArchiveProjection
<1>1. /\ OnlyItem(i) /\ SameProjection(i) /\ items'[i].state = items[i].state
      /\ items'[i].purge = "erase" /\ items'[i].scheduled = items[i].scheduled
  BY <1>0, Typed DEF OnlyItem, SameProjection, ItemRecord
<1>2. Moves /\ StaySighted
  BY <1>0, Typed, SameMoves
<1>3. PurgeKnown(i)' /\ items[i].state = "deleted"
  BY <1>0, <1>1, Typed DEF PurgeKnown
<1>4. GoesOn(i)
  BY <1>1, Typed, Constants DEF GoesOn, SameProjection, ItemRecord
<1>5. unseen' \in BOOLEAN /\ (unseen => unseen') /\ (items[i].page = None /\ Live(i) # {} => unseen')
  BY Zenon, Typed DEF ArchiveProjection
<1>6. /\ PagesStay /\ \A j \in Items \ {i} : PagesAlone(j)
      /\ Live(i)' \subseteq Live(i)
      /\ items[i].page = None => Live(i)' = Live(i)
      /\ items[i].page # None => items[i].page \notin Live(i)'
  <2>1. CASE items[i].page = None
    <3>1. pages' = pages
      BY <2>1 DEF ArchiveProjection
    <3> QED BY <2>1, <3>1, Alone, Typed DEF PagesAlone
  <2>2. CASE items[i].page # None
    <3>1. pages' = [pages EXCEPT ![items[i].page] = Gone(@)]
      BY <2>2 DEF ArchiveProjection
    <3>2. items[i].page \in Pages /\ Known(items[i].page, i)
      BY <2>2, Typed DEF ItemRecord, Base, PagesKnown
    <3> QED BY <2>2, <3>1, <3>2, PageGoes
  <2> QED BY <2>1, <2>2
<1>7. ASSUME Undisturbed(i)
      PROVE  Undisturbed(i)'
  <2>1. ASSUME NEW r \in Runs, runs[r].item = i
        PROVE  StillOwner(r)' => StillOwner(r)
    BY <1>0 DEF StillOwner
  <2>2. ASSUME NEW r \in Runs, runs[r].item = i, StillOwner(r)'
        PROVE  Reliable(r, i)'
    <3>1. Reliable(r, i)
      BY <1>7, <2>1, <2>2 DEF Undisturbed
    <3> QED BY <1>0, <1>1, <3>1 DEF Reliable, SameProjection
  <2>3. ASSUME NEW r \in Runs, runs[r].item = i
        PROVE  Requeues(r, i)'
    <3>1. Requeues(r, i)
      BY <1>7, <2>3 DEF Undisturbed
    <3> QED BY <1>0, <1>1, <2>1, <3>1 DEF Requeues, SameProjection
  <2>4. PagesOf(i)'
    BY <1>1, <1>5, <1>6, <1>7 DEF Undisturbed, PagesOf, SameProjection
  <2>5. Shown(i)'
    <3>1. items[i].page \notin Live(i)'
      BY <1>6, Constants DEF Live
    <3> QED BY <1>1, <3>1 DEF Shown, SameProjection
  <2>6. InSight(i)'
    BY <1>1 DEF InSight
  <2> QED BY <1>0, <2>2, <2>3, <2>4, <2>5, <2>6 DEF Undisturbed
<1> QED BY <1>0, <1>1, <1>2, <1>3, <1>4, <1>5, <1>6, <1>7, Typed, ItemStep
    DEF StaySighted, SameProjection

LEMMA DeletePageInv ==
  ASSUME IInv, NEW p \in Pages, DeletePage(p)
  PROVE  IInv'
<1>0. /\ pages[p].state = "live" /\ pages' = [pages EXCEPT ![p] = Gone(@)]
      /\ UNCHANGED <<items, attempts, runs, faults, overtaken, dropped, unseen>>
  BY DEF DeletePage
<1>1. PICK i \in Items : pages[p].item = i
  BY <1>0, Typed DEF Base, PagesKnown
<1>2. /\ PagesStay /\ \A j \in Items \ {i} : PagesAlone(j)
      /\ Live(i)' = Live(i) \ {p} /\ \A q \in Live(i)' : pages'[q] = pages[q]
  BY <1>0, <1>1, PageGoes DEF Known
<1>3. OnlyItem(i) /\ SameProjection(i) /\ items'[i] = items[i]
  BY <1>0, Typed DEF OnlyItem, SameProjection
<1>4. Moves /\ StaySighted
  BY <1>0, Typed, SameMoves
<1>5. PurgeKnown(i)' /\ GoesOn(i)
  BY <1>0, Typed, Constants DEF PurgeKnown, GoesOn, ItemRecord
<1>7. ASSUME Undisturbed(i)
      PROVE  Undisturbed(i)'
  <2>1. ASSUME NEW r \in Runs, runs[r].item = i
        PROVE  StillOwner(r)' => StillOwner(r)
    BY <1>0 DEF StillOwner
  <2>2. ASSUME NEW r \in Runs, runs[r].item = i, StillOwner(r)'
        PROVE  Reliable(r, i)'
    <3>1. Reliable(r, i)
      BY <1>7, <2>1, <2>2 DEF Undisturbed
    <3> QED BY <1>0, <1>2, <3>1 DEF Reliable
  <2>3. ASSUME NEW r \in Runs, runs[r].item = i
        PROVE  Requeues(r, i)'
    <3>1. Requeues(r, i)
      BY <1>7, <2>3 DEF Undisturbed
    <3> QED BY <1>0, <2>1, <3>1 DEF Requeues
  <2>4. PagesOf(i)' /\ Shown(i)'
    BY <1>0, <1>2, <1>7 DEF Undisturbed, PagesOf, Shown
  <2>6. InSight(i)'
    BY <1>0, <1>4, <1>7 DEF InSight, Undisturbed, StaySighted
  <2> QED BY <1>0, <2>2, <2>3, <2>4, <2>6 DEF Undisturbed
<1> QED BY <1>0, <1>2, <1>3, <1>4, <1>5, <1>7, Typed, ItemStep DEF StaySighted

-----------------------------------------------------------------------------
(* The steps of a run.                                                     *)

LEMMA IdleRow ==
  /\ IdleRun \in RunRecord /\ IdleRun.phase = "idle" /\ IdleRun.item = None
  /\ IdleRun.page = None /\ IdleRun.version = 0
BY Constants DEF IdleRun, RunRecord

LEMMA LeaseInv ==
  ASSUME IInv, NEW r \in Runs, NEW a \in Attempts, LeaseSyncAttempt(r, a)
  PROVE  IInv'
<1> DEFINE i == attempts[a].item
           one == [IdleRun EXCEPT !.phase = "read"]
           two == [one EXCEPT !.attempt = a]
           three == [two EXCEPT !.item = i]
<1>0. /\ UNCHANGED <<items, pages, faults, overtaken, dropped, unseen>>
      /\ r = FreeRun /\ attempts[a].status \in {"pending", "processing"}
      /\ runs' = [runs EXCEPT ![r] = three]
  BY DEF LeaseSyncAttempt
<1>1. runs[r].phase = "idle"
  <2>1. FreeRun # None
    BY <1>0, Constants
  <2>2. \E s \in Runs : runs[s].phase = "idle"
    BY <2>1, Zenon DEF FreeRun
  <2>3. FreeRun = CHOOSE s \in Runs : runs[s].phase = "idle"
    BY <2>2, Zenon DEF FreeRun
  <2> QED BY <1>0, <2>2, <2>3
<1>2. /\ attempts' \in [Attempts -> AttemptRecord]
      /\ \A b \in Attempts \ {a} : attempts'[b] = attempts[b]
      /\ attempts'[a].status = "processing" /\ attempts'[a].owner = r
      /\ attempts'[a].item = attempts[a].item /\ attempts[a].item \in Items
      /\ \A b \in Attempts : attempts'[b].owner # None <=> attempts'[b].status = "processing"
      /\ OneActive' /\ StaySighted
  <2>1. attempts' = [attempts EXCEPT ![a].status = "processing", ![a].owner = r,
                                      ![a].lapsed = FALSE]
    BY DEF LeaseSyncAttempt
  <2> QED BY <1>0, <2>1, Typed, LeasedMoves
<1>3. /\ three \in RunRecord /\ three.phase = "read" /\ three.attempt = a /\ three.item = i
      /\ three.version = 0 /\ three.page = None
  <2>1. one \in RunRecord /\ one.phase = "read" /\ one.version = 0 /\ one.page = None
    BY IdleRow DEF RunRecord
  <2> HIDE DEF one
  <2>2. two \in RunRecord /\ two.phase = "read" /\ two.attempt = a /\ two.version = 0 /\ two.page = None
    BY <2>1 DEF RunRecord
  <2> HIDE DEF two
  <2> QED BY <1>2, <2>2 DEF RunRecord
<1> HIDE DEF three
<1>4. OnlyRun(r) /\ runs'[r] = three
  BY <1>0, <1>3, Typed DEF OnlyRun
<1>5. TypeOK'
  BY <1>0, <1>2, <1>4, Typed DEF TypeOK, OnlyRun
<1>6. RunsKnown'
  <2>1. RunKnown(r)'
    <3>1. items[i].version \in Nat
      BY <1>2, Typed, Constants DEF ItemRecord
    <3> QED BY <1>0, <1>2, <1>3, <1>4, <3>1 DEF RunKnown
  <2>2. ASSUME NEW s \in Runs \ {r}
        PROVE  RunKnown(s)'
    <3>1. runs'[s] = runs[s] /\ RunKnown(s)
      BY <1>4, Typed DEF OnlyRun, Base, RunsKnown
    <3> QED BY <1>0, <1>2, <3>1 DEF RunKnown
  <2> QED BY <2>1, <2>2 DEF RunsKnown
<1>7. PagesKnown' /\ PurgesKnown'
  <2>1. PurgesKnown'
    BY <1>0 DEF IInv, Base, PurgesKnown, PurgeKnown
  <2>2. \A s \in Runs : Known(runs[s].page, runs[s].item)'
    BY <1>0, <1>3, <1>4, Constants DEF IInv, Base, PagesKnown, Known, OnlyRun
  <2> QED BY <1>0, <2>1, <2>2 DEF IInv, Base, PagesKnown, Known
<1>8. ASSUME ~overtaken', NEW j \in Items
      PROVE  Undisturbed(j)'
  <2>1. Undisturbed(j) /\ Live(j)' = Live(j)
    BY <1>0, <1>8 DEF IInv, Live
  <2>2. ASSUME NEW s \in Runs \ {r}, runs[s].item = j
        PROVE  runs'[s] = runs[s] /\ (StillOwner(s)' => StillOwner(s))
    <3>1. runs'[s] = runs[s] /\ runs[s].attempt \in Attempts
      BY <1>4, <2>2, Typed, Constants DEF OnlyRun, Base, RunsKnown, RunKnown, IdleRun
    <3> QED BY <1>2, <3>1 DEF StillOwner
  <2>3. ASSUME NEW s \in Runs \ {r}, runs[s].item = j
        PROVE  (StillOwner(s)' => Reliable(s, j)') /\ Requeues(s, j)'
    <3>1. (StillOwner(s) => Reliable(s, j)) /\ Requeues(s, j)
      BY <2>1, <2>3 DEF Undisturbed
    <3>2. StillOwner(s)' => Reliable(s, j)'
      BY <1>0, <2>1, <2>2, <2>3, <3>1 DEF Reliable
    <3>3. Requeues(s, j)'
      <4>1. ASSUME runs[s].phase = "requeue", items[j].state # "gone", NEW q \in Runs,
                   runs'[q].phase \in {"query", "create", "update", "persist", "complete"},
                   runs'[q].item = j, StillOwner(q)'
            PROVE  runs'[s].version <= runs'[q].version
        <5>1. q # r
          BY <1>3, <1>4, <4>1
        <5>2. runs'[q] = runs[q]
          BY <1>4, <5>1 DEF OnlyRun
        <5> QED BY <2>2, <2>3, <3>1, <4>1, <5>1, <5>2 DEF Requeues
      <4> QED BY <1>0, <2>2, <2>3, <3>1, <4>1 DEF Requeues
    <3> QED BY <3>2, <3>3
  <2>4. Reliable(r, j)' /\ Requeues(r, j)'
    BY <1>3, <1>4 DEF Reliable, Requeues
  <2>5. \A s \in Runs : runs'[s].item = j => (StillOwner(s)' => Reliable(s, j)') /\ Requeues(s, j)'
    BY <1>4, <2>3, <2>4 DEF OnlyRun
  <2>6. PagesOf(j)' /\ Shown(j)'
    BY <1>0, <2>1 DEF Undisturbed, PagesOf, Shown
  <2>7. InSight(j)'
    <3>1. \A s \in Runs : runs[s].phase = "requeue" => runs'[s] = runs[s]
      BY <1>1, <1>4 DEF OnlyRun
    <3> QED BY <1>0, <1>2, <2>1, <3>1 DEF Undisturbed, InSight, StaySighted
  <2> QED BY <2>5, <2>6, <2>7 DEF Undisturbed
<1> QED BY <1>2, <1>5, <1>6, <1>7, <1>8 DEF IInv, Base

LEMMA FailsRow ==
  ASSUME runs \in [Runs -> RunRecord], NEW r \in Runs,
         NEW phase \in {"retry", "fail", "missing"},
         NEW code \in {"none", "missing", "other"}, Fails(r, phase, code)
  PROVE  /\ OnlyRun(r) /\ runs'[r].phase = phase /\ runs'[r].attempt = runs[r].attempt
         /\ runs'[r].item = runs[r].item /\ runs'[r].version = 0 /\ runs'[r].page = None
<1> DEFINE one == [runs[r] EXCEPT !.phase = phase]
           two == [one EXCEPT !.code = code]
           three == [two EXCEPT !.version = 0]
           four == [three EXCEPT !.page = None]
<1>1. runs' = [runs EXCEPT ![r] = four]
  BY DEF Fails
<1>2. one \in RunRecord /\ one.phase = phase /\ one.attempt = runs[r].attempt /\ one.item = runs[r].item
  BY DEF RunRecord
<1> HIDE DEF one
<1>3. two \in RunRecord /\ two.phase = phase /\ two.attempt = runs[r].attempt /\ two.item = runs[r].item
  BY <1>2 DEF RunRecord
<1> HIDE DEF two
<1>4. /\ three \in RunRecord /\ three.phase = phase /\ three.attempt = runs[r].attempt
      /\ three.item = runs[r].item /\ three.version = 0
  BY <1>3, Constants DEF RunRecord
<1> HIDE DEF three
<1>5. /\ four \in RunRecord /\ four.phase = phase /\ four.attempt = runs[r].attempt
      /\ four.item = runs[r].item /\ four.version = 0 /\ four.page = None
  BY <1>4 DEF RunRecord
<1> HIDE DEF four
<1> QED BY <1>1, <1>5 DEF OnlyRun

LEMMA GoesRow ==
  ASSUME runs \in [Runs -> RunRecord], NEW r \in Runs,
         NEW phase \in {"create", "persist", "requeue"}, Goes(r, phase)
  PROVE  /\ OnlyRun(r) /\ runs'[r].phase = phase /\ runs'[r].attempt = runs[r].attempt
         /\ runs'[r].item = runs[r].item /\ runs'[r].version = runs[r].version
         /\ runs'[r].page = runs[r].page
BY DEF Goes, OnlyRun, RunRecord

\* A run is given a page and goes on.
LEMMA PageRow ==
  ASSUME runs \in [Runs -> RunRecord], NEW r \in Runs, NEW page \in Pages \cup {None},
         NEW phase \in {"update", "persist", "complete"},
         \/ runs' = [runs EXCEPT ![r].page = page, ![r].phase = phase]
         \/ runs' = [runs EXCEPT ![r].phase = phase, ![r].page = page]
  PROVE  /\ OnlyRun(r) /\ runs'[r].phase = phase /\ runs'[r].attempt = runs[r].attempt
         /\ runs'[r].item = runs[r].item /\ runs'[r].version = runs[r].version
         /\ runs'[r].page = page
<1>1. CASE runs' = [runs EXCEPT ![r].page = page, ![r].phase = phase]
  <2> DEFINE one == [runs EXCEPT ![r].page = page]
             two == [one EXCEPT ![r].phase = phase]
  <2>1. runs' = two
    BY <1>1
  <2>2. /\ one \in [Runs -> RunRecord] /\ \A s \in Runs \ {r} : one[s] = runs[s]
        /\ one[r].attempt = runs[r].attempt /\ one[r].item = runs[r].item
        /\ one[r].version = runs[r].version /\ one[r].page = page
    BY DEF RunRecord
  <2> HIDE DEF one
  <2>3. /\ two \in [Runs -> RunRecord] /\ \A s \in Runs \ {r} : two[s] = runs[s]
        /\ two[r].attempt = runs[r].attempt /\ two[r].item = runs[r].item
        /\ two[r].version = runs[r].version /\ two[r].page = page /\ two[r].phase = phase
    BY <2>2 DEF RunRecord
  <2> HIDE DEF two
  <2> QED BY <2>1, <2>3 DEF OnlyRun
<1>2. CASE runs' = [runs EXCEPT ![r].phase = phase, ![r].page = page]
  <2> DEFINE one == [runs EXCEPT ![r].phase = phase]
             two == [one EXCEPT ![r].page = page]
  <2>1. runs' = two
    BY <1>2
  <2>2. /\ one \in [Runs -> RunRecord] /\ \A s \in Runs \ {r} : one[s] = runs[s]
        /\ one[r].attempt = runs[r].attempt /\ one[r].item = runs[r].item
        /\ one[r].version = runs[r].version /\ one[r].phase = phase
    BY DEF RunRecord
  <2> HIDE DEF one
  <2>3. /\ two \in [Runs -> RunRecord] /\ \A s \in Runs \ {r} : two[s] = runs[s]
        /\ two[r].attempt = runs[r].attempt /\ two[r].item = runs[r].item
        /\ two[r].version = runs[r].version /\ two[r].page = page /\ two[r].phase = phase
    BY <2>2 DEF RunRecord
  <2> HIDE DEF two
  <2> QED BY <2>1, <2>3 DEF OnlyRun
<1> QED BY <1>1, <1>2

LEMMA EndsRow ==
  ASSUME runs \in [Runs -> RunRecord], NEW r \in Runs, Ends(r)
  PROVE  OnlyRun(r) /\ runs'[r] = IdleRun
BY IdleRow DEF Ends, OnlyRun

\* A run that goes on with the attempt and the item it has.
LEMMA RunGoesOn ==
  ASSUME Base, Moves, NEW r \in Runs, runs[r].phase # "idle", OnlyRun(r), OnlyItem(runs[r].item),
         runs'[r].phase # "idle", runs'[r].attempt = runs[r].attempt,
         runs'[r].item = runs[r].item,
         items'[runs[r].item].state = items[runs[r].item].state,
         items'[runs[r].item].version = items[runs[r].item].version,
         runs'[r].version \in {0, runs[r].version, items[runs[r].item].version},
         runs'[r].phase \in {"update", "persist"} => runs'[r].page \in Pages
  PROVE  RunKnown(r)'
<1> DEFINE i == runs[r].item
<1>1. /\ runs[r].attempt \in Attempts /\ i \in Items
      /\ attempts[runs[r].attempt].item \in {i, None}
      /\ attempts[runs[r].attempt].status # "absent"
      /\ items[i].state # "gone" => runs[r].version <= items[i].version
  BY DEF Base, RunsKnown, RunKnown
<1>2. items[i].version \in Nat
  BY <1>1, Constants DEF Base, TypeOK, ItemRecord
<1>3. /\ attempts'[runs[r].attempt].item \in {i, None}
      /\ attempts'[runs[r].attempt].status # "absent"
  BY <1>1 DEF Moves
<1>4. items'[i].state # "gone" => runs'[r].version <= items'[i].version
  BY <1>1, <1>2
<1> QED BY <1>1, <1>3, <1>4 DEF RunKnown

Effective == {"query", "create", "update", "persist", "complete"}

\* A step of a run that touches neither its item nor a page.
LEMMA QuietStep ==
  ASSUME IInv, NEW r \in Runs, NEW i \in Items, runs[r].item = i, OnlyRun(r), Moves,
         UNCHANGED <<items, pages, overtaken, unseen>>, faults' \in 0 .. MaxFaults,
         dropped' \in BOOLEAN, dropped => dropped',
         runs'[r] = IdleRun \/ (runs'[r].item = i /\ runs'[r].attempt = runs[r].attempt),
         RunKnown(r)', Known(runs[r].page, i)',
         \A j \in Items \ {i} : Sighted(j) => Sighted(j)',
         ~overtaken /\ Undisturbed(i) /\ runs'[r].item = i =>
           (StillOwner(r)' => Reliable(r, i)') /\ Requeues(r, i)',
         runs'[r].phase \in Effective =>
           \/ runs[r].phase \in Effective /\ runs'[r].version = runs[r].version
           \/ runs'[r].version = items[i].version,
         ~overtaken /\ Undisturbed(i) => InSight(i)'
  PROVE  IInv'
<1>1. PagesStay /\ \A j \in Items : PagesAlone(j)
  BY Alone, Typed
<1>2. OnlyItem(i) /\ GoesOn(i) /\ Known(items[i].page, i)'
  BY Typed, Constants DEF OnlyItem, GoesOn, ItemRecord, Base, PagesKnown, Known
<1>3. ASSUME ~overtaken', Undisturbed(i)
      PROVE  Undisturbed(i)'
  <2>1. ASSUME NEW s \in Runs \ {r}, runs[s].item = i
        PROVE  runs'[s] = runs[s] /\ (StillOwner(s)' => StillOwner(s))
    <3>1. runs[s].phase # "idle"
      BY <2>1, Typed, Constants DEF Base, RunsKnown, RunKnown, IdleRun
    <3> QED BY <2>1, <3>1, OwnersKeep, Typed DEF OnlyRun
  <2>2. ASSUME NEW s \in Runs \ {r}, runs[s].item = i, StillOwner(s)'
        PROVE  Reliable(s, i)'
    <3>1. Reliable(s, i)
      BY <1>3, <2>1, <2>2 DEF Undisturbed
    <3> QED BY <1>1, <2>1, <2>2, <3>1 DEF Reliable, PagesAlone
  <2>3. StillOwner(r)' /\ runs'[r].item = i => StillOwner(r)
    <3>1. runs[r].phase # "idle"
      BY Typed, Constants DEF Base, RunsKnown, RunKnown, IdleRun
    <3> QED BY <3>1, IdleRow, Constants, OwnersKeep, Typed
  <2>4. ASSUME NEW s \in Runs \ {r}, runs[s].item = i
        PROVE  Requeues(s, i)'
    <3>1. Requeues(s, i) /\ runs'[s] = runs[s]
      BY <1>3, <2>1, <2>4 DEF Undisturbed
    <3>2. items[i].state # "gone" => runs[s].version <= items[i].version
      BY <2>4, Typed, Constants DEF Base, RunsKnown, RunKnown, IdleRun
    <3>3. ASSUME runs[s].phase = "requeue", items[i].state # "gone", NEW q \in Runs,
                 runs'[q].phase \in Effective, runs'[q].item = i, StillOwner(q)'
          PROVE  runs[s].version <= runs'[q].version
      <4>1. CASE q = r
        <5>1. StillOwner(r)
          BY <2>3, <3>3, <4>1
        <5> QED BY <3>1, <3>2, <3>3, <4>1, <5>1 DEF Requeues, Effective
      <4>2. CASE q # r
        <5>1. runs'[q] = runs[q]
          BY <4>2 DEF OnlyRun
        <5> QED BY <2>1, <3>1, <3>3, <4>2, <5>1 DEF Requeues, Effective
      <4> QED BY <4>1, <4>2
    <3> QED BY <3>1, <3>3 DEF Requeues, Effective
  <2>5. \A s \in Runs : runs'[s].item = i => (StillOwner(s)' => Reliable(s, i)') /\ Requeues(s, i)'
    BY <1>3, <2>2, <2>4 DEF OnlyRun
  <2>6. PagesOf(i)' /\ Shown(i)'
    BY <1>1, <1>3 DEF Undisturbed, PagesOf, Shown, PagesAlone
  <2> QED BY <1>3, <2>5, <2>6 DEF Undisturbed
<1>4. runs'[r].item \in {i, None}
  BY IdleRow
<1>5. overtaken' \in BOOLEAN
  BY DEF IInv, Base, TypeOK
<1> QED BY <1>1, <1>2, <1>3, <1>4, <1>5, RunStep

\* A step of a run that does something, to its item or to the page of its item.
LEMMA EffectStep ==
  ASSUME IInv, NEW r \in Runs, NEW i \in Items, runs[r].item = i, OnlyRun(r), OnlyItem(i),
         UNCHANGED <<attempts, faults, dropped, unseen>>, Acts(r), PagesStay,
         \A j \in Items \ {i} : PagesAlone(j),
         runs'[r].item = i, runs'[r].attempt = runs[r].attempt, runs'[r].phase # "requeue",
         runs'[r].phase # "idle", runs[r].phase # "requeue",
         runs'[r].version \in {0, runs[r].version}, Known(runs[r].page, i)',
         runs'[r].phase \in {"update", "persist"} => runs'[r].page \in Pages,
         runs'[r].phase \in Effective =>
           runs[r].phase \in Effective /\ runs'[r].version = runs[r].version,
         items'[i].state = items[i].state, items'[i].version = items[i].version,
         items'[i].purge = items[i].purge,
         Known(items[i].page, i)',
         \/ items'[i].synced = items[i].synced
         \/ /\ runs[r].phase \in Effective
            /\ items[i].version = runs[r].version => items'[i].synced,
         StillOwner(r) /\ Undisturbed(i) => Reliable(r, i)' /\ PagesOf(i)' /\ Shown(i)'
  PROVE  IInv'
<1>1. Moves /\ StaySighted
  BY SameMoves, Typed
<1>2. runs[r].phase # "idle"
  BY Typed, Constants DEF Base, RunsKnown, RunKnown, IdleRun
<1>3. RunKnown(r)'
  BY <1>1, <1>2, RunGoesOn, Typed
<1>4. GoesOn(i)
  BY Typed, Constants DEF GoesOn, ItemRecord
<1>5. overtaken' \in BOOLEAN /\ (overtaken => overtaken') /\ (~overtaken' => StillOwner(r))
  BY Zenon, Typed DEF Acts, TypeOK
<1>6. ASSUME ~overtaken', Undisturbed(i)
      PROVE  Undisturbed(i)'
  <2>1. ASSUME NEW s \in Runs \ {r}, runs[s].item = i
        PROVE  runs'[s] = runs[s] /\ ~StillOwner(s)'
    <3>1. runs'[s] = runs[s] /\ ~StillOwner(s)
      BY <1>5, <1>6, <2>1, OneOwner, Typed DEF OnlyRun
    <3> QED BY <3>1 DEF StillOwner
  <2>2. ASSUME NEW s \in Runs \ {r}, runs[s].item = i
        PROVE  Requeues(s, i)'
    <3>1. Requeues(s, i) /\ runs'[s] = runs[s]
      BY <1>6, <2>1, <2>2 DEF Undisturbed
    <3>2. /\ items[i].state # "gone" => runs[s].version <= items[i].version
          /\ items[i].state # "gone" => runs[r].version <= items[i].version
      BY <2>2, Typed, Constants DEF Base, RunsKnown, RunKnown, IdleRun
    <3>3. runs[s].version \in Nat /\ runs[r].version \in Nat /\ items[i].version \in Nat
      BY Typed, Constants DEF RunRecord, ItemRecord
    <3>4. ASSUME runs[s].phase = "requeue", items[i].state # "gone", runs[r].phase \in Effective
          PROVE  runs[s].version <= runs[r].version
      BY <1>5, <1>6, <3>1, <3>4 DEF Requeues, Effective
    <3>5. ASSUME runs[s].phase = "requeue", items[i].state # "gone",
                 items[i].version = runs[s].version
          PROVE  items'[i].synced
      BY <3>1, <3>2, <3>3, <3>4, <3>5 DEF Requeues
    <3>6. ASSUME runs[s].phase = "requeue", items[i].state # "gone", NEW q \in Runs,
                 runs'[q].phase \in Effective, runs'[q].item = i, StillOwner(q)'
          PROVE  runs[s].version <= runs'[q].version
      <4>1. q = r
        BY <2>1, <3>6 DEF OnlyRun
      <4> QED BY <3>4, <3>6, <4>1
    <3> QED BY <3>1, <3>5, <3>6 DEF Requeues, Effective
  <2>3. Requeues(r, i)'
    BY DEF Requeues
  <2>4. \A s \in Runs : runs'[s].item = i => (StillOwner(s)' => Reliable(s, i)') /\ Requeues(s, i)'
    BY <1>5, <1>6, <2>1, <2>2, <2>3 DEF OnlyRun
  <2>5. InSight(i)'
    BY <1>1, <1>2, <1>5, <1>6, OwnersItem, Typed DEF InSight, StaySighted
  <2> QED BY <1>5, <1>6, <2>4, <2>5 DEF Undisturbed
<1>7. faults' \in 0 .. MaxFaults /\ dropped' \in BOOLEAN
  BY Typed DEF TypeOK
<1> QED BY <1>1, <1>3, <1>4, <1>5, <1>6, <1>7, RunStep DEF StaySighted

LEMMA ReadItemInv ==
  ASSUME IInv, NEW r \in Runs, ReadItem(r)
  PROVE  IInv'
<1>0. runs[r].phase = "read" /\ UNCHANGED <<items, attempts, pages, faults, overtaken, dropped, unseen>>
  BY Zenon DEF ReadItem
<1>1. PICK i \in Items : runs[r].item = i
  BY <1>0, OwnersItem, Typed
<1>2. Moves /\ StaySighted
  BY <1>0, SameMoves, Typed
<1>3. CASE items[i].state = "live"
  <2> DEFINE phase == IF items[i].page = None THEN "query" ELSE "update"
             one == [runs EXCEPT ![r].version = items[i].version]
             two == [one EXCEPT ![r].page = items[i].page]
             three == [two EXCEPT ![r].phase = phase]
  <2>1. runs' = three
    BY <1>1, <1>3 DEF ReadItem
  <2>2. items[i] \in ItemRecord
    BY <1>1, Typed
  <2>3. /\ one \in [Runs -> RunRecord] /\ \A s \in Runs \ {r} : one[s] = runs[s]
        /\ one[r].attempt = runs[r].attempt /\ one[r].item = i
        /\ one[r].version = items[i].version
    BY <1>1, <2>2, Typed DEF RunRecord, ItemRecord
  <2> HIDE DEF one
  <2>4. /\ two \in [Runs -> RunRecord] /\ \A s \in Runs \ {r} : two[s] = runs[s]
        /\ two[r].attempt = runs[r].attempt /\ two[r].item = i
        /\ two[r].version = items[i].version /\ two[r].page = items[i].page
    BY <2>2, <2>3 DEF RunRecord, ItemRecord
  <2>5. /\ phase \in {"query", "update"}
        /\ phase = "query" => items[i].page = None
        /\ phase = "update" => items[i].page # None
    OBVIOUS
  <2> HIDE DEF two, phase
  <2>6. /\ three \in [Runs -> RunRecord] /\ \A s \in Runs \ {r} : three[s] = runs[s]
        /\ three[r].attempt = runs[r].attempt /\ three[r].item = i
        /\ three[r].version = items[i].version /\ three[r].page = items[i].page
        /\ three[r].phase = phase
    BY <2>4, <2>5 DEF RunRecord
  <2> HIDE DEF three
  <2>7. OnlyRun(r) /\ OnlyItem(i)
    BY <1>0, <2>1, <2>6, Typed DEF OnlyRun, OnlyItem
  <2>8. RunKnown(r)'
    <3>1. items[i].page # None => items[i].page \in Pages
      BY <2>2 DEF ItemRecord
    <3> QED BY <1>0, <1>1, <1>2, <2>1, <2>5, <2>6, <2>7, <3>1, RunGoesOn, Typed
  <2>9. Known(runs[r].page, i)'
    BY <1>0, <1>1, <2>1, <2>6, Typed DEF Base, PagesKnown, Known
  <2>10. ASSUME ~overtaken, Undisturbed(i)
         PROVE  Reliable(r, i)' /\ Requeues(r, i)' /\ InSight(i)'
    <3>1. items[i].purge = "none"
      BY <1>1, <1>3, <2>2, Typed DEF PurgeKnown, ItemRecord
    <3>2. Live(i)' = Live(i)
      BY <1>0 DEF Live
    <3>3. Reliable(r, i)'
      BY <1>0, <2>1, <2>5, <2>6, <2>10, <3>1, <3>2 DEF Undisturbed, PagesOf, Reliable
    <3>4. Requeues(r, i)'
      BY <2>1, <2>5, <2>6 DEF Requeues
    <3>5. InSight(i)'
      BY <1>0, <1>1, <1>2, <2>1, <2>6, <2>10 DEF Undisturbed, InSight, StaySighted
    <3> QED BY <3>3, <3>4, <3>5
  <2> QED BY <1>0, <1>1, <1>2, <2>1, <2>6, <2>7, <2>8, <2>9, <2>10, QuietStep, Typed
      DEF StaySighted, TypeOK
<1>4. CASE items[i].state # "live"
  <2>1. Fails(r, "fail", "other")
    BY <1>1, <1>4 DEF ReadItem
  <2>2. /\ OnlyRun(r) /\ runs'[r].phase = "fail" /\ runs'[r].attempt = runs[r].attempt
        /\ runs'[r].item = i /\ runs'[r].version = 0 /\ runs'[r].page = None
    BY <1>1, <2>1, FailsRow, Typed
  <2>3. RunKnown(r)' /\ Known(runs[r].page, i)'
    BY <1>0, <1>1, <1>2, <2>2, RunGoesOn, Typed, Constants DEF OnlyItem, Known
  <2>4. Reliable(r, i)' /\ Requeues(r, i)'
    BY <2>2 DEF Reliable, Requeues
  <2>5. Undisturbed(i) => InSight(i)'
    BY <1>0, <1>1, <1>2, <2>2 DEF Undisturbed, InSight, StaySighted, OnlyRun
  <2> QED BY <1>0, <1>1, <1>2, <2>2, <2>3, <2>4, <2>5, QuietStep, Typed
      DEF StaySighted, Effective, TypeOK
<1> QED BY <1>3, <1>4

\* A run that fails without having done anything.
LEMMA FailingStep ==
  ASSUME IInv, NEW r \in Runs, runs[r].phase # "idle", NEW phase \in {"retry", "fail"},
         NEW code \in {"none", "missing", "other"}, Fails(r, phase, code),
         UNCHANGED <<items, attempts, pages, overtaken, unseen>>, faults' \in 0 .. MaxFaults,
         dropped' \in BOOLEAN, dropped => dropped', runs[r].phase = "requeue" => dropped'
  PROVE  IInv'
<1>1. PICK i \in Items : runs[r].item = i
  BY OwnersItem, Typed
<1>2. Moves /\ StaySighted
  BY SameMoves, Typed
<1>3. /\ OnlyRun(r) /\ runs'[r].phase = phase /\ runs'[r].attempt = runs[r].attempt
      /\ runs'[r].item = i /\ runs'[r].version = 0 /\ runs'[r].page = None
  BY <1>1, FailsRow, Typed
<1>4. OnlyItem(i)
  BY Typed DEF OnlyItem
<1>5. RunKnown(r)' /\ Known(runs[r].page, i)'
  BY <1>1, <1>2, <1>3, <1>4, RunGoesOn, Typed, Constants DEF Known
<1>6. Reliable(r, i)' /\ Requeues(r, i)'
  BY <1>3 DEF Reliable, Requeues
<1>7. Undisturbed(i) => InSight(i)'
  BY <1>1, <1>2, <1>3 DEF Undisturbed, InSight, StaySighted, OnlyRun
<1> QED BY <1>1, <1>2, <1>3, <1>5, <1>6, <1>7, QuietStep DEF StaySighted, Effective

LEMMA QueryPagesInv ==
  ASSUME IInv, NEW r \in Runs, QueryPages(r)
  PROVE  IInv'
<1>0. runs[r].phase = "query" /\ UNCHANGED <<items, attempts, pages, faults, overtaken, dropped, unseen>>
  BY Zenon DEF QueryPages
<1>1. PICK i \in Items : runs[r].item = i
  BY <1>0, OwnersItem, Typed
<1>2. Moves /\ StaySighted
  BY <1>0, SameMoves, Typed
<1>3. ASSUME OnlyRun(r), runs'[r].phase \in {"create", "update"}, runs'[r].attempt = runs[r].attempt,
             runs'[r].item = i, runs'[r].version = runs[r].version,
             runs'[r].phase = "create" => Live(i) = {} /\ runs'[r].page = runs[r].page,
             runs'[r].phase = "update" => runs'[r].page \in Live(i)
      PROVE  IInv'
  <2>1. OnlyItem(i)
    BY <1>0, Typed DEF OnlyItem
  <2>2. RunKnown(r)'
    BY <1>0, <1>1, <1>2, <1>3, <2>1, RunGoesOn, Typed DEF Live
  <2>3. Known(runs[r].page, i)'
    BY <1>0, <1>1, <1>3, Typed DEF Known, Live, Base, PagesKnown
  <2>4. ASSUME ~overtaken, Undisturbed(i)
        PROVE  StillOwner(r)' => Reliable(r, i)'
    <3>1. StillOwner(r)' => StillOwner(r)
      BY <1>0, <1>3 DEF StillOwner
    <3>2. Live(i)' = Live(i)
      BY <1>0 DEF Live
    <3>3. StillOwner(r) => Reliable(r, i)
      BY <1>1, <2>4 DEF Undisturbed
    <3>4. \A p, q \in Live(i) : p = q
      BY <2>4 DEF Undisturbed, PagesOf
    <3> QED BY <1>0, <1>3, <3>1, <3>2, <3>3, <3>4 DEF Reliable
  <2>5. Requeues(r, i)'
    BY <1>3 DEF Requeues
  <2>6. Undisturbed(i) => InSight(i)'
    BY <1>0, <1>1, <1>2, <1>3 DEF Undisturbed, InSight, StaySighted, OnlyRun
  <2> QED BY <1>0, <1>1, <1>2, <1>3, <2>2, <2>3, <2>4, <2>5, <2>6, QuietStep, Typed
      DEF StaySighted, Effective, TypeOK
<1>4. CASE Live(runs[r].item) = {} /\ Goes(r, "create")
  BY <1>1, <1>3, <1>4, GoesRow, Typed
<1>5. CASE \E p \in Live(runs[r].item) :
             runs' = [runs EXCEPT ![r].page = p, ![r].phase = "update"]
  <2>1. PICK p \in Live(i) : runs' = [runs EXCEPT ![r].page = p, ![r].phase = "update"]
    BY <1>1, <1>5
  <2>2. p \in Pages
    BY DEF Live
  <2>3. /\ OnlyRun(r) /\ runs'[r].phase = "update" /\ runs'[r].attempt = runs[r].attempt
        /\ runs'[r].item = runs[r].item /\ runs'[r].version = runs[r].version
        /\ runs'[r].page = p
    BY <2>1, <2>2, PageRow, Typed
  <2> QED BY <1>1, <1>3, <2>3
<1>6. ASSUME NEW outcome \in {"retry", "fail"}, Fails(r, outcome, "other")
      PROVE  IInv'
  BY <1>0, <1>6, FailingStep, Typed DEF TypeOK
<1>7. \/ Live(runs[r].item) = {} /\ Goes(r, "create")
      \/ \E p \in Live(runs[r].item) :
           runs' = [runs EXCEPT ![r].page = p, ![r].phase = "update"]
      \/ \E outcome \in {"retry", "fail"} : Fails(r, outcome, "other")
  BY Zenon DEF QueryPages, RequestFails
<1> QED BY <1>4, <1>5, <1>6, <1>7

\* A request without effect.
LEMMA RequestFailsInv ==
  ASSUME IInv, NEW r \in Runs, runs[r].phase \notin {"idle", "requeue"},
         NEW phase \in {"retry", "fail", "missing"}, NEW code \in {"none", "missing", "other"},
         Fails(r, phase, code), Acts(r),
         UNCHANGED <<items, attempts, pages, faults, dropped, unseen>>,
         phase = "missing" => runs[r].phase = "update" /\ runs[r].page \notin Live(runs[r].item)
  PROVE  IInv'
<1>1. PICK i \in Items : runs[r].item = i
  BY OwnersItem, Typed
<1>2. /\ OnlyRun(r) /\ runs'[r].phase = phase /\ runs'[r].attempt = runs[r].attempt
      /\ runs'[r].item = i /\ runs'[r].version = 0 /\ runs'[r].page = None
  BY <1>1, FailsRow, Typed
<1>3. OnlyItem(i) /\ PagesStay /\ \A j \in Items : PagesAlone(j)
  BY Alone, Typed DEF OnlyItem
<1>4. Known(runs[r].page, i)' /\ Known(items[i].page, i)'
  BY <1>2, Typed, Constants DEF Known, Base, PagesKnown
<1>5. ASSUME StillOwner(r), Undisturbed(i)
      PROVE  Reliable(r, i)' /\ PagesOf(i)' /\ Shown(i)'
  <2>1. Live(i)' = Live(i) /\ None \notin Live(i)
    BY Constants DEF Live
  <2>2. Reliable(r, i)
    BY <1>1, <1>5 DEF Undisturbed
  <2>3. Reliable(r, i)'
    BY <1>1, <1>2, <2>1, <2>2 DEF Reliable
  <2>4. PagesOf(i)' /\ Shown(i)'
    BY <1>5, <2>1 DEF Undisturbed, PagesOf, Shown
  <2> QED BY <2>3, <2>4
<1>6. runs'[r].phase \notin Effective /\ runs'[r].phase \notin {"idle", "requeue", "update", "persist"}
  BY <1>2 DEF Effective
<1> QED BY <1>1, <1>2, <1>3, <1>4, <1>5, <1>6, EffectStep

LEMMA UpdatePageInv ==
  ASSUME IInv, NEW r \in Runs, UpdatePage(r)
  PROVE  IInv'
<1>0. /\ runs[r].phase = "update" /\ Acts(r) /\ UNCHANGED <<items, attempts, faults, dropped, unseen>>
  BY Zenon DEF UpdatePage
<1>1. PICK i \in Items : runs[r].item = i
  BY <1>0, OwnersItem, Typed
<1>2. PICK p \in Pages : runs[r].page = p
  BY <1>0, Typed DEF Base, RunsKnown, RunKnown
<1>3. pages[p].item = i
  BY <1>1, <1>2, Typed DEF Base, PagesKnown, Known
<1>4. CASE /\ pages[p].state = "live"
           /\ pages' = [pages EXCEPT ![p].version = runs[r].version]
           /\ Goes(r, "persist") \/ Fails(r, "retry", "other")
  <2>1. /\ OnlyRun(r) /\ runs'[r].attempt = runs[r].attempt /\ runs'[r].item = i
        /\ \/ runs'[r].phase = "persist" /\ runs'[r].page = p /\ runs'[r].version = runs[r].version
           \/ runs'[r].phase = "retry" /\ runs'[r].page = None /\ runs'[r].version = 0
    BY <1>1, <1>2, <1>4, GoesRow, FailsRow, Typed
  <2>2. /\ pages' \in [Pages -> PageRecord] /\ \A q \in Pages \ {p} : pages'[q] = pages[q]
        /\ pages'[p].item = i /\ pages'[p].state = "live" /\ pages'[p].version = runs[r].version
    <3>1. pages[p] \in PageRecord /\ runs[r].version \in 0 .. MaxVersion
      BY Typed DEF RunRecord
    <3> QED BY <1>3, <1>4, <3>1, Typed DEF PageRecord
  <2>3. OnlyItem(i) /\ PagesStay /\ \A j \in Items \ {i} : PagesAlone(j)
    BY <1>0, <1>3, <2>2, Typed DEF OnlyItem, PagesStay, PagesAlone, Live, Base, PagesKnown
  <2>4. Known(runs[r].page, i)' /\ Known(items[i].page, i)'
    BY <1>0, <2>1, <2>2, <2>3, Typed, Constants DEF Known, Base, PagesKnown, PagesStay
  <2>5. ASSUME StillOwner(r), Undisturbed(i)
        PROVE  Reliable(r, i)' /\ PagesOf(i)' /\ Shown(i)'
    <3>1. Live(i)' = Live(i) /\ None \notin Live(i)
      BY <1>3, <1>4, <2>2, Constants DEF Live
    <3>2. /\ items[i].purge \in {"none", "freeze"} /\ items[i].page \in {None, p}
          /\ Live(i) \subseteq {p}
          /\ items[i].synced => items[i].version = runs[r].version
      BY <1>0, <1>1, <1>2, <2>5 DEF Undisturbed, Reliable
    <3>3. Reliable(r, i)'
      <4>1. items'[i] = items[i]
        BY <1>0
      <4> QED BY <2>1, <2>2, <3>1, <3>2, <4>1 DEF Reliable
    <3>4. PagesOf(i)'
      BY <1>0, <2>5, <3>1 DEF Undisturbed, PagesOf
    <3>5. Shown(i)'
      <4>1. items[i].page \in Live(i) => items[i].page = p
        BY <3>1, <3>2
      <4>2. Shown(i) /\ items' = items
        BY <1>0, <2>5 DEF Undisturbed
      <4> QED BY <2>2, <3>1, <3>2, <4>1, <4>2 DEF Shown
    <3> QED BY <3>3, <3>4, <3>5
  <2>6. items'[i] = items[i] /\ runs'[r].version \in {0, runs[r].version}
    BY <1>0, <2>1
  <2>7. /\ runs'[r].phase \notin {"requeue", "idle"} /\ runs[r].phase # "requeue"
        /\ runs'[r].phase \in {"update", "persist"} => runs'[r].page \in Pages
        /\ runs'[r].phase \in Effective =>
             runs[r].phase \in Effective /\ runs'[r].version = runs[r].version
    BY <1>0, <2>1 DEF Effective
  <2> QED BY <1>0, <1>1, <2>1, <2>3, <2>4, <2>5, <2>6, <2>7, EffectStep
<1>5. CASE /\ pages[p].state = "gone"
           /\ Fails(r, "missing", "none") \/ Fails(r, "fail", "other")
           /\ UNCHANGED pages
  <2>1. runs[r].page \notin Live(runs[r].item)
    BY <1>2, <1>5 DEF Live
  <2> QED BY <1>0, <1>5, <2>1, RequestFailsInv
<1>6. ASSUME NEW outcome \in {"retry", "fail"}, Fails(r, outcome, "other"), pages' = pages
      PROVE  IInv'
  BY <1>0, <1>6, RequestFailsInv
<1>7. LET q == runs[r].page
      IN \/ /\ pages[q].state = "live"
            /\ pages' = [pages EXCEPT ![q].version = runs[r].version]
            /\ Goes(r, "persist") \/ Fails(r, "retry", "other")
         \/ /\ pages[q].state = "gone"
            /\ Fails(r, "missing", "none") \/ Fails(r, "fail", "other")
            /\ UNCHANGED pages
         \/ /\ \E outcome \in {"retry", "fail"} : Fails(r, outcome, "other")
            /\ UNCHANGED pages
  BY Zenon DEF UpdatePage, RequestFails
<1> QED BY <1>2, <1>4, <1>5, <1>6, <1>7

LEMMA CreatePageInv ==
  ASSUME IInv, NEW r \in Runs, CreatePage(r)
  PROVE  IInv'
<1>0. runs[r].phase = "create" /\ Acts(r) /\ UNCHANGED <<items, attempts, faults, dropped, unseen>>
  BY Zenon DEF CreatePage
<1>1. PICK i \in Items : runs[r].item = i
  BY <1>0, OwnersItem, Typed
<1>2. ASSUME NEW p \in Pages, pages[p].state = "absent",
             pages' = [pages EXCEPT ![p] = [item |-> runs[r].item, state |-> "live",
                                            version |-> runs[r].version]],
             \/ runs' = [runs EXCEPT ![r].page = p, ![r].phase = "persist"]
             \/ Fails(r, "retry", "other")
      PROVE  IInv'
  <2>1. /\ OnlyRun(r) /\ runs'[r].attempt = runs[r].attempt /\ runs'[r].item = i
        /\ \/ runs'[r].phase = "persist" /\ runs'[r].page = p /\ runs'[r].version = runs[r].version
           \/ runs'[r].phase = "retry" /\ runs'[r].page = None /\ runs'[r].version = 0
    <3>1. CASE runs' = [runs EXCEPT ![r].page = p, ![r].phase = "persist"]
      <4>1. /\ OnlyRun(r) /\ runs'[r].phase = "persist" /\ runs'[r].attempt = runs[r].attempt
            /\ runs'[r].item = runs[r].item /\ runs'[r].version = runs[r].version
            /\ runs'[r].page = p
        BY <3>1, PageRow, Typed
      <4> QED BY <1>1, <4>1
    <3>2. CASE Fails(r, "retry", "other")
      BY <1>1, <3>2, FailsRow, Typed
    <3> QED BY <1>2, <3>1, <3>2
  <2>2. /\ pages' \in [Pages -> PageRecord] /\ \A q \in Pages \ {p} : pages'[q] = pages[q]
        /\ pages'[p].item = i /\ pages'[p].state = "live" /\ pages'[p].version = runs[r].version
    <3>1. runs[r].version \in 0 .. MaxVersion
      BY Typed DEF RunRecord
    <3> QED BY <1>1, <1>2, <3>1, Typed DEF PageRecord
  <2>3. OnlyItem(i) /\ PagesStay /\ \A j \in Items \ {i} : PagesAlone(j)
    BY <1>0, <1>2, <2>2, Typed DEF OnlyItem, PagesStay, PagesAlone, Live, Base, PagesKnown
  <2>4. Known(runs[r].page, i)' /\ Known(items[i].page, i)'
    <3>1. Known(items[i].page, i)'
      BY <1>0, <2>3, Typed DEF Known, Base, PagesKnown, PagesStay
    <3> QED BY <2>1, <2>2, <3>1, Constants DEF Known
  <2>5. ASSUME StillOwner(r), Undisturbed(i)
        PROVE  Reliable(r, i)' /\ PagesOf(i)' /\ Shown(i)'
    <3>1. /\ items[i].purge \in {"none", "freeze"} /\ items[i].page = None
          /\ Live(i) = {}
          /\ items[i].synced => items[i].version = runs[r].version
      BY <1>0, <1>1, <2>5 DEF Undisturbed, Reliable
    <3>2. Live(i)' = {p}
      BY <2>2, <3>1 DEF Live
    <3>3. items'[i] = items[i]
      BY <1>0
    <3>4. Reliable(r, i)'
      BY <2>1, <2>2, <3>1, <3>2, <3>3 DEF Reliable
    <3>5. PagesOf(i)' /\ Shown(i)'
      BY <3>1, <3>2, <3>3, Constants DEF PagesOf, Shown
    <3> QED BY <3>4, <3>5
  <2>6. items'[i] = items[i] /\ runs'[r].version \in {0, runs[r].version}
    BY <1>0, <2>1
  <2>7. /\ runs'[r].phase \notin {"requeue", "idle"} /\ runs[r].phase # "requeue"
        /\ runs'[r].phase \in {"update", "persist"} => runs'[r].page \in Pages
        /\ runs'[r].phase \in Effective =>
             runs[r].phase \in Effective /\ runs'[r].version = runs[r].version
    BY <1>0, <2>1 DEF Effective
  <2> QED BY <1>0, <1>1, <2>1, <2>3, <2>4, <2>5, <2>6, <2>7, EffectStep
<1>3. ASSUME NEW outcome \in {"retry", "fail"}, Fails(r, outcome, "other"), pages' = pages
      PROVE  IInv'
  BY <1>0, <1>3, RequestFailsInv
<1>4. \/ /\ NewPage # None
         /\ pages' = [pages EXCEPT ![NewPage] = [item |-> runs[r].item, state |-> "live",
                                                 version |-> runs[r].version]]
         /\ \/ runs' = [runs EXCEPT ![r].page = NewPage, ![r].phase = "persist"]
            \/ Fails(r, "retry", "other")
      \/ /\ \E outcome \in {"retry", "fail"} : Fails(r, outcome, "other")
         /\ UNCHANGED pages
  BY Zenon DEF CreatePage, RequestFails
<1>5. NewPage # None => NewPage \in Pages /\ pages[NewPage].state = "absent"
  <2>1. ASSUME NewPage # None
        PROVE  \E q \in Pages : pages[q].state = "absent"
    BY <2>1, Zenon DEF NewPage
  <2>2. ASSUME \E q \in Pages : pages[q].state = "absent"
        PROVE  NewPage = CHOOSE q \in Pages : pages[q].state = "absent"
    BY <2>2, Zenon DEF NewPage
  <2> QED BY <2>1, <2>2
<1>6. CASE \E outcome \in {"retry", "fail"} : Fails(r, outcome, "other") /\ UNCHANGED pages
  BY <1>3, <1>6
<1>7. CASE /\ NewPage # None
           /\ pages' = [pages EXCEPT ![NewPage] = [item |-> runs[r].item, state |-> "live",
                                                   version |-> runs[r].version]]
           /\ \/ runs' = [runs EXCEPT ![r].page = NewPage, ![r].phase = "persist"]
              \/ Fails(r, "retry", "other")
  <2> DEFINE p == NewPage
  <2>1. p \in Pages /\ pages[p].state = "absent"
    BY <1>5, <1>7
  <2>2. /\ pages' = [pages EXCEPT ![p] = [item |-> runs[r].item, state |-> "live",
                                          version |-> runs[r].version]]
        /\ \/ runs' = [runs EXCEPT ![r].page = p, ![r].phase = "persist"]
           \/ Fails(r, "retry", "other")
    BY <1>7
  <2> HIDE DEF p
  <2> QED BY <1>2, <2>1, <2>2, Zenon
<1> QED BY <1>4, <1>6, <1>7, Zenon

LEMMA PersistPageInv ==
  ASSUME IInv, NEW r \in Runs, PersistPage(r)
  PROVE  IInv'
<1>0. runs[r].phase = "persist" /\ Acts(r) /\ UNCHANGED <<attempts, pages, faults, dropped, unseen>>
  BY Zenon DEF PersistPage
<1>1. PICK i \in Items : runs[r].item = i
  BY <1>0, OwnersItem, Typed
<1>2. PICK p \in Pages : runs[r].page = p
  BY <1>0, Typed DEF Base, RunsKnown, RunKnown
<1>3. CASE items[i].state # "gone" /\ items[i].page \in {None, p}
  <2> DEFINE shown == (items[i].version = runs[r].version)
             one == [items EXCEPT ![i].page = p]
             two == [one EXCEPT ![i].missing = FALSE]
             three == [two EXCEPT ![i].synced = shown]
  <2>1. items' = three /\ Completes(r)
    BY <1>1, <1>2, <1>3 DEF PersistPage
  <2>2. /\ one \in [Items -> ItemRecord] /\ \A j \in Items \ {i} : one[j] = items[j]
        /\ one[i].state = items[i].state /\ one[i].version = items[i].version
        /\ one[i].purge = items[i].purge /\ one[i].page = p
    BY Typed DEF ItemRecord
  <2> HIDE DEF one
  <2>3. /\ two \in [Items -> ItemRecord] /\ \A j \in Items \ {i} : two[j] = items[j]
        /\ two[i].state = items[i].state /\ two[i].version = items[i].version
        /\ two[i].purge = items[i].purge /\ two[i].page = p /\ two[i].missing = FALSE
    BY <2>2 DEF ItemRecord
  <2>4. /\ shown \in BOOLEAN /\ (shown <=> items[i].version = runs[r].version)
    OBVIOUS
  <2> HIDE DEF two, shown
  <2>5. /\ three \in [Items -> ItemRecord] /\ \A j \in Items \ {i} : three[j] = items[j]
        /\ three[i].state = items[i].state /\ three[i].version = items[i].version
        /\ three[i].purge = items[i].purge /\ three[i].page = p /\ three[i].missing = FALSE
        /\ (three[i].synced <=> shown)
    BY <2>3, <2>4 DEF ItemRecord
  <2> HIDE DEF three
  <2>6. /\ OnlyRun(r) /\ runs'[r].phase = "complete" /\ runs'[r].attempt = runs[r].attempt
        /\ runs'[r].item = i /\ runs'[r].version = runs[r].version /\ runs'[r].page = None
    <3>1. runs' = [runs EXCEPT ![r].phase = "complete", ![r].page = None]
      BY <2>1 DEF Completes
    <3>2. /\ OnlyRun(r) /\ runs'[r].phase = "complete" /\ runs'[r].attempt = runs[r].attempt
          /\ runs'[r].item = runs[r].item /\ runs'[r].version = runs[r].version
          /\ runs'[r].page = None
      BY <3>1, PageRow, Typed
    <3> QED BY <1>1, <3>2
  <2>7. OnlyItem(i) /\ PagesStay /\ \A j \in Items : PagesAlone(j)
    BY <1>0, <2>1, <2>5, Alone, Typed DEF OnlyItem
  <2>8. Known(runs[r].page, i)' /\ Known(items[i].page, i)'
    BY <1>0, <1>1, <1>2, <2>1, <2>5, <2>6, Typed, Constants DEF Known, Base, PagesKnown
  <2>9. ASSUME StillOwner(r), Undisturbed(i)
        PROVE  Reliable(r, i)' /\ PagesOf(i)' /\ Shown(i)'
    <3>1. /\ items[i].purge \in {"none", "freeze"} /\ Live(i) \subseteq {p}
          /\ p \in Live(i) => pages[p].version = runs[r].version
      BY <1>0, <1>1, <1>2, <2>9 DEF Undisturbed, Reliable
    <3>2. Live(i)' = Live(i)
      BY <1>0 DEF Live
    <3>3. Reliable(r, i)'
      BY <2>1, <2>4, <2>5, <2>6 DEF Reliable
    <3>4. PagesOf(i)' /\ Shown(i)'
      BY <1>0, <2>1, <2>4, <2>5, <3>1, <3>2 DEF PagesOf, Shown
    <3> QED BY <3>3, <3>4
  <2>10. /\ runs'[r].phase \notin {"requeue", "idle", "update", "persist"}
         /\ runs[r].phase # "requeue" /\ runs[r].phase \in Effective
    BY <1>0, <2>6 DEF Effective
  <2>11. /\ items'[i].state = items[i].state /\ items'[i].version = items[i].version
         /\ items'[i].purge = items[i].purge
         /\ items[i].version = runs[r].version => items'[i].synced
    BY <2>1, <2>4, <2>5
  <2> QED BY <1>0, <1>1, <2>6, <2>7, <2>8, <2>9, <2>10, <2>11, EffectStep
<1>4. CASE ~(items[i].state # "gone" /\ items[i].page \in {None, p})
  <2>1. Fails(r, "fail", "other") /\ UNCHANGED items
    BY <1>1, <1>2, <1>4, Zenon DEF PersistPage
  <2> QED BY <1>0, <2>1, RequestFailsInv
<1> QED BY <1>3, <1>4

LEMMA MarkMissingInv ==
  ASSUME IInv, NEW r \in Runs, MarkMissing(r)
  PROVE  IInv'
<1>0. /\ runs[r].phase = "missing" /\ Acts(r) /\ Fails(r, "fail", "missing")
      /\ UNCHANGED <<attempts, pages, faults, dropped, unseen>>
  BY Zenon DEF MarkMissing
<1>1. PICK i \in Items : runs[r].item = i
  BY <1>0, OwnersItem, Typed
<1> DEFINE missing == (items[i].state # "gone")
<1>2. items' = [items EXCEPT ![i].missing = missing]
  BY <1>1 DEF MarkMissing
<1>3. missing \in BOOLEAN
  OBVIOUS
<1> HIDE DEF missing
<1>4. /\ OnlyItem(i) /\ items'[i].state = items[i].state /\ items'[i].version = items[i].version
      /\ items'[i].purge = items[i].purge /\ items'[i].synced = items[i].synced
      /\ items'[i].page = items[i].page
  BY <1>2, <1>3, Typed DEF OnlyItem, ItemRecord
<1>5. /\ OnlyRun(r) /\ runs'[r].phase = "fail" /\ runs'[r].attempt = runs[r].attempt
      /\ runs'[r].item = i /\ runs'[r].version = 0 /\ runs'[r].page = None
  BY <1>0, <1>1, FailsRow, Typed
<1>6. PagesStay /\ \A j \in Items : PagesAlone(j)
  BY <1>0, Alone, Typed
<1>7. Known(runs[r].page, i)' /\ Known(items[i].page, i)'
  BY <1>0, <1>4, <1>5, Typed, Constants DEF Known, Base, PagesKnown
<1>8. ASSUME StillOwner(r), Undisturbed(i)
      PROVE  Reliable(r, i)' /\ PagesOf(i)' /\ Shown(i)'
  <2>1. items[i].page \notin Live(i)
    BY <1>0, <1>1, <1>8 DEF Undisturbed, Reliable
  <2>2. Live(i)' = Live(i)
    BY <1>0 DEF Live
  <2>3. Reliable(r, i)'
    BY <1>5 DEF Reliable
  <2>4. PagesOf(i)' /\ Shown(i)'
    BY <1>0, <1>4, <1>8, <2>1, <2>2 DEF Undisturbed, PagesOf, Shown
  <2> QED BY <2>3, <2>4
<1>9. /\ runs'[r].phase \notin {"requeue", "idle", "update", "persist"} \cup Effective
      /\ runs[r].phase # "requeue"
  BY <1>0, <1>5 DEF Effective
<1> QED BY <1>0, <1>1, <1>4, <1>5, <1>6, <1>7, <1>8, <1>9, EffectStep

\* A run that ends without having done anything.
LEMMA EndingStep ==
  ASSUME IInv, NEW r \in Runs, NEW i \in Items, runs[r].item = i, Ends(r), Moves,
         UNCHANGED <<items, pages, overtaken, unseen>>, faults' \in 0 .. MaxFaults,
         dropped' \in BOOLEAN, dropped => dropped',
         \A j \in Items \ {i} : Sighted(j) => Sighted(j)',
         Sighted(i) => Sighted(i)',
         ~overtaken /\ Undisturbed(i) /\ runs[r].phase = "requeue" => InSight(i)'
  PROVE  IInv'
<1>1. OnlyRun(r) /\ runs'[r] = IdleRun
  BY EndsRow, Typed
<1>2. RunKnown(r)' /\ Known(runs[r].page, i)'
  BY <1>1, IdleRow, Constants DEF RunKnown, Known
<1>3. runs'[r].item # i /\ runs'[r].phase \notin Effective
  BY <1>1, IdleRow, Constants DEF Effective
<1>4. ASSUME ~overtaken, Undisturbed(i), runs[r].phase # "requeue"
      PROVE  InSight(i)'
  BY <1>1, <1>4 DEF Undisturbed, InSight, OnlyRun
<1> QED BY <1>1, <1>2, <1>3, <1>4, QuietStep

LEMMA CompleteInv ==
  ASSUME IInv, NEW r \in Runs, CompleteSyncAttempt(r)
  PROVE  IInv'
<1>0. runs[r].phase = "complete" /\ UNCHANGED <<items, pages, faults, overtaken, dropped, unseen>>
  BY Zenon DEF CompleteSyncAttempt
<1>1. PICK i \in Items : runs[r].item = i
  BY <1>0, OwnersItem, Typed
<1>2. PICK a \in Attempts : runs[r].attempt = a
  BY <1>0, OwnersItem, Typed
<1>3. CASE Holds(r)
  <2> DEFINE t == Ended(attempts[a], "complete", "none")
  <2>1. attempts' = [attempts EXCEPT ![a] = t] /\ Goes(r, "requeue")
    BY <1>2, <1>3 DEF CompleteSyncAttempt
  <2>2. attempts[a].status = "processing" /\ StillOwner(r) /\ attempts[a].item = i
    BY <1>0, <1>1, <1>2, <1>3, OwnersItem, Typed DEF Holds, StillOwner
  <2>3. /\ t \in AttemptRecord /\ t.item = attempts[a].item /\ t.status = "complete" /\ t.owner = None
    BY EndedRow, Typed
  <2> HIDE DEF t
  <2>4. /\ Moves
        /\ \A j \in Items : Sighted(j) => Sighted(j)' \/ (t.status = "complete" /\ j = t.item)
        /\ \A b \in Attempts : attempts'[b].status = "processing" => attempts'[b].item # t.item
    BY <2>1, <2>2, <2>3, EndMoves, Typed
  <2>5. /\ OnlyRun(r) /\ runs'[r].phase = "requeue" /\ runs'[r].attempt = runs[r].attempt
        /\ runs'[r].item = i /\ runs'[r].version = runs[r].version /\ runs'[r].page = runs[r].page
    BY <1>1, <2>1, GoesRow, Typed
  <2>6. OnlyItem(i)
    BY <1>0, Typed DEF OnlyItem
  <2>7. RunKnown(r)' /\ Known(runs[r].page, i)'
    <3>1. RunKnown(r)'
      BY <1>0, <1>1, <2>4, <2>5, <2>6, RunGoesOn, Typed
    <3> QED BY <1>0, <1>1, <2>5, <3>1, Typed DEF Base, PagesKnown, Known
  <2>8. \A s \in Runs : runs'[s].item = i => ~StillOwner(s)'
    <3>1. ASSUME NEW s \in Runs, runs'[s].item = i
          PROVE  ~StillOwner(s)'
      <4>1. runs[s].item = i /\ runs'[s].attempt = runs[s].attempt
        BY <1>1, <2>5, <3>1 DEF OnlyRun
      <4>2. runs[s].phase # "idle"
        BY <4>1, Typed, Constants DEF Base, RunsKnown, RunKnown, IdleRun
      <4> QED BY <2>2, <2>3, <2>4, <4>1, <4>2, OwnersKeep, Typed
    <3> QED BY <3>1
  <2>9. ASSUME ~overtaken, Undisturbed(i)
        PROVE  (StillOwner(r)' => Reliable(r, i)') /\ Requeues(r, i)' /\ InSight(i)'
    <3>1. Reliable(r, i)
      BY <1>1, <2>2, <2>9 DEF Undisturbed
    <3>2. StillOwner(r)' => Reliable(r, i)'
      BY <2>5, <2>8
    <3>3. Requeues(r, i)'
      BY <1>0, <2>5, <2>8, <3>1 DEF Reliable, Requeues
    <3>4. InSight(i)'
      BY <2>5 DEF InSight
    <3> QED BY <3>2, <3>3, <3>4
  <2>10. runs'[r].phase \notin Effective
    BY <2>5 DEF Effective
  <2> QED BY <1>0, <1>1, <2>2, <2>3, <2>4, <2>5, <2>7, <2>9, <2>10, QuietStep, Typed DEF TypeOK
<1>4. CASE ~Holds(r)
  <2>1. Ends(r) /\ UNCHANGED attempts
    BY <1>4 DEF CompleteSyncAttempt
  <2>2. Moves /\ StaySighted
    BY <2>1, SameMoves, Typed
  <2> QED BY <1>0, <1>1, <2>1, <2>2, EndingStep, Typed DEF StaySighted, TypeOK
<1> QED BY <1>3, <1>4

LEMMA RequeueInv ==
  ASSUME IInv, NEW r \in Runs, RequeueSync(r)
  PROVE  IInv'
<1>0. /\ runs[r].phase = "requeue" /\ Ends(r)
      /\ UNCHANGED <<items, pages, faults, overtaken, unseen>>
  BY Zenon DEF RequeueSync
<1>1. PICK i \in Items : runs[r].item = i
  BY <1>0, OwnersItem, Typed
<1>2. dropped' \in BOOLEAN /\ (dropped => dropped') /\ (items[i].state = "deleted" => dropped')
  <2>1. dropped' = (dropped \/ items[i].state = "deleted")
    BY <1>1 DEF RequeueSync
  <2> QED BY <2>1, Zenon
<1>3. /\ Moves /\ StaySighted
      /\ items[i].state = "live" /\ items[i].version > runs[r].version => Sighted(i)'
  <2>1. CASE items[i].state = "live" /\ items[i].version > runs[r].version
    <3>1. Enqueued(i, attempts')
      BY <1>1, <2>1, Zenon DEF RequeueSync
    <3> QED BY <3>1, EnqueuedMoves, Typed
  <2>2. CASE ~(items[i].state = "live" /\ items[i].version > runs[r].version)
    <3>1. attempts' = attempts
      BY <1>1, <2>2, Zenon DEF RequeueSync
    <3> QED BY <2>2, <3>1, SameMoves, Typed
  <2> QED BY <2>1, <2>2
<1>4. ASSUME ~overtaken, Undisturbed(i)
      PROVE  InSight(i)'
  <2>1. SUFFICES ASSUME ~dropped', items[i].state # "gone", ~items[i].synced
                 PROVE  Sighted(i)'
    BY <1>0 DEF InSight
  <2>2. items[i].state = "live"
    BY <1>2, <2>1, Typed DEF ItemRecord
  <2>3. items[i].version # runs[r].version
    BY <1>0, <1>1, <1>4, <2>1 DEF Undisturbed, Requeues
  <2>4. runs[r].version <= items[i].version
    BY <1>0, <1>1, <2>2, Typed DEF Base, RunsKnown, RunKnown
  <2>5. items[i].version \in Nat /\ runs[r].version \in Nat
    BY Typed, Constants DEF ItemRecord, RunRecord
  <2> QED BY <1>3, <2>2, <2>3, <2>4, <2>5
<1> QED BY <1>0, <1>1, <1>2, <1>3, <1>4, EndingStep, Typed DEF StaySighted

LEMMA FailSyncInv ==
  ASSUME IInv, NEW r \in Runs, FailSyncAttempt(r)
  PROVE  IInv'
<1>0. /\ runs[r].phase \in {"retry", "fail"} /\ Ends(r)
      /\ UNCHANGED <<items, pages, faults, overtaken, dropped, unseen>>
  BY Zenon DEF FailSyncAttempt
<1>1. PICK i \in Items : runs[r].item = i
  BY <1>0, OwnersItem, Typed
<1>2. PICK a \in Attempts : runs[r].attempt = a
  BY <1>0, OwnersItem, Typed
<1>3. Moves /\ StaySighted
  <2>1. CASE Holds(r)
    <3> DEFINE tries == attempts[a].tries + 1
               again == runs[r].phase = "retry" /\ tries < MaxAttempts
               status == IF again THEN "pending" ELSE "failed"
               e == Ended(attempts[a], status, runs[r].code)
               n == IF tries > MaxAttempts THEN MaxAttempts ELSE tries
               t == [e EXCEPT !.tries = n]
    <3>1. attempts' = [attempts EXCEPT ![a] = t]
      BY <1>2, <2>1 DEF FailSyncAttempt
    <3>2. status \in {"pending", "failed"} /\ n \in 0 .. MaxAttempts
      <4>1. attempts[a].tries \in Nat
        BY Typed, Constants DEF AttemptRecord
      <4> QED BY <4>1, Constants
    <3>3. runs[r].code \in {"none", "missing", "superseded", "other"}
      BY Typed DEF RunRecord
    <3> HIDE DEF status, n
    <3>4. e \in AttemptRecord /\ e.item = attempts[a].item /\ e.status = status /\ e.owner = None
      BY <3>2, <3>3, EndedRow, Typed
    <3> HIDE DEF e
    <3>5. t \in AttemptRecord /\ t.item = attempts[a].item /\ t.status = status /\ t.owner = None
      BY <3>2, <3>4 DEF AttemptRecord
    <3> HIDE DEF t
    <3>6. attempts[a].status = "processing"
      BY <1>2, <2>1 DEF Holds
    <3>7. /\ Moves
          /\ \A j \in Items : Sighted(j) => Sighted(j)' \/ (t.status = "complete" /\ j = t.item)
      BY <3>1, <3>2, <3>5, <3>6, EndMoves, Typed
    <3> QED BY <3>2, <3>5, <3>7 DEF StaySighted
  <2>2. CASE ~Holds(r)
    <3>1. attempts' = attempts
      BY <2>2, Zenon DEF FailSyncAttempt
    <3> QED BY <3>1, SameMoves, Typed
  <2> QED BY <2>1, <2>2
<1> QED BY <1>0, <1>1, <1>3, EndingStep, Typed DEF StaySighted, TypeOK

LEMMA RunFaultsInv ==
  ASSUME IInv, NEW r \in Runs, RunDies(r) \/ RunThrows(r)
  PROVE  IInv'
<1>0. /\ runs[r].phase # "idle" /\ faults < MaxFaults /\ faults' = faults + 1
      /\ UNCHANGED <<items, attempts, pages, overtaken, unseen>>
      /\ dropped' = (dropped \/ runs[r].phase = "requeue")
      /\ Ends(r) \/ Fails(r, "retry", "other")
  BY DEF RunDies, RunThrows
<1>1. PICK i \in Items : runs[r].item = i
  BY <1>0, OwnersItem, Typed
<1>2. dropped' \in BOOLEAN /\ (dropped => dropped') /\ (runs[r].phase = "requeue" => dropped')
  BY <1>0, Zenon
<1>3. faults' \in 0 .. MaxFaults
  BY <1>0, Typed, SyncAssumption
<1>4. Moves /\ StaySighted
  BY <1>0, SameMoves, Typed
<1>5. CASE Ends(r)
  BY <1>0, <1>1, <1>2, <1>3, <1>4, <1>5, EndingStep DEF StaySighted, InSight
<1>6. CASE Fails(r, "retry", "other")
  BY <1>0, <1>2, <1>3, <1>6, FailingStep
<1> QED BY <1>0, <1>5, <1>6

-----------------------------------------------------------------------------
(* The theorems.                                                           *)

LEMMA InitInv == Init => IInv
<1> SUFFICES ASSUME Init
             PROVE  IInv
  OBVIOUS
<1>1. /\ NewItem \in ItemRecord /\ NewItem.page = None /\ NewItem.synced = FALSE
      /\ NewItem.missing = FALSE /\ NewItem.purge = "none" /\ NewItem.state = "live"
      /\ NewItem.scheduled = FALSE
  BY Constants DEF NewItem, ItemRecord
<1>2. AbsentPage \in PageRecord /\ AbsentPage.state = "absent"
  BY Constants DEF AbsentPage, PageRecord
<1>3. AbsentAttempt.status = "absent" /\ AbsentAttempt.item = None
  BY DEF AbsentAttempt
<1>4. TypeOK
  <2>1. /\ items \in [Items -> ItemRecord] /\ runs \in [Runs -> RunRecord]
        /\ attempts \in [Attempts -> AttemptRecord] /\ pages \in [Pages -> PageRecord]
    BY <1>1, <1>2, AbsentRow, IdleRow DEF Init
  <2>2. \A a \in Attempts : attempts[a].owner # None <=> attempts[a].status = "processing"
    BY <1>3, AbsentRow DEF Init
  <2>3. faults \in 0 .. MaxFaults
    BY SyncAssumption DEF Init
  <2>4. overtaken \in BOOLEAN /\ dropped \in BOOLEAN /\ unseen \in BOOLEAN
    BY DEF Init
  <2> QED BY <2>1, <2>2, <2>3, <2>4 DEF TypeOK
<1>5. OneActive
  BY <1>3 DEF Init, OneActive, Active
<1>6. RunsKnown
  BY IdleRow DEF Init, RunsKnown, RunKnown
<1>7. PagesKnown /\ PurgesKnown
  BY <1>1, <1>2, IdleRow, Constants DEF Init, PagesKnown, PurgesKnown, Known, PurgeKnown
<1>8. ASSUME NEW i \in Items
      PROVE  Undisturbed(i)
  <2>1. Live(i) = {}
    BY <1>2 DEF Init, Live
  <2>2. \A r \in Runs : runs[r].item # i
    BY IdleRow, Constants DEF Init
  <2>3. items[i] = NewItem
    BY DEF Init
  <2> QED BY <1>1, <2>1, <2>2, <2>3 DEF Undisturbed, PagesOf, InSight, Shown
<1> QED BY <1>4, <1>5, <1>6, <1>7, <1>8 DEF IInv, Base

LEMMA NextInv == IInv /\ [Next]_vars => IInv'
<1> SUFFICES ASSUME IInv, [Next]_vars
             PROVE  IInv'
  OBVIOUS
<1>1. CASE Owner
  <2>1. PICK i \in Items :
          \/ ScheduleSync(i) \/ ChangeProjection(i)
          \/ SetDeleted(i, "deleted") \/ SetDeleted(i, "live")
          \/ CheckRecreation(i) \/ ApproveRecreation(i)
          \/ StartPurge(i)
    BY <1>1, Zenon DEF Owner
  <2> QED BY <2>1, ScheduleInv, ChangeInv, SetDeletedInv, CheckInv, ApproveInv, StartPurgeInv
<1>2. CASE PurgeStep
  BY <1>2, FreezeInv, ArchiveInv, PurgeItemInv DEF PurgeStep
<1>3. ASSUME NEW a \in Attempts,
             CheckRetry(a) \/ ManuallyRetrySync(a) \/ AbandonedLeaseLapses(a) \/ LeaseLapses(a)
      PROVE  IInv'
  BY <1>3, AttemptsInv
<1>4. ASSUME NEW p \in Pages, DeletePage(p)
      PROVE  IInv'
  BY <1>4, DeletePageInv
<1>5. ASSUME NEW r \in Runs, Advance(r) \/ RunDies(r) \/ RunThrows(r)
      PROVE  IInv'
  <2>1. CASE Advance(r)
    BY <2>1, ReadItemInv, QueryPagesInv, UpdatePageInv, CreatePageInv, PersistPageInv,
       CompleteInv, RequeueInv, MarkMissingInv, FailSyncInv DEF Advance
  <2>2. CASE RunDies(r) \/ RunThrows(r)
    BY <2>2, RunFaultsInv
  <2> QED BY <1>5, <2>1, <2>2
<1>6. ASSUME NEW r \in Runs, NEW a \in Attempts, LeaseSyncAttempt(r, a)
      PROVE  IInv'
  BY <1>6, LeaseInv
<1>7. CASE UNCHANGED vars
  <2>1. UNCHANGED <<items, attempts, runs, pages, faults, overtaken, dropped, unseen>>
    BY <1>7 DEF vars
  <2>2. Live(None)' = Live(None) /\ \A i \in Items : Live(i)' = Live(i)
    BY <2>1 DEF Live
  <2>3. Base'
    BY <2>1 DEF IInv, Base, TypeOK, OneActive, Active, RunsKnown, RunKnown, PagesKnown, Known,
                PurgesKnown, PurgeKnown
  <2>4. ASSUME NEW i \in Items, Undisturbed(i)
        PROVE  Undisturbed(i)'
    BY <2>1, <2>2, <2>4 DEF Undisturbed, StillOwner, Reliable, Requeues, PagesOf, InSight,
                            Sighted, Shown
  <2> QED BY <2>1, <2>3, <2>4 DEF IInv
<1> QED BY <1>1, <1>2, <1>3, <1>4, <1>5, <1>6, <1>7 DEF Next

\* The inductive invariant holds in every reachable state of the worker, the trigger, the
\* owner's routes and the purge (sync.worker.ts, job.admin.service.ts, migration 0009).
THEOREM Invariance == Spec => []IInv
<1>1. Init => IInv
  BY InitInv
<1>2. IInv /\ [Next]_vars => IInv'
  BY NextInv
<1> QED BY <1>1, <1>2, PTL DEF Spec

\* Rows, runs and pages are well formed, and exactly the leased attempts have an owner
\* (leaseSyncAttempt and every statement that ends a lease).
THEOREM TypeCorrect == Spec => []TypeOK
<1>1. IInv => TypeOK
  BY DEF IInv, Base
<1> QED BY <1>1, Invariance, PTL

LEMMA OnePageHolds == IInv => OnePage
<1> SUFFICES ASSUME IInv
             PROVE  OnePage
  OBVIOUS
<1>1. TypeOK
  BY Typed
<1>2. ASSUME ~overtaken, NEW i \in Items
      PROVE  /\ Cardinality(Live(i)) <= 1
             /\ items[i].page # None => Live(i) \subseteq {items[i].page}
             /\ items[i].state = "gone" => Live(i) = {} \/ unseen
  <2>1. /\ \A p, q \in Live(i) : p = q
        /\ items[i].page # None => Live(i) \subseteq {items[i].page}
        /\ items[i].purge \in {"erase", "done"} => Live(i) = {} \/ unseen
    BY <1>2 DEF IInv, Undisturbed, PagesOf
  <2>2. Cardinality(Live(i)) <= 1
    <3>1. CASE Live(i) = {}
      BY <3>1, FS_EmptySet
    <3>2. CASE Live(i) # {}
      <4>1. PICK p : p \in Live(i)
        BY <3>2
      <4>2. Live(i) = {p}
        BY <2>1, <4>1
      <4>3. Cardinality({p}) = 1
        BY FS_Singleton, Zenon
      <4> QED BY <4>2, <4>3
    <3> QED BY <3>1, <3>2
  <2>3. items[i].state = "gone" => items[i].purge = "done"
    BY Typed DEF PurgeKnown
  <2> QED BY <2>1, <2>2, <2>3
<1> QED BY <1>1, <1>2 DEF OnePage

\* As long as no run goes on without its attempt, an item has at most one page, none but
\* the linked one, and none once it is purged, but for pages a purge could not know of:
\* findPagesByCaptureId, the lease and the freezing of the attempts keep a lost answer, a
\* recreation and a purge from leaving a second page behind (syncItem, archiveProjection).
THEOREM OnePageEach == Spec => []OnePage
BY OnePageHolds, Invariance, PTL

LEMMA NoUpdateLostHolds == IInv => NoUpdateLost
<1> SUFFICES ASSUME IInv, ~overtaken, ~dropped, NEW i \in Items,
                    items[i].state = "live", items[i].scheduled, ~items[i].synced,
                    items[i].purge = "none"
             PROVE  \/ ActiveOf(i) # {}
                    \/ \E a \in Attempts : attempts[a].item = i /\ attempts[a].status = "failed"
                    \/ \E r \in Runs : runs[r].phase = "requeue" /\ runs[r].item = i
  BY DEF NoUpdateLost
<1>1. Sighted(i) \/ \E r \in Runs : runs[r].phase = "requeue" /\ runs[r].item = i
  BY DEF IInv, Undisturbed, InSight
<1>2. Sighted(i) => \/ ActiveOf(i) # {}
                    \/ \E a \in Attempts : attempts[a].item = i /\ attempts[a].status = "failed"
  BY DEF Sighted, ActiveOf, Active
<1> QED BY <1>1, <1>2

\* An item whose page lags behind its row has an active attempt, a failed one the owner is
\* shown, or a run about to enqueue one: the trigger's INSERT and the re-enqueueing after a
\* completion miss no change between them (migration 0009, sync.worker.ts:178).
THEOREM NothingIsForgotten == Spec => []NoUpdateLost
BY NoUpdateLostHolds, Invariance, PTL

\* A row with a projection hash has a page that shows the row's version: the CASE of the
\* persisting UPDATE compares the version the run has read with the row's.
THEOREM HashIsTrue == Spec => []SyncedIsShown
<1>1. IInv => SyncedIsShown
  BY DEF IInv, Undisturbed, Shown, SyncedIsShown
<1> QED BY <1>1, Invariance, PTL

\* No item with a live linked page is marked missing: a 404 marks the page the run itself
\* has found gone, and storing a link clears the mark (notion_missing_at).
THEOREM MissingIsTrue == Spec => []MissingIsGone
<1>1. IInv => MissingIsGone
  BY DEF IInv, Undisturbed, Shown, MissingIsGone
<1> QED BY <1>1, Invariance, PTL
====
