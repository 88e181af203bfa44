---- MODULE ProcessingJobsProofs ----
(***************************************************************************)
(* Theorems about ProcessingJobs.                                          *)
(***************************************************************************)
EXTENDS ProcessingJobs, TLAPS

\* A row has an item exactly while it is in the table.
JobsArePlaced ==
  \A j \in Jobs : jobs[j].item = None <=> jobs[j].status \in {"absent", "deleted"}

\* What is still to be done is of the item's present generation.
ActiveIsCurrentGeneration ==
  \A j \in Jobs : Active(j) => jobs[j].generation = items[jobs[j].item].generation

\* A job to be worked on can still be failed once more.
AttemptsLeft ==
  \A j \in Jobs :
    /\ jobs[j].attempts <= MaxAttempts + jobs[j].retries
    /\ Active(j) => jobs[j].attempts < MaxAttempts + jobs[j].retries
    /\ jobs[j].retries <= MaxManualRetries

JobInv ==
  /\ JobsArePlaced
  /\ ActiveIsCurrentGeneration
  /\ HeldJobIsCurrent
  /\ FrozenItemIsIdle
  /\ AttemptsLeft
  /\ ResultOnlyOfComplete

IInv == TypeOK /\ JobInv /\ AcceptedIsStored

-----------------------------------------------------------------------------
(* What any step may do to one row of processing_jobs.                     *)

SameWork(j) ==
  /\ jobs'[j].item = jobs[j].item
  /\ jobs'[j].generation = jobs[j].generation
  /\ jobs'[j].privacy = jobs[j].privacy

SameResult(j) == results'[j] = results[j]

\* What an active row relies on does not move under it.
ItemStays(j) ==
  LET i == jobs[j].item
  IN /\ items'[i].generation = items[i].generation
     /\ jobs[j].status = "processing" =>
          /\ items'[i].deleted = items[i].deleted
          /\ items'[i].privacy = items[i].privacy
          /\ items[i].purge # "gone" => items'[i].purge # "gone"
          /\ items'[i].purge = "frozen" => items[i].purge = "frozen"

RowKept(j) ==
  /\ SameWork(j) /\ SameResult(j)
  /\ jobs'[j].status = jobs[j].status /\ jobs'[j].owner = jobs[j].owner
  /\ jobs'[j].attempts = jobs[j].attempts /\ jobs'[j].retries = jobs[j].retries
  /\ Active(j) => ItemStays(j)

RowInserted(j) ==
  /\ jobs[j].status = "absent" /\ SameResult(j)
  /\ jobs'[j].status = "pending" /\ jobs'[j].owner = None
  /\ jobs'[j].item \in Items
  /\ jobs'[j].generation = items'[jobs'[j].item].generation
  /\ jobs'[j].attempts = 0 /\ jobs'[j].retries \in {0, 1}

RowTaken(j) ==
  /\ jobs[j].status = "pending" \/ (jobs[j].status = "processing" /\ jobs[j].lease <= 0)
  /\ Current(j) /\ SameWork(j) /\ SameResult(j) /\ items' = items
  /\ jobs'[j].status = "processing" /\ jobs'[j].owner \in Owners /\ jobs'[j].lease > 0
  /\ jobs'[j].attempts = jobs[j].attempts /\ jobs'[j].retries = jobs[j].retries

RowGivenBack(j) ==
  /\ jobs[j].status = "processing" /\ SameWork(j) /\ SameResult(j) /\ items' = items
  /\ jobs'[j].status = "pending" /\ jobs'[j].owner = None
  /\ jobs'[j].retries = jobs[j].retries
  /\ jobs'[j].attempts < MaxAttempts + jobs[j].retries

RowEnded(j) ==
  /\ Active(j) /\ SameWork(j)
  /\ jobs'[j].status \in {"complete", "failed"} /\ jobs'[j].owner = None
  /\ jobs'[j].status = "complete" => jobs[j].status = "processing"
  /\ jobs'[j].retries = jobs[j].retries /\ jobs'[j].attempts <= jobs[j].attempts + 1
  /\ SameResult(j) \/ (jobs'[j].status = "complete" /\ results'[j] \in Submissions)

RowRevived(j) ==
  /\ jobs[j].status = "failed" /\ SameWork(j) /\ SameResult(j) /\ items' = items
  /\ jobs'[j].status = "pending" /\ jobs'[j].owner = None
  /\ items[jobs[j].item].generation = jobs[j].generation
  /\ jobs'[j].attempts = jobs[j].attempts
  /\ jobs'[j].retries = jobs[j].retries + 1 /\ jobs[j].retries < MaxManualRetries

RowDeleted(j) ==
  /\ jobs[j].status # "absent"
  /\ jobs'[j] = DeletedJob /\ results'[j] = None

RowStep(j) ==
  \/ RowKept(j) \/ RowInserted(j) \/ RowTaken(j) \/ RowGivenBack(j)
  \/ RowEnded(j) \/ RowRevived(j) \/ RowDeleted(j)

-----------------------------------------------------------------------------
(* The rows the statements write.                                          *)

LEMMA RowFields ==
  ASSUME NEW job \in JobRow
  PROVE  /\ job \in JobRecord
         /\ job.item \in Items \cup {None} /\ job.type \in Types
         /\ job.status \in Statuses /\ job.generation \in 1 .. MaxGeneration
         /\ job.privacy \in Levels \cup {None}
         /\ job.attempts \in Nat /\ job.retries \in Nat
         /\ job.wait \in -Skew .. BackoffTicks /\ job.owner \in Owners \cup {None}
         /\ job.lease \in -Skew .. LeaseTicks
         /\ job.status = "processing" => job.owner # None
         /\ job.status # "processing" => job.owner = None /\ job.lease = 0
<1>1. job \in JobRecord
  BY DEF JobRow
<1>2. /\ job.status = "processing" => job.owner # None
      /\ job.status # "processing" => job.owner = None /\ job.lease = 0
  BY DEF JobRow
<1> QED BY <1>1, <1>2 DEF JobRecord

\* Leaving 'processing' keeps the work and the counters of a row.
LEMMA UnleasedRow ==
  ASSUME NEW job \in JobRow, NEW status \in Statuses \ {"processing"},
         NEW wait \in -Skew .. BackoffTicks
  PROVE  LET row == Unleased(job, status, wait)
         IN /\ row \in JobRow
            /\ row.item = job.item /\ row.generation = job.generation
            /\ row.privacy = job.privacy /\ row.attempts = job.attempts
            /\ row.retries = job.retries /\ row.status = status
            /\ row.owner = None /\ row.lease = 0 /\ row.wait = wait
<1> DEFINE r1 == [job EXCEPT !.status = status]
           r2 == [r1 EXCEPT !.wait = wait]
           r3 == [r2 EXCEPT !.owner = None]
           r4 == [r3 EXCEPT !.lease = 0]
<1>0. job \in JobRecord
  BY RowFields
<1>1. r1 \in JobRecord /\ r1.status = status
  BY <1>0 DEF JobRecord
<1>2. r2 \in JobRecord /\ r2.status = status
  BY <1>0, <1>1 DEF JobRecord
<1>3. r3 \in JobRecord /\ r3.status = status /\ r3.owner = None
  <2> HIDE DEF r2
  <2> QED BY <1>2 DEF JobRecord
<1>4. r4 \in JobRecord /\ r4.status = status /\ r4.owner = None /\ r4.lease = 0
  <2>1. 0 \in -Skew .. LeaseTicks
    BY NumbersAssumption
  <2> HIDE DEF r3
  <2> QED BY <1>3, <2>1 DEF JobRecord
<1>5. r4 = Unleased(job, status, wait)
  BY DEF Unleased
<1>6. r4 \in JobRow
  BY <1>4 DEF JobRow
<1>7. Unleased(job, status, wait) \in JobRow
  BY <1>5, <1>6
<1> QED BY <1>0, <1>7 DEF Unleased, JobRecord

\* Taking a lease keeps the work and the counters of a row.
LEMMA LeasedRow ==
  ASSUME NEW job \in JobRow, NEW o \in Owners, NEW lease \in -Skew .. LeaseTicks
  PROVE  LET row == Leased(job, o, lease)
         IN /\ row \in JobRow
            /\ row.item = job.item /\ row.generation = job.generation
            /\ row.privacy = job.privacy /\ row.attempts = job.attempts
            /\ row.retries = job.retries /\ row.status = "processing"
            /\ row.owner = o /\ row.lease = lease
<1> DEFINE r1 == [job EXCEPT !.status = "processing"]
           r2 == [r1 EXCEPT !.owner = o]
           r3 == [r2 EXCEPT !.lease = lease]
           r4 == [r3 EXCEPT !.wait = 0]
<1>0. job \in JobRecord
  BY RowFields
<1>1. r1 \in JobRecord /\ r1.status = "processing"
  BY <1>0 DEF JobRecord, Statuses
<1>2. r2 \in JobRecord /\ r2.status = "processing" /\ r2.owner = o
  <2> HIDE DEF r1
  <2> QED BY <1>1 DEF JobRecord
<1>3. r3 \in JobRecord /\ r3.status = "processing" /\ r3.owner = o
  <2> HIDE DEF r2
  <2> QED BY <1>2 DEF JobRecord
<1>4. r4 \in JobRecord /\ r4.status = "processing" /\ r4.owner = o
  <2>1. 0 \in -Skew .. BackoffTicks
    BY NumbersAssumption
  <2> HIDE DEF r3
  <2> QED BY <1>3, <2>1 DEF JobRecord
<1>5. r4 = Leased(job, o, lease)
  BY DEF Leased
<1>6. r4 \in JobRow
  BY <1>4, SetsAssumption DEF JobRow
<1>7. Leased(job, o, lease) \in JobRow
  BY <1>5, <1>6
<1> QED BY <1>0, <1>7 DEF Leased, JobRecord

\* A failure and a manual retry count, and keep the work.
LEMMA CountedRow ==
  ASSUME NEW job \in JobRow, NEW status \in Statuses \ {"processing"},
         NEW wait \in -Skew .. BackoffTicks
  PROVE  /\ LET row == AttemptFailed(job, status, wait)
            IN /\ row \in JobRow
               /\ row.item = job.item /\ row.generation = job.generation
               /\ row.privacy = job.privacy /\ row.attempts = job.attempts + 1
               /\ row.retries = job.retries /\ row.status = status
               /\ row.owner = None
         /\ LET row == RetriedByHand(job, wait)
            IN /\ row \in JobRow
               /\ row.item = job.item /\ row.generation = job.generation
               /\ row.privacy = job.privacy /\ row.attempts = job.attempts
               /\ row.retries = job.retries + 1 /\ row.status = "pending"
               /\ row.owner = None
<1> "pending" \in Statuses \ {"processing"}
  BY DEF Statuses
<1>1. ASSUME NEW row \in JobRow, row.status # "processing"
      PROVE  /\ [row EXCEPT !.attempts = @ + 1] \in JobRow
             /\ [row EXCEPT !.retries = @ + 1] \in JobRow
  <2>0. row \in JobRecord /\ row.attempts + 1 \in Nat /\ row.retries + 1 \in Nat
        /\ row.owner = None /\ row.lease = 0
    BY <1>1, RowFields
  <2>1. /\ [row EXCEPT !.attempts = @ + 1] \in JobRecord
        /\ [row EXCEPT !.attempts = @ + 1].status = row.status
        /\ [row EXCEPT !.attempts = @ + 1].owner = None
        /\ [row EXCEPT !.attempts = @ + 1].lease = 0
    BY <2>0 DEF JobRecord
  <2>2. /\ [row EXCEPT !.retries = @ + 1] \in JobRecord
        /\ [row EXCEPT !.retries = @ + 1].status = row.status
        /\ [row EXCEPT !.retries = @ + 1].owner = None
        /\ [row EXCEPT !.retries = @ + 1].lease = 0
    BY <2>0 DEF JobRecord
  <2> QED BY <1>1, <2>1, <2>2 DEF JobRow
<1>2. ASSUME NEW row \in JobRow
      PROVE  /\ [row EXCEPT !.attempts = @ + 1].item = row.item
             /\ [row EXCEPT !.attempts = @ + 1].generation = row.generation
             /\ [row EXCEPT !.attempts = @ + 1].privacy = row.privacy
             /\ [row EXCEPT !.attempts = @ + 1].attempts = row.attempts + 1
             /\ [row EXCEPT !.attempts = @ + 1].retries = row.retries
             /\ [row EXCEPT !.attempts = @ + 1].status = row.status
             /\ [row EXCEPT !.attempts = @ + 1].owner = row.owner
             /\ [row EXCEPT !.retries = @ + 1].item = row.item
             /\ [row EXCEPT !.retries = @ + 1].generation = row.generation
             /\ [row EXCEPT !.retries = @ + 1].privacy = row.privacy
             /\ [row EXCEPT !.retries = @ + 1].attempts = row.attempts
             /\ [row EXCEPT !.retries = @ + 1].retries = row.retries + 1
             /\ [row EXCEPT !.retries = @ + 1].status = row.status
             /\ [row EXCEPT !.retries = @ + 1].owner = row.owner
  BY RowFields DEF JobRecord
<1> DEFINE a == Unleased(job, status, wait)
           p == Unleased(job, "pending", wait)
<1>3. /\ a \in JobRow /\ a.item = job.item /\ a.generation = job.generation
      /\ a.privacy = job.privacy /\ a.attempts = job.attempts
      /\ a.retries = job.retries /\ a.status = status /\ a.owner = None
  BY UnleasedRow
<1>4. /\ p \in JobRow /\ p.item = job.item /\ p.generation = job.generation
      /\ p.privacy = job.privacy /\ p.attempts = job.attempts
      /\ p.retries = job.retries /\ p.status = "pending" /\ p.owner = None
  BY UnleasedRow
<1>5. /\ AttemptFailed(job, status, wait) = [a EXCEPT !.attempts = @ + 1]
      /\ RetriedByHand(job, wait) = [p EXCEPT !.retries = @ + 1]
  BY DEF AttemptFailed, RetriedByHand, Retry
<1> HIDE DEF a, p
<1>6. a.status # "processing" /\ p.status # "processing"
  BY <1>3, <1>4
<1>7. /\ [a EXCEPT !.attempts = @ + 1] \in JobRow
      /\ [p EXCEPT !.retries = @ + 1] \in JobRow
  BY <1>1, <1>3, <1>4, <1>6
<1> QED BY <1>2, <1>3, <1>4, <1>5, <1>7

LEMMA TimerRow ==
  ASSUME NEW job \in JobRow
  PROVE  /\ job.status = "pending" =>
              \A wait \in -Skew .. BackoffTicks : [job EXCEPT !.wait = wait] \in JobRow
         /\ job.status = "processing" =>
              \A lease \in -Skew .. LeaseTicks : [job EXCEPT !.lease = lease] \in JobRow
<1>0. job \in JobRecord
  BY RowFields
<1>1. ASSUME NEW wait \in -Skew .. BackoffTicks, job.status = "pending"
      PROVE  [job EXCEPT !.wait = wait] \in JobRow
  <2>1. [job EXCEPT !.wait = wait] \in JobRecord
    BY <1>0 DEF JobRecord
  <2> QED BY <1>0, <1>1, <2>1, RowFields DEF JobRow, JobRecord
<1>2. ASSUME NEW lease \in -Skew .. LeaseTicks, job.status = "processing"
      PROVE  [job EXCEPT !.lease = lease] \in JobRow
  <2>1. [job EXCEPT !.lease = lease] \in JobRecord
    BY <1>0 DEF JobRecord
  <2> QED BY <1>0, <1>2, <2>1, RowFields DEF JobRow, JobRecord
<1> QED BY <1>1, <1>2

LEMMA NewRow ==
  ASSUME NEW i \in Items, NEW t \in Types, NEW generation \in 1 .. MaxGeneration,
         NEW level \in Levels, NEW age \in Ages
  PROVE  LET job == NewJob(i, t, generation, level, age)
         IN /\ job \in JobRow
            /\ Retry(job) \in JobRow
            /\ Retry(job).item = i /\ Retry(job).generation = generation
            /\ Retry(job).status = "pending" /\ Retry(job).owner = None
            /\ Retry(job).attempts = 0 /\ Retry(job).retries = 1
<1>1. -age \in -Skew .. BackoffTicks /\ 0 \in -Skew .. LeaseTicks
  BY NumbersAssumption DEF Ages
<1> QED BY <1>1 DEF NewJob, JobRow, JobRecord, Statuses, Retry

LEMMA EmptyRows == AbsentJob \in JobRow /\ DeletedJob \in JobRow
<1>1. 0 \in -Skew .. BackoffTicks /\ 0 \in -Skew .. LeaseTicks /\ 1 \in 1 .. MaxGeneration
  BY NumbersAssumption
<1> QED BY <1>1 DEF AbsentJob, DeletedJob, JobRow, JobRecord, Statuses, Types

LEMMA CallFields ==
  ASSUME NEW call \in CallRow
  PROVE  /\ call.age \in Ages /\ call.owner \in Owners \cup {None}
         /\ call.phase # "idle" => call.job \in Jobs /\ call.submission \in Submissions
BY DEF CallRow, CallRecord

LEMMA CallRows ==
  /\ IdleCall \in CallRow
  /\ \A j \in Jobs, s \in Submissions, o \in Owners :
       /\ Call("checked", j, o, s, "none") \in CallRow
       /\ Call("answered", j, None, s, "accepted") \in CallRow
       /\ Call("answered", j, None, s, "refused") \in CallRow
  /\ \A call \in CallRow : call.phase # "idle" =>
       /\ Answered(call, "accepted") \in CallRow
       /\ Answered(call, "refused") \in CallRow
       /\ Answered(call, "error") \in CallRow
       /\ Unsure(call) \in CallRow
<1>1. 0 \in Ages
  BY NumbersAssumption DEF Ages
<1>2. IdleCall \in CallRow
  BY <1>1 DEF IdleCall, Call, CallRow, CallRecord
<1>3. ASSUME NEW j \in Jobs, NEW s \in Submissions, NEW o \in Owners \cup {None},
             NEW phase \in {"checked", "unsure", "answered"},
             NEW reply \in {"none", "accepted", "refused", "error"}
      PROVE  Call(phase, j, o, s, reply) \in CallRow
  BY <1>1, SetsAssumption DEF Call, CallRow, CallRecord
<1>4. ASSUME NEW call \in CallRow, call.phase # "idle"
      PROVE  /\ Answered(call, "accepted") \in CallRow
             /\ Answered(call, "refused") \in CallRow
             /\ Answered(call, "error") \in CallRow
             /\ Unsure(call) \in CallRow
  BY <1>3, <1>4, CallFields DEF Answered, Unsure
<1> QED BY <1>2, <1>3, <1>4

-----------------------------------------------------------------------------
(* Type correctness.                                                       *)

LEMMA InitType == ASSUME Init PROVE TypeOK
<1>1. items \in [Items -> ItemRecord]
  <2>1. PICK level \in [Items -> Levels] :
          items = [i \in Items |->
                     [generation |-> 1, privacy |-> level[i], deleted |-> FALSE,
                      purge |-> "none", scheduling |-> level[i]]]
    BY DEF Init
  <2>2. 1 \in 1 .. MaxGeneration
    BY NumbersAssumption
  <2> QED BY <2>1, <2>2 DEF ItemRecord
<1>2. jobs \in [Jobs -> JobRow]
  BY EmptyRows DEF Init
<1> QED BY <1>1, <1>2, CallRows DEF Init, TypeOK

LEMMA AgeBounds ==
  ASSUME NEW age \in Ages
  PROVE  /\ -age \in -Skew .. BackoffTicks
         /\ LeaseTicks - age \in -Skew .. LeaseTicks /\ LeaseTicks - age > 0
         /\ \A delay \in 1 .. BackoffTicks : delay - age \in -Skew .. BackoffTicks
         /\ 0 \in -Skew .. BackoffTicks
BY NumbersAssumption DEF Ages

\* The batches of SubmitExtractionResults and PersistOutcome: j ends, or stays, and
\* an enrichment may be chained to it.
Endings(j) ==
  {jobs[j], Unleased(jobs[j], "complete", 0), AttemptFailed(jobs[j], "failed", 0)}

LEMMA EndingForms ==
  ASSUME NEW j \in Jobs, NEW o, NEW age,
         SubmitExtractionResults(j, o, age) \/ PersistOutcome(j, o, age)
  PROVE  /\ jobs[j].status = "processing"
         /\ UNCHANGED <<items, results, calls>>
         /\ \E ended \in Endings(j), blocking \in SUBSET Types :
              \/ jobs' = [jobs EXCEPT ![j] = ended]
              \/ SameEpoch(j) /\ ChainsEnrich(j, ended, blocking, age)
<1>1. CASE SubmitExtractionResults(j, o, age)
  <2> DEFINE ended == IF Current(j) THEN Unleased(jobs[j], "complete", 0) ELSE jobs[j]
  <2>1. ended \in Endings(j) /\ {"acquire_url"} \in SUBSET Types
    BY DEF Endings, Types
  <2>2. \/ jobs' = [jobs EXCEPT ![j] = ended]
        \/ SameEpoch(j) /\ ChainsEnrich(j, ended, {"acquire_url"}, age)
    BY <1>1 DEF SubmitExtractionResults
  <2> HIDE DEF ended
  <2> QED BY <1>1, <2>1, <2>2 DEF SubmitExtractionResults, Holds
<1>2. CASE PersistOutcome(j, o, age)
  <2>1. {"extract"} \in SUBSET Types
    BY DEF Types
  <2> QED BY <1>2, <2>1 DEF PersistOutcome, Holds, Endings, Current
<1> QED BY <1>1, <1>2

LEMMA EndingRow ==
  ASSUME TypeOK, NEW j \in Jobs, NEW ended \in Endings(j)
  PROVE  ended \in JobRow
<1>1. jobs[j] \in JobRow /\ 0 \in -Skew .. BackoffTicks
  BY NumbersAssumption DEF TypeOK
<1>2. "complete" \in Statuses \ {"processing"} /\ "failed" \in Statuses \ {"processing"}
  BY DEF Statuses
<1>3. Unleased(jobs[j], "complete", 0) \in JobRow
  BY <1>1, <1>2, UnleasedRow
<1>4. AttemptFailed(jobs[j], "failed", 0) \in JobRow
  BY <1>1, <1>2, CountedRow
<1> QED BY <1>1, <1>3, <1>4 DEF Endings

\* The row a chained enrichment gets is one of the item as it is.
LEMMA ChainedRow ==
  ASSUME TypeOK, NEW j \in Jobs, NEW age \in Ages, SameEpoch(j)
  PROVE  /\ jobs[j].item \in Items
         /\ jobs[j].generation = items[jobs[j].item].generation
         /\ NewJob(jobs[j].item, "enrich", jobs[j].generation, jobs[j].privacy, age) \in JobRow
<1>1. PICK i \in Items : /\ i = jobs[j].item
                         /\ items[i].generation = jobs[j].generation
                         /\ items[i].privacy = jobs[j].privacy
  BY DEF SameEpoch
<1>2. items[i].generation \in 1 .. MaxGeneration /\ items[i].privacy \in Levels
  BY DEF TypeOK, ItemRecord
<1> QED BY <1>1, <1>2, NewRow DEF Types

LEMMA EndingType ==
  ASSUME TypeOK, NEW j \in Jobs, NEW o, NEW age \in Ages,
         SubmitExtractionResults(j, o, age) \/ PersistOutcome(j, o, age)
  PROVE  TypeOK'
<1>1. PICK ended \in Endings(j), blocking \in SUBSET Types :
        \/ jobs' = [jobs EXCEPT ![j] = ended]
        \/ SameEpoch(j) /\ ChainsEnrich(j, ended, blocking, age)
  BY EndingForms
<1>2. ended \in JobRow /\ jobs \in [Jobs -> JobRow]
  BY EndingRow DEF TypeOK
<1>3. jobs' \in [Jobs -> JobRow]
  <2>1. CASE jobs' = [jobs EXCEPT ![j] = ended]
    BY <1>2, <2>1
  <2>2. CASE SameEpoch(j) /\ ChainsEnrich(j, ended, blocking, age)
    <3> DEFINE new == NewJob(jobs[j].item, "enrich", jobs[j].generation, jobs[j].privacy, age)
    <3>1. new \in JobRow
      BY <2>2, ChainedRow
    <3>2. PICK k \in Jobs : jobs' = [jobs EXCEPT ![j] = ended, ![k] = new]
      BY <2>2 DEF ChainsEnrich
    <3> HIDE DEF new
    <3> QED BY <1>2, <3>1, <3>2
  <2> QED BY <1>1, <2>1, <2>2
<1> QED BY <1>3, EndingForms DEF TypeOK

LEMMA WorkerType ==
  ASSUME TypeOK, WorkerStep
  PROVE  TypeOK'
<1>1. PICK j \in Jobs, o \in Owners, age \in Ages :
        \/ LeaseProcessingJob(j, o, age) \/ HeartbeatProcessingJob(j, o, age)
        \/ CompleteProcessingJob(j, o, age) \/ ReleaseProcessingJob(j, o, age)
        \/ DeferProcessingJob(j, o, age) \/ FailProcessingJob(j, o, age)
        \/ SubmitExtractionResults(j, o, age) \/ PersistOutcome(j, o, age)
  BY DEF WorkerStep
<1>2. jobs \in [Jobs -> JobRow] /\ jobs[j] \in JobRow
  BY DEF TypeOK
<1>3. /\ "pending" \in Statuses \ {"processing"}
      /\ "complete" \in Statuses \ {"processing"}
      /\ "failed" \in Statuses \ {"processing"}
  BY DEF Statuses
<1>4. UNCHANGED <<items, results, calls>>
  BY <1>1, EndingForms
     DEF LeaseProcessingJob, HeartbeatProcessingJob, CompleteProcessingJob,
         ReleaseProcessingJob, DeferProcessingJob, FailProcessingJob
<1>5. CASE LeaseProcessingJob(j, o, age)
  BY <1>2, <1>4, <1>5, LeasedRow, AgeBounds DEF LeaseProcessingJob, TypeOK
<1>6. CASE HeartbeatProcessingJob(j, o, age)
  <2>1. [jobs[j] EXCEPT !.lease = LeaseTicks - age] \in JobRow
    BY <1>2, <1>6, TimerRow, AgeBounds DEF HeartbeatProcessingJob, Holds
  <2> QED BY <1>2, <1>4, <1>6, <2>1 DEF HeartbeatProcessingJob, TypeOK
<1>7. CASE CompleteProcessingJob(j, o, age)
  BY <1>2, <1>3, <1>4, <1>7, UnleasedRow, AgeBounds DEF CompleteProcessingJob, TypeOK
<1>8. CASE ReleaseProcessingJob(j, o, age)
  BY <1>2, <1>3, <1>4, <1>8, UnleasedRow, AgeBounds DEF ReleaseProcessingJob, TypeOK
<1>9. CASE DeferProcessingJob(j, o, age)
  <2>1. PICK delay \in 1 .. BackoffTicks :
          jobs' = [jobs EXCEPT ![j] = Unleased(jobs[j], "pending", delay - age)]
    BY <1>9 DEF DeferProcessingJob
  <2> QED BY <1>2, <1>3, <1>4, <2>1, UnleasedRow, AgeBounds DEF TypeOK
<1>10. CASE FailProcessingJob(j, o, age)
  <2>1. PICK delay \in 1 .. BackoffTicks :
          \/ jobs' = [jobs EXCEPT ![j] = AttemptFailed(jobs[j], "pending", delay - age)]
          \/ jobs' = [jobs EXCEPT ![j] = AttemptFailed(jobs[j], "failed", 0)]
    BY <1>10 DEF FailProcessingJob
  <2>2. delay - age \in -Skew .. BackoffTicks /\ 0 \in -Skew .. BackoffTicks
    BY AgeBounds
  <2>3. /\ AttemptFailed(jobs[j], "pending", delay - age) \in JobRow
        /\ AttemptFailed(jobs[j], "failed", 0) \in JobRow
    BY <1>2, <1>3, <2>2, CountedRow
  <2> QED BY <1>2, <1>4, <2>1, <2>3 DEF TypeOK
<1>11. CASE SubmitExtractionResults(j, o, age) \/ PersistOutcome(j, o, age)
  BY <1>11, EndingType
<1> QED BY <1>1, <1>5, <1>6, <1>7, <1>8, <1>9, <1>10, <1>11

LEMMA SubmitType ==
  ASSUME TypeOK, SubmitStep
  PROVE  TypeOK'
<1>1. PICK c \in Calls :
        \/ \E j \in Jobs, o \in Owners, s \in Submissions : SubmitCheck(c, j, o, s)
        \/ SubmitStore(c) \/ SubmitNothing(c) \/ SubmitReread(c) \/ Return(c)
  BY DEF SubmitStep
<1>2. calls \in [Calls -> CallRow] /\ calls[c] \in CallRow
  BY DEF TypeOK
<1>3. CASE \E j \in Jobs, o \in Owners, s \in Submissions : SubmitCheck(c, j, o, s)
  <2>1. PICK j \in Jobs, o \in Owners, s \in Submissions : SubmitCheck(c, j, o, s)
    BY <1>3
  <2>2. calls' \in [Calls -> CallRow]
    BY <1>2, <2>1, CallRows DEF SubmitCheck
  <2> QED BY <2>1, <2>2 DEF SubmitCheck, TypeOK
<1>4. CASE SubmitStore(c)
  <2>1. calls[c].job \in Jobs /\ calls[c].submission \in Submissions
    BY <1>2, <1>4, CallFields DEF SubmitStore
  <2>2. jobs' \in [Jobs -> JobRow]
    <3>1. "complete" \in Statuses \ {"processing"} /\ 0 \in -Skew .. BackoffTicks
      BY NumbersAssumption DEF Statuses
    <3>2. Unleased(jobs[calls[c].job], "complete", 0) \in JobRow
      BY <2>1, <3>1, UnleasedRow DEF TypeOK
    <3> QED BY <1>4, <3>2 DEF SubmitStore, TypeOK
  <2>3. calls' \in [Calls -> CallRow]
    BY <1>2, <1>4, CallRows DEF SubmitStore
  <2> QED BY <1>4, <2>1, <2>2, <2>3 DEF SubmitStore, TypeOK
<1>5. CASE SubmitNothing(c)
  <2>1. calls' \in [Calls -> CallRow]
    BY <1>2, <1>5, CallRows DEF SubmitNothing
  <2> QED BY <1>5, <2>1 DEF SubmitNothing, TypeOK
<1>6. CASE SubmitReread(c)
  <2>1. calls' \in [Calls -> CallRow]
    BY <1>2, <1>6, CallRows DEF SubmitReread
  <2> QED BY <1>6, <2>1 DEF SubmitReread, TypeOK
<1>7. CASE Return(c)
  BY <1>2, <1>7, CallRows DEF Return, TypeOK
<1> QED BY <1>1, <1>3, <1>4, <1>5, <1>6, <1>7

\* A row of items with one or two columns changed.
LEMMA ItemColumns ==
  ASSUME NEW item \in ItemRecord, NEW generation \in 1 .. MaxGeneration
  PROVE  /\ [item EXCEPT !.scheduling = None] \in ItemRecord
         /\ [item EXCEPT !.generation = generation] \in ItemRecord
         /\ \A p \in {"none", "checked", "queued", "frozen", "gone"} :
              [item EXCEPT !.purge = p] \in ItemRecord
         /\ \A d \in BOOLEAN :
              [item EXCEPT !.deleted = d, !.generation = generation] \in ItemRecord
         /\ \A level \in Levels :
              [item EXCEPT !.privacy = level, !.generation = generation] \in ItemRecord
BY DEF ItemRecord

LEMMA Tables ==
  ASSUME TypeOK, NEW i \in Items
  PROVE  /\ Superseded(i) \in [Jobs -> JobRow]
         /\ JobsDeleted(i) \in [Jobs -> JobRow]
         /\ \A table \in [Jobs -> JobRow] : AcquisitionRetired(i, table) \in [Jobs -> JobRow]
<1>1. "failed" \in Statuses \ {"processing"} /\ 0 \in -Skew .. BackoffTicks
  BY NumbersAssumption DEF Statuses
<1>2. \A job \in JobRow : Unleased(job, "failed", 0) \in JobRow
  BY <1>1, UnleasedRow
<1> QED BY <1>2, EmptyRows DEF Superseded, JobsDeleted, AcquisitionRetired, TypeOK

LEMMA InsertType ==
  ASSUME TypeOK, InsertStep
  PROVE  TypeOK'
<1>1. PICK i \in Items :
        \/ \E t \in EnqueuedTypes, age \in Ages : EnqueueProcessingJob(i, t, age)
        \/ \E age \in Ages : ScheduleProcessing(i, age)
        \/ ScheduleProcessingFails(i)
        \/ \E age \in Ages : RetrySource(i, age)
  BY DEF InsertStep
<1>2. items \in [Items -> ItemRecord] /\ items[i] \in ItemRecord
  BY DEF TypeOK
<1>3. /\ items[i].generation \in 1 .. MaxGeneration /\ items[i].privacy \in Levels
      /\ items[i].scheduling # None => items[i].scheduling \in Levels
  BY <1>2 DEF ItemRecord
<1>4. jobs \in [Jobs -> JobRow]
  BY DEF TypeOK
<1>5. CASE \E t \in EnqueuedTypes, age \in Ages : EnqueueProcessingJob(i, t, age)
  <2>1. PICK t \in EnqueuedTypes, age \in Ages : EnqueueProcessingJob(i, t, age)
    BY <1>5
  <2>2. NewJob(i, t, items[i].generation, items[i].privacy, age) \in JobRow
    BY <1>3, NewRow, SetsAssumption
  <2> QED BY <1>4, <2>1, <2>2 DEF EnqueueProcessingJob, TypeOK
<1>6. CASE \E age \in Ages : ScheduleProcessing(i, age)
  <2>1. PICK age \in Ages : ScheduleProcessing(i, age)
    BY <1>6
  <2>2. PICK slot \in [CaptureTypes(i) -> Jobs] :
          jobs' = [j \in Jobs |->
                     IF \E t \in CaptureTypes(i) : slot[t] = j
                       THEN NewJob(i, CHOOSE t \in CaptureTypes(i) : slot[t] = j,
                                   items[i].generation, items[i].scheduling, age)
                       ELSE jobs[j]]
    BY <2>1 DEF ScheduleProcessing
  <2>3. CaptureTypes(i) \subseteq Types
    BY DEF CaptureTypes, Types
  <2>4. \A t \in Types : NewJob(i, t, items[i].generation, items[i].scheduling, age) \in JobRow
    BY <1>3, <2>1, NewRow DEF ScheduleProcessing
  <2>5. jobs' \in [Jobs -> JobRow]
    <3>1. ASSUME NEW j \in Jobs, \E t \in CaptureTypes(i) : slot[t] = j
          PROVE  (CHOOSE t \in CaptureTypes(i) : slot[t] = j) \in Types
      BY <3>1, <2>3
    <3> QED BY <1>4, <2>2, <2>4, <3>1
  <2>6. items' \in [Items -> ItemRecord]
    BY <1>2, <1>3, <2>1, ItemColumns DEF ScheduleProcessing
  <2> QED BY <2>1, <2>5, <2>6 DEF ScheduleProcessing, TypeOK
<1>7. CASE ScheduleProcessingFails(i)
  <2>1. items' \in [Items -> ItemRecord]
    BY <1>2, <1>3, <1>7, ItemColumns DEF ScheduleProcessingFails
  <2> QED BY <1>7, <2>1 DEF ScheduleProcessingFails, TypeOK
<1>8. CASE \E age \in Ages : RetrySource(i, age)
  <2>1. PICK age \in Ages : RetrySource(i, age)
    BY <1>8
  <2>2. Retry(NewJob(i, "acquire_url", items[i].generation, Public, age)) \in JobRow
    BY <1>3, NewRow, SetsAssumption DEF Types
  <2> QED BY <1>4, <2>1, <2>2 DEF RetrySource, TypeOK
<1> QED BY <1>1, <1>5, <1>6, <1>7, <1>8

LEMMA OwnerType ==
  ASSUME TypeOK, OwnerStep
  PROVE  TypeOK'
<1> USE DEF TypeOK
<1>1. CASE \E j \in Jobs, age \in Ages : ManuallyRetryProcessingJob(j, age)
  <2>1. PICK j \in Jobs, age \in Ages : ManuallyRetryProcessingJob(j, age)
    BY <1>1
  <2>2. "pending" \in Statuses \ {"processing"} /\ -age \in -Skew .. BackoffTicks
    BY AgeBounds DEF Statuses
  <2>3. RetriedByHand(jobs[j], -age) \in JobRow
    BY <2>2, CountedRow
  <2> QED BY <2>1, <2>3 DEF ManuallyRetryProcessingJob
<1>2. ASSUME NEW i \in Items, items[i].generation < MaxGeneration
      PROVE  items[i].generation + 1 \in 1 .. MaxGeneration
  BY <1>2, NumbersAssumption DEF ItemRecord
<1>3. \A i \in Items : items[i].generation \in 1 .. MaxGeneration /\ items[i].privacy \in Levels
  BY DEF ItemRecord
<1>4. ASSUME NEW i \in Items, NEW enrich \in BOOLEAN, NEW age \in Ages,
             SupplyText(i, enrich, age)
      PROVE  TypeOK'
  <2>1. items[i].generation + 1 \in 1 .. MaxGeneration
    BY <1>2, <1>4 DEF SupplyText, NextGeneration
  <2>2. items' \in [Items -> ItemRecord]
    BY <1>4, <2>1, ItemColumns DEF SupplyText
  <2>3. NewJob(i, "enrich", items[i].generation + 1, items[i].privacy, age) \in JobRow
    BY <1>3, <2>1, NewRow DEF Types
  <2>4. jobs' \in [Jobs -> JobRow]
    BY <1>4, <2>3, Tables DEF SupplyText
  <2> QED BY <1>4, <2>2, <2>4 DEF SupplyText
<1>5. ASSUME NEW i \in Items, NEW age \in Ages, ReplaceUrl(i, age)
      PROVE  TypeOK'
  <2>1. items[i].generation + 1 \in 1 .. MaxGeneration
    BY <1>2, <1>5 DEF ReplaceUrl, NextGeneration
  <2>2. items' \in [Items -> ItemRecord]
    BY <1>5, <2>1, ItemColumns DEF ReplaceUrl
  <2>3. NewJob(i, "acquire_url", items[i].generation + 1, items[i].privacy, age) \in JobRow
    BY <1>3, <2>1, NewRow DEF Types
  <2>4. jobs' \in [Jobs -> JobRow]
    BY <1>5, <2>3, Tables DEF ReplaceUrl
  <2> QED BY <1>5, <2>2, <2>4 DEF ReplaceUrl
<1>6. ASSUME NEW i \in Items, ReplaceUrlLoses(i)
      PROVE  TypeOK'
  BY <1>6, Tables DEF ReplaceUrlLoses
<1>7. ASSUME NEW i \in Items, NEW deleted \in BOOLEAN, SetDeleted(i, deleted)
      PROVE  TypeOK'
  <2>1. items[i].generation + 1 \in 1 .. MaxGeneration
    BY <1>2, <1>7 DEF SetDeleted, NextGeneration
  <2> DEFINE generation == items[i].generation + 1
  <2>2. items' = [items EXCEPT ![i] =
          [items[i] EXCEPT !.deleted = deleted, !.generation = generation]]
    BY <1>7 DEF SetDeleted
  <2>3. [items[i] EXCEPT !.deleted = deleted, !.generation = generation] \in ItemRecord
    <3> HIDE DEF generation
    <3> QED BY <2>1, ItemColumns DEF generation
  <2>4. items' \in [Items -> ItemRecord]
    BY <2>2, <2>3
  <2> QED BY <1>7, <2>4, Tables DEF SetDeleted
<1>8. ASSUME NEW i \in Items, NEW level \in Levels, NEW reprocess \in BOOLEAN,
             NEW age \in Ages, ChangePrivacy(i, level, reprocess, age)
      PROVE  TypeOK'
  <2> DEFINE generation == IF level = items[i].privacy THEN items[i].generation
                           ELSE items[i].generation + 1
  <2>1. generation \in 1 .. MaxGeneration
    BY <1>2, <1>3, <1>8 DEF ChangePrivacy, NextGeneration
  <2>2. items' = [items EXCEPT ![i] =
          [items[i] EXCEPT !.privacy = level, !.generation = generation]]
    BY <1>8 DEF ChangePrivacy
  <2>3. [items[i] EXCEPT !.privacy = level, !.generation = generation] \in ItemRecord
    <3> HIDE DEF generation
    <3> QED BY <2>1, ItemColumns
  <2>4. items' \in [Items -> ItemRecord]
    BY <2>2, <2>3
  <2>5. NewJob(i, ReprocessType(i), items'[i].generation, level, age) \in JobRow
    <3>1. items'[i].generation \in 1 .. MaxGeneration
      BY <2>4 DEF ItemRecord
    <3> QED BY <3>1, NewRow DEF ReprocessType, Types
  <2>6. jobs' \in [Jobs -> JobRow]
    BY <1>8, <2>5, Tables DEF ChangePrivacy
  <2> QED BY <1>8, <2>4, <2>6 DEF ChangePrivacy
<1>9. ASSUME NEW i \in Items, ChangePrivacyLoses(i)
      PROVE  TypeOK'
  BY <1>9, Tables DEF ChangePrivacyLoses
<1> QED BY <1>1, <1>4, <1>5, <1>6, <1>7, <1>8, <1>9 DEF OwnerStep, DeleteItem, RestoreItem

LEMMA PurgeType ==
  ASSUME TypeOK, PurgeStep
  PROVE  TypeOK'
<1> USE DEF TypeOK
<1>1. PICK i \in Items :
        \/ CheckPurge(i) \/ ConfirmPurge(i) \/ ConfirmPurgeFails(i)
        \/ FreezeItemWork(i) \/ PurgeItem(i)
  BY DEF PurgeStep
<1>2. items' \in [Items -> ItemRecord]
  <2>1. PICK p \in {"none", "checked", "queued", "frozen", "gone"} :
          items' = [items EXCEPT ![i].purge = p]
    BY <1>1 DEF CheckPurge, ConfirmPurge, ConfirmPurgeFails, FreezeItemWork, PurgeItem
  <2>2. [items[i] EXCEPT !.purge = p] \in ItemRecord
    BY DEF ItemRecord
  <2> QED BY <2>1, <2>2
<1>3. jobs' \in [Jobs -> JobRow]
  <2>1. "failed" \in Statuses \ {"processing"} /\ 0 \in -Skew .. BackoffTicks
    BY NumbersAssumption DEF Statuses
  <2>2. \A job \in JobRow : Unleased(job, "failed", 0) \in JobRow
    BY <2>1, UnleasedRow
  <2> QED BY <1>1, <2>2, Tables
      DEF CheckPurge, ConfirmPurge, ConfirmPurgeFails, FreezeItemWork, PurgeItem
<1> QED BY <1>1, <1>2, <1>3
    DEF CheckPurge, ConfirmPurge, ConfirmPurgeFails, FreezeItemWork, PurgeItem

LEMMA TickType ==
  ASSUME TypeOK, Tick
  PROVE  TypeOK'
<1>1. ASSUME NEW job \in JobRow
      PROVE  /\ job.status = "pending" => [job EXCEPT !.wait = Countdown(@)] \in JobRow
             /\ job.status = "processing" => [job EXCEPT !.lease = Countdown(@)] \in JobRow
  <2>1. Countdown(job.wait) \in -Skew .. BackoffTicks
        /\ Countdown(job.lease) \in -Skew .. LeaseTicks
    BY RowFields, NumbersAssumption DEF Countdown
  <2> QED BY <2>1, TimerRow
<1>2. jobs' \in [Jobs -> JobRow]
  BY <1>1 DEF Tick, TypeOK
<1>3. ASSUME NEW call \in CallRow, call.age # Skew
      PROVE  [call EXCEPT !.age = @ + 1] \in CallRow
  <2>1. call.age + 1 \in Ages
    BY <1>3, CallFields, NumbersAssumption DEF Ages
  <2> QED BY <2>1 DEF CallRow, CallRecord
<1>4. calls' \in [Calls -> CallRow]
  BY <1>3, CallRows DEF Tick, TypeOK
<1> QED BY <1>2, <1>4 DEF Tick, TypeOK

\* Rows and calls stay well formed: every leased job has an owner, every other
\* one has neither owner nor lease, whatever sequence of statements wrote it.
THEOREM TypeCorrect == Spec => []TypeOK
<1>1. Init => TypeOK
  BY InitType
<1>2. TypeOK /\ [Next]_vars => TypeOK'
  <2>1. CASE UNCHANGED vars
    BY <2>1 DEF vars, TypeOK
  <2> QED BY <2>1, WorkerType, SubmitType, InsertType, OwnerType, PurgeType, TickType DEF Next
<1> QED BY <1>1, <1>2, PTL DEF Spec

-----------------------------------------------------------------------------
(* Every step moves every row in one of the ways above.                    *)

LEMMA KeptRow ==
  ASSUME NEW j \in Jobs, jobs'[j] = jobs[j], results'[j] = results[j],
         Active(j) => items'[jobs[j].item] = items[jobs[j].item]
  PROVE  RowStep(j)
BY DEF RowStep, RowKept, SameWork, SameResult, ItemStays

LEMMA InsertedRow ==
  ASSUME NEW j \in Jobs, jobs[j].status = "absent", results'[j] = results[j],
         NEW i \in Items, NEW t, NEW generation, NEW level, NEW age,
         jobs'[j] = NewJob(i, t, generation, level, age),
         items'[i].generation = generation
  PROVE  RowStep(j)
BY DEF NewJob, RowStep, RowInserted, SameResult

LEMMA EndingRows ==
  ASSUME TypeOK, JobInv, NEW k \in Jobs, NEW o, NEW age \in Ages,
         SubmitExtractionResults(k, o, age) \/ PersistOutcome(k, o, age), NEW j \in Jobs
  PROVE  RowStep(j)
<1>1. PICK ended \in Endings(k), blocking \in SUBSET Types :
        \/ jobs' = [jobs EXCEPT ![k] = ended]
        \/ SameEpoch(k) /\ ChainsEnrich(k, ended, blocking, age)
  BY EndingForms
<1>2. UNCHANGED <<items, results, calls>> /\ jobs[k].status = "processing"
  BY EndingForms
<1>3. jobs[k] \in JobRow /\ jobs \in [Jobs -> JobRow] /\ 0 \in -Skew .. BackoffTicks
  BY NumbersAssumption DEF TypeOK
<1>4. ASSUME j = k, jobs'[j] = ended
      PROVE  RowStep(j)
  <2>1. /\ jobs[j].attempts \in Nat
        /\ "complete" \in Statuses \ {"processing"} /\ "failed" \in Statuses \ {"processing"}
    BY <1>3, <1>4, RowFields DEF Statuses
  <2>2. CASE ended = jobs[k]
    BY <1>2, <1>4, <2>2, KeptRow
  <2>3. CASE ended = Unleased(jobs[k], "complete", 0)
    BY <1>2, <1>3, <1>4, <2>1, <2>3, UnleasedRow
    DEF RowStep, RowEnded, SameWork, SameResult, Active
  <2>4. CASE ended = AttemptFailed(jobs[k], "failed", 0)
    BY <1>2, <1>3, <1>4, <2>1, <2>4, CountedRow
    DEF RowStep, RowEnded, SameWork, SameResult, Active
  <2> QED BY <2>2, <2>3, <2>4 DEF Endings
<1>5. CASE jobs' = [jobs EXCEPT ![k] = ended]
  <2>1. jobs'[j] = IF j = k THEN ended ELSE jobs[j]
    BY <1>3, <1>5
  <2> QED BY <1>2, <1>4, <2>1, KeptRow
<1>6. CASE SameEpoch(k) /\ ChainsEnrich(k, ended, blocking, age)
  <2> DEFINE new == NewJob(jobs[k].item, "enrich", jobs[k].generation, jobs[k].privacy, age)
  <2>1. PICK n \in Jobs : /\ jobs[n].status = "absent"
                          /\ jobs' = [jobs EXCEPT ![k] = ended, ![n] = new]
    BY <1>6 DEF ChainsEnrich
  <2>2. n # k
    BY <1>2, <2>1
  <2>3. jobs'[k] = ended /\ jobs'[n] = new /\ (j # k /\ j # n => jobs'[j] = jobs[j])
    BY <1>3, <2>1, <2>2
  <2>4. jobs[k].item \in Items /\ jobs[k].generation = items[jobs[k].item].generation
    BY <1>6, ChainedRow
  <2>5. CASE j = n
    BY <1>2, <2>1, <2>3, <2>4, <2>5, InsertedRow
  <2> QED BY <1>2, <1>4, <2>3, <2>5, KeptRow
<1> QED BY <1>1, <1>5, <1>6

LEMMA WorkerRows ==
  ASSUME TypeOK, JobInv, WorkerStep, NEW j \in Jobs
  PROVE  RowStep(j)
<1>1. PICK k \in Jobs, o \in Owners, age \in Ages :
        \/ LeaseProcessingJob(k, o, age) \/ HeartbeatProcessingJob(k, o, age)
        \/ CompleteProcessingJob(k, o, age) \/ ReleaseProcessingJob(k, o, age)
        \/ DeferProcessingJob(k, o, age) \/ FailProcessingJob(k, o, age)
        \/ SubmitExtractionResults(k, o, age) \/ PersistOutcome(k, o, age)
  BY DEF WorkerStep
<1> SUFFICES ASSUME ~SubmitExtractionResults(k, o, age), ~PersistOutcome(k, o, age)
             PROVE  RowStep(j)
  BY EndingRows
<1>2. UNCHANGED <<items, results, calls>> /\ SameResult(j)
  BY <1>1 DEF LeaseProcessingJob, HeartbeatProcessingJob, CompleteProcessingJob,
              ReleaseProcessingJob, DeferProcessingJob, FailProcessingJob, SameResult
<1>3. CASE j # k
  <2>1. jobs'[j] = jobs[j]
    BY <1>1, <1>3 DEF LeaseProcessingJob, HeartbeatProcessingJob, CompleteProcessingJob,
              ReleaseProcessingJob, DeferProcessingJob, FailProcessingJob, TypeOK
  <2> QED BY <1>2, <2>1, KeptRow
<1>4. CASE j = k
  <2>1. jobs[j] \in JobRow /\ jobs \in [Jobs -> JobRow]
    BY DEF TypeOK
  <2>2. /\ jobs[j].attempts \in Nat /\ jobs[j].retries \in Nat /\ jobs[j].lease \in Int
        /\ MaxAttempts \in Nat
    BY <2>1, RowFields, NumbersAssumption
  <2>3. /\ "pending" \in Statuses \ {"processing"}
        /\ "complete" \in Statuses \ {"processing"}
        /\ "failed" \in Statuses \ {"processing"}
    BY DEF Statuses
  <2>4. /\ -age \in -Skew .. BackoffTicks /\ 0 \in -Skew .. BackoffTicks
        /\ LeaseTicks - age \in -Skew .. LeaseTicks /\ LeaseTicks - age > 0
    BY AgeBounds
  <2>5. jobs[j].status = "processing" =>
          jobs[j].attempts < MaxAttempts + jobs[j].retries
    BY DEF JobInv, AttemptsLeft, Active
  <2>6. CASE LeaseProcessingJob(k, o, age)
    <3>1. jobs'[j] = Leased(jobs[j], o, LeaseTicks - age) /\ Current(j)
      BY <1>4, <2>1, <2>6 DEF LeaseProcessingJob
    <3>2. jobs[j].status = "pending" \/ (jobs[j].status = "processing" /\ jobs[j].lease <= 0)
      BY <1>4, <2>2, <2>6, NumbersAssumption DEF LeaseProcessingJob, Ages
    <3> QED BY <1>2, <2>1, <2>4, <3>1, <3>2, LeasedRow DEF RowStep, RowTaken, SameWork
  <2>7. CASE HeartbeatProcessingJob(k, o, age)
    <3>1. jobs'[j] = [jobs[j] EXCEPT !.lease = LeaseTicks - age]
      BY <1>4, <2>1, <2>7 DEF HeartbeatProcessingJob
    <3>2. jobs[j] \in JobRecord
      BY <2>1, RowFields
    <3> QED BY <1>2, <3>1, <3>2 DEF RowStep, RowKept, SameWork, ItemStays, JobRecord
  <2>8. CASE CompleteProcessingJob(k, o, age)
    <3>1. jobs'[j] = Unleased(jobs[j], "complete", 0) /\ jobs[j].status = "processing"
      BY <1>4, <2>1, <2>8 DEF CompleteProcessingJob, Holds
    <3> QED BY <1>2, <2>1, <2>2, <2>3, <2>4, <3>1, UnleasedRow
        DEF RowStep, RowEnded, SameWork, Active
  <2>9. CASE ReleaseProcessingJob(k, o, age)
    <3>1. jobs'[j] = Unleased(jobs[j], "pending", -age) /\ jobs[j].status = "processing"
      BY <1>4, <2>1, <2>9 DEF ReleaseProcessingJob, Holds
    <3> QED BY <1>2, <2>1, <2>2, <2>3, <2>4, <2>5, <3>1, UnleasedRow
        DEF RowStep, RowGivenBack, SameWork
  <2>10. CASE DeferProcessingJob(k, o, age)
    <3>1. PICK delay \in 1 .. BackoffTicks :
            jobs'[j] = Unleased(jobs[j], "pending", delay - age)
      BY <1>4, <2>1, <2>10 DEF DeferProcessingJob
    <3>2. delay - age \in -Skew .. BackoffTicks /\ jobs[j].status = "processing"
      BY <1>4, <2>10, AgeBounds DEF DeferProcessingJob, Holds
    <3> QED BY <1>2, <2>1, <2>2, <2>3, <2>5, <3>1, <3>2, UnleasedRow
        DEF RowStep, RowGivenBack, SameWork
  <2>11. CASE FailProcessingJob(k, o, age)
    <3>1. jobs[j].status = "processing"
      BY <1>4, <2>11 DEF FailProcessingJob, Holds
    <3>2. PICK retryable \in BOOLEAN, maxAttempts \in 1 .. MaxAttempts,
               delay \in 1 .. BackoffTicks :
            IF retryable /\ jobs[j].attempts + 1 < maxAttempts
              THEN jobs'[j] = AttemptFailed(jobs[j], "pending", delay - age)
              ELSE jobs'[j] = AttemptFailed(jobs[j], "failed", 0)
      BY <1>4, <2>1, <2>11 DEF FailProcessingJob
    <3>3. delay - age \in -Skew .. BackoffTicks
      BY AgeBounds
    <3>4. CASE retryable /\ jobs[j].attempts + 1 < maxAttempts
      <4>1. jobs[j].attempts + 1 < MaxAttempts + jobs[j].retries
        BY <2>2, <3>4, NumbersAssumption
      <4> QED BY <1>2, <2>1, <2>3, <3>1, <3>2, <3>3, <3>4, <4>1, CountedRow
          DEF RowStep, RowGivenBack, SameWork
    <3>5. CASE ~(retryable /\ jobs[j].attempts + 1 < maxAttempts)
      BY <1>2, <2>1, <2>2, <2>3, <2>4, <3>1, <3>2, <3>5, CountedRow, SMTT(30)
      DEF RowStep, RowEnded, SameWork, Active
    <3> QED BY <3>4, <3>5
  <2> QED BY <1>1, <2>6, <2>7, <2>8, <2>9, <2>10, <2>11
<1> QED BY <1>3, <1>4

LEMMA SubmitRows ==
  ASSUME TypeOK, JobInv, SubmitStep, NEW j \in Jobs
  PROVE  RowStep(j)
<1>1. PICK c \in Calls :
        \/ \E k \in Jobs, o \in Owners, s \in Submissions : SubmitCheck(c, k, o, s)
        \/ SubmitStore(c) \/ SubmitNothing(c) \/ SubmitReread(c) \/ Return(c)
  BY DEF SubmitStep
<1>2. CASE SubmitStore(c)
  <2>1. calls[c].job \in Jobs /\ calls[c].submission \in Submissions
    BY <1>2, CallFields DEF SubmitStore, TypeOK
  <2>2. CASE j # calls[c].job
    BY <1>2, <2>2, KeptRow DEF SubmitStore, TypeOK
  <2>3. CASE j = calls[c].job
    <3>1. /\ jobs'[j] = Unleased(jobs[j], "complete", 0) /\ items' = items
          /\ results'[j] \in Submissions
      BY <1>2, <2>1, <2>3 DEF SubmitStore, TypeOK
    <3>2. jobs[j].status = "processing"
      BY <1>2, <2>3 DEF SubmitStore, GuardHolds, Holds
    <3>3. "complete" \in Statuses \ {"processing"} /\ 0 \in -Skew .. BackoffTicks
          /\ jobs[j] \in JobRow
      BY NumbersAssumption DEF Statuses, TypeOK
    <3>4. jobs[j].attempts \in Nat
      BY <3>3, RowFields
    <3> QED BY <3>1, <3>2, <3>3, <3>4, UnleasedRow DEF RowStep, RowEnded, SameWork, Active
  <2> QED BY <2>2, <2>3
<1>3. CASE ~SubmitStore(c)
  <2>1. UNCHANGED <<items, jobs, results>>
    BY <1>1, <1>3 DEF SubmitCheck, SubmitNothing, SubmitReread, Return
  <2> QED BY <2>1, KeptRow
<1> QED BY <1>2, <1>3

\* An active row is a row of an item.
LEMMA ActiveHasItem ==
  ASSUME TypeOK, JobInv, NEW j \in Jobs, Active(j)
  PROVE  jobs[j].item \in Items /\ jobs[j].generation = items[jobs[j].item].generation
<1>1. jobs[j].item \in Items \cup {None}
  BY RowFields DEF TypeOK
<1> QED BY <1>1 DEF JobInv, JobsArePlaced, ActiveIsCurrentGeneration, Active

LEMMA InsertRows ==
  ASSUME TypeOK, JobInv, InsertStep, NEW j \in Jobs
  PROVE  RowStep(j)
<1>1. PICK i \in Items :
        \/ \E t \in EnqueuedTypes, age \in Ages : EnqueueProcessingJob(i, t, age)
        \/ \E age \in Ages : ScheduleProcessing(i, age)
        \/ ScheduleProcessingFails(i)
        \/ \E age \in Ages : RetrySource(i, age)
  BY DEF InsertStep
<1>2. jobs[j] \in JobRow
  BY DEF TypeOK
<1>3. CASE \E t \in EnqueuedTypes, age \in Ages : EnqueueProcessingJob(i, t, age)
  <2>1. PICK t \in EnqueuedTypes, age \in Ages, k \in Jobs :
          /\ jobs[k].status = "absent"
          /\ jobs' = [jobs EXCEPT ![k] =
                        NewJob(i, t, items[i].generation, items[i].privacy, age)]
          /\ UNCHANGED <<items, results, calls>>
    BY <1>3 DEF EnqueueProcessingJob
  <2>2. CASE j # k
    BY <2>1, <2>2, KeptRow DEF TypeOK
  <2>3. CASE j = k
    BY <2>1, <2>3, InsertedRow DEF TypeOK
  <2> QED BY <2>2, <2>3
<1>4. ASSUME UNCHANGED <<results, calls>>, items' = [items EXCEPT ![i].scheduling = None]
      PROVE  /\ \A k \in Items : items'[k].generation = items[k].generation
             /\ jobs'[j] = jobs[j] => RowStep(j)
  <2>1. \A k \in Items : /\ items'[k].generation = items[k].generation
                         /\ items'[k].deleted = items[k].deleted
                         /\ items'[k].privacy = items[k].privacy
                         /\ items'[k].purge = items[k].purge
    BY <1>4 DEF TypeOK, ItemRecord
  <2> QED BY <1>4, <2>1, ActiveHasItem DEF RowStep, RowKept, SameWork, SameResult, ItemStays
<1>5. CASE \E age \in Ages : ScheduleProcessing(i, age)
  <2>1. PICK age \in Ages : ScheduleProcessing(i, age)
    BY <1>5
  <2>2. PICK slot \in [CaptureTypes(i) -> {k \in Jobs : jobs[k].status = "absent"}] :
          jobs' = [k \in Jobs |->
                     IF \E t \in CaptureTypes(i) : slot[t] = k
                       THEN NewJob(i, CHOOSE t \in CaptureTypes(i) : slot[t] = k,
                                   items[i].generation, items[i].scheduling, age)
                       ELSE jobs[k]]
    BY <2>1 DEF ScheduleProcessing
  <2>3. UNCHANGED <<results, calls>> /\ items' = [items EXCEPT ![i].scheduling = None]
    BY <2>1 DEF ScheduleProcessing
  <2>4. CASE \E t \in CaptureTypes(i) : slot[t] = j
    <3>1. jobs[j].status = "absent" /\ items'[i].generation = items[i].generation
      BY <1>4, <2>2, <2>3, <2>4
    <3> QED BY <2>2, <2>3, <2>4, <3>1, InsertedRow
  <2>5. CASE ~ \E t \in CaptureTypes(i) : slot[t] = j
    BY <1>4, <2>2, <2>3, <2>5
  <2> QED BY <2>4, <2>5
<1>6. CASE ScheduleProcessingFails(i)
  BY <1>4, <1>6 DEF ScheduleProcessingFails
<1>7. CASE \E age \in Ages : RetrySource(i, age)
  <2>1. PICK age \in Ages, k \in Jobs :
          /\ jobs[k].status = "absent"
          /\ jobs' = [jobs EXCEPT ![k] =
               Retry(NewJob(i, "acquire_url", items[i].generation, Public, age))]
          /\ UNCHANGED <<items, results, calls>>
    BY <1>7 DEF RetrySource
  <2>2. CASE j # k
    BY <2>1, <2>2, KeptRow DEF TypeOK
  <2>3. CASE j = k
    <3>1. jobs'[j] = Retry(NewJob(i, "acquire_url", items[i].generation, Public, age))
      BY <2>1, <2>3 DEF TypeOK
    <3>2. items[i].generation \in 1 .. MaxGeneration
      BY DEF TypeOK, ItemRecord
    <3>3. /\ jobs'[j].item = i /\ jobs'[j].generation = items[i].generation
          /\ jobs'[j].status = "pending" /\ jobs'[j].owner = None
          /\ jobs'[j].attempts = 0 /\ jobs'[j].retries = 1
      BY <3>1, <3>2, NewRow, SetsAssumption DEF Types
    <3> QED BY <2>1, <2>3, <3>3 DEF RowStep, RowInserted, SameResult
  <2> QED BY <2>2, <2>3
<1> QED BY <1>1, <1>3, <1>5, <1>6, <1>7

\* The generation trigger and the deletions reach every active row of the item;
\* the rows of other items do not see the change.
LEMMA SupersededRow ==
  ASSUME TypeOK, JobInv, NEW i \in Items, NEW j \in Jobs, results'[j] = results[j],
         jobs'[j] = Superseded(i)[j],
         \A k \in Items : k # i => items'[k] = items[k]
  PROVE  RowStep(j)
<1>1. /\ "failed" \in Statuses \ {"processing"} /\ 0 \in -Skew .. BackoffTicks
      /\ jobs[j] \in JobRow
  BY NumbersAssumption DEF Statuses, TypeOK
<1>2. jobs[j].attempts \in Nat
  BY <1>1, RowFields
<1>3. CASE Active(j) /\ jobs[j].item = i
  <2>1. jobs'[j] = Unleased(jobs[j], "failed", 0)
    BY <1>3, ActiveHasItem DEF Superseded
  <2> QED BY <1>1, <1>2, <1>3, <2>1, UnleasedRow
      DEF RowStep, RowEnded, SameWork, SameResult
<1>4. CASE ~(Active(j) /\ jobs[j].item = i)
  BY <1>4, ActiveHasItem, KeptRow DEF Superseded
<1> QED BY <1>3, <1>4

\* The foreign key: no job of the item has a result when its jobs are deleted.
LEMMA DeletedRow ==
  ASSUME TypeOK, JobInv, NEW i \in Items, NEW j \in Jobs,
         jobs'[j] = JobsDeleted(i)[j],
         results'[j] = IF jobs[j].item = i THEN None ELSE results[j],
         \A k \in Items : k # i => items'[k] = items[k]
  PROVE  RowStep(j)
<1>1. CASE jobs[j].item = i
  BY <1>1, SetsAssumption DEF JobsDeleted, JobInv, JobsArePlaced, RowStep, RowDeleted
<1>2. CASE jobs[j].item # i
  BY <1>2, ActiveHasItem, KeptRow DEF JobsDeleted
<1> QED BY <1>1, <1>2

LEMMA RetiredRow ==
  ASSUME TypeOK, JobInv, NEW i \in Items, NEW j \in Jobs, results'[j] = results[j],
         NEW table \in [Jobs -> JobRow], table[j] = jobs[j],
         jobs'[j] = AcquisitionRetired(i, table)[j],
         Active(j) /\ jobs'[j] = jobs[j] => items'[jobs[j].item] = items[jobs[j].item]
  PROVE  RowStep(j)
<1>1. /\ "failed" \in Statuses \ {"processing"} /\ 0 \in -Skew .. BackoffTicks
      /\ jobs[j] \in JobRow
  BY NumbersAssumption DEF Statuses, TypeOK
<1>2. jobs[j].attempts \in Nat
  BY <1>1, RowFields
<1>3. jobs'[j] = jobs[j] \/ (Active(j) /\ jobs'[j] = Unleased(jobs[j], "failed", 0))
  BY DEF AcquisitionRetired, Active
<1> QED BY <1>1, <1>2, <1>3, UnleasedRow, KeptRow DEF RowStep, RowEnded, SameWork, SameResult

\* Nothing of the item is active once the trigger ran.
LEMMA SupersededIsIdle ==
  ASSUME TypeOK, JobInv, NEW i \in Items, NEW j \in Jobs
  PROVE  ~(/\ Superseded(i)[j].status \in {"pending", "processing"}
           /\ Superseded(i)[j].item = i)
<1>1. /\ "failed" \in Statuses \ {"processing"} /\ 0 \in -Skew .. BackoffTicks
      /\ jobs[j] \in JobRow
  BY NumbersAssumption DEF Statuses, TypeOK
<1>2. CASE Active(j) /\ jobs[j].item = i
  BY <1>1, <1>2, ActiveHasItem, UnleasedRow DEF Superseded
<1>3. CASE ~(Active(j) /\ jobs[j].item = i)
  BY <1>3 DEF Superseded, Active
<1> QED BY <1>2, <1>3

LEMMA OwnerRows ==
  ASSUME TypeOK, JobInv, OwnerStep, NEW j \in Jobs
  PROVE  RowStep(j)
<1>0. /\ jobs[j] \in JobRow /\ jobs \in [Jobs -> JobRow] /\ items \in [Items -> ItemRecord]
  BY DEF TypeOK
<1>1. CASE \E k \in Jobs, age \in Ages : ManuallyRetryProcessingJob(k, age)
  <2>1. PICK k \in Jobs, age \in Ages : ManuallyRetryProcessingJob(k, age)
    BY <1>1
  <2>2. CASE j # k
    BY <2>1, <2>2, <1>0, KeptRow DEF ManuallyRetryProcessingJob
  <2>3. CASE j = k
    <3>1. /\ jobs'[j] = RetriedByHand(jobs[j], -age)
          /\ jobs[j].status = "failed" /\ jobs[j].retries < MaxManualRetries
          /\ items[jobs[j].item].generation = jobs[j].generation
          /\ items' = items /\ results' = results
      BY <1>0, <2>1, <2>3 DEF ManuallyRetryProcessingJob, MayRetry
    <3>2. -age \in -Skew .. BackoffTicks /\ "failed" \in Statuses \ {"processing"}
      BY AgeBounds DEF Statuses
    <3> QED BY <1>0, <3>1, <3>2, CountedRow DEF RowStep, RowRevived, SameWork, SameResult
  <2> QED BY <2>2, <2>3
<1>2. ASSUME NEW i \in Items, NEW enrich \in BOOLEAN, NEW age \in Ages,
             SupplyText(i, enrich, age)
      PROVE  RowStep(j)
  <2>1. /\ \A k \in Items : k # i => items'[k] = items[k]
        /\ items'[i].generation = items[i].generation + 1
        /\ results' = results
    BY <1>0, <1>2 DEF SupplyText, ItemRecord
  <2>2. CASE jobs' = Superseded(i)
    BY <2>1, <2>2, SupersededRow
  <2>3. CASE jobs' # Superseded(i)
    <3>1. PICK k \in Jobs :
            /\ jobs[k].status = "absent"
            /\ jobs' = [Superseded(i) EXCEPT ![k] =
                 NewJob(i, "enrich", items[i].generation + 1, items[i].privacy, age)]
      BY <1>2, <2>3 DEF SupplyText
    <3>2. Superseded(i) \in [Jobs -> JobRow]
      BY Tables
    <3>3. CASE j = k
      BY <2>1, <3>1, <3>2, <3>3, InsertedRow
    <3>4. CASE j # k
      BY <2>1, <3>1, <3>2, <3>4, SupersededRow
    <3> QED BY <3>3, <3>4
  <2> QED BY <2>2, <2>3
<1>3. ASSUME NEW i \in Items, NEW age \in Ages, ReplaceUrl(i, age)
      PROVE  RowStep(j)
  <2>1. /\ \A k \in Items : k # i => items'[k] = items[k]
        /\ items'[i].generation = items[i].generation + 1
        /\ results' = results
    BY <1>0, <1>3 DEF ReplaceUrl, ItemRecord
  <2> DEFINE table == AcquisitionRetired(i, Superseded(i))
  <2>2. table \in [Jobs -> JobRow]
    BY Tables
  <2>3. table[j] = Superseded(i)[j]
    BY SupersededIsIdle DEF AcquisitionRetired
  <2>4. PICK k \in Jobs :
          /\ jobs[k].status = "absent"
          /\ jobs' = [table EXCEPT ![k] =
               NewJob(i, "acquire_url", items[i].generation + 1, items[i].privacy, age)]
    BY <1>3 DEF ReplaceUrl
  <2> HIDE DEF table
  <2>5. CASE j = k
    BY <2>1, <2>2, <2>4, <2>5, InsertedRow
  <2>6. CASE j # k
    BY <2>1, <2>2, <2>3, <2>4, <2>6, SupersededRow
  <2> QED BY <2>5, <2>6
<1>4. ASSUME NEW i \in Items, ReplaceUrlLoses(i)
      PROVE  RowStep(j)
  BY <1>0, <1>4, RetiredRow DEF ReplaceUrlLoses
<1>5. ASSUME NEW i \in Items, NEW deleted \in BOOLEAN, SetDeleted(i, deleted)
      PROVE  RowStep(j)
  <2>1. /\ \A k \in Items : k # i => items'[k] = items[k]
        /\ results' = results /\ jobs' = Superseded(i)
    BY <1>0, <1>5 DEF SetDeleted
  <2> QED BY <2>1, SupersededRow
<1>6. ASSUME NEW i \in Items, NEW level \in Levels, NEW reprocess \in BOOLEAN,
             NEW age \in Ages, ChangePrivacy(i, level, reprocess, age)
      PROVE  RowStep(j)
  <2>1. /\ \A k \in Items : k # i => items'[k] = items[k]
        /\ results' = results
        /\ jobs[j].item = i => results[j] = None
    BY <1>0, <1>6 DEF ChangePrivacy, NoResult
  <2>2. CASE jobs' = JobsDeleted(i)
    BY <2>1, <2>2, DeletedRow
  <2>3. CASE jobs' # JobsDeleted(i)
    <3>1. PICK k \in Jobs :
            /\ jobs[k].status = "absent"
            /\ jobs' = [JobsDeleted(i) EXCEPT ![k] =
                 NewJob(i, ReprocessType(i), items'[i].generation, level, age)]
      BY <1>6, <2>3 DEF ChangePrivacy
    <3>2. JobsDeleted(i) \in [Jobs -> JobRow]
      BY Tables
    <3>3. CASE j = k
      BY <2>1, <3>1, <3>2, <3>3, InsertedRow
    <3>4. CASE j # k
      BY <2>1, <3>1, <3>2, <3>4, DeletedRow
    <3> QED BY <3>3, <3>4
  <2> QED BY <2>2, <2>3
<1>7. ASSUME NEW i \in Items, ChangePrivacyLoses(i)
      PROVE  RowStep(j)
  BY <1>7, DeletedRow DEF ChangePrivacyLoses, NoResult
<1> QED BY <1>1, <1>2, <1>3, <1>4, <1>5, <1>6, <1>7 DEF OwnerStep, DeleteItem, RestoreItem

LEMMA PurgeRows ==
  ASSUME TypeOK, JobInv, PurgeStep, NEW j \in Jobs
  PROVE  RowStep(j)
<1>1. PICK i \in Items :
        \/ CheckPurge(i) \/ ConfirmPurge(i) \/ ConfirmPurgeFails(i)
        \/ FreezeItemWork(i) \/ PurgeItem(i)
  BY DEF PurgeStep
<1>2. /\ jobs[j] \in JobRow /\ items \in [Items -> ItemRecord]
      /\ "failed" \in Statuses \ {"processing"} /\ 0 \in -Skew .. BackoffTicks
  BY NumbersAssumption DEF TypeOK, Statuses
<1>3. CASE CheckPurge(i) \/ ConfirmPurge(i) \/ ConfirmPurgeFails(i)
  <2>1. PICK p \in {"none", "checked", "queued"} :
          /\ items' = [items EXCEPT ![i].purge = p]
          /\ jobs' = jobs /\ results' = results
    BY <1>3 DEF CheckPurge, ConfirmPurge, ConfirmPurgeFails
  <2>2. Active(j) => ItemStays(j)
    BY <1>2, <2>1, ActiveHasItem DEF ItemStays, ItemRecord
  <2> QED BY <2>1, <2>2 DEF RowStep, RowKept, SameWork, SameResult
<1>4. CASE FreezeItemWork(i)
  <2>1. results' = results /\ \A k \in Items : k # i => items'[k] = items[k]
    BY <1>2, <1>4 DEF FreezeItemWork
  <2>2. CASE Active(j) /\ jobs[j].item = i
    <3>1. jobs'[j] = Unleased(jobs[j], "failed", 0) /\ jobs[j].attempts \in Nat
      BY <1>2, <1>4, <2>2, RowFields DEF FreezeItemWork
    <3> QED BY <1>2, <2>1, <2>2, <3>1, UnleasedRow DEF RowStep, RowEnded, SameWork, SameResult
  <2>3. CASE ~(Active(j) /\ jobs[j].item = i)
    BY <1>4, <2>1, <2>3, ActiveHasItem, KeptRow DEF FreezeItemWork
  <2> QED BY <2>2, <2>3
<1>5. CASE PurgeItem(i)
  <2>1. \A k \in Items : k # i => items'[k] = items[k]
    BY <1>2, <1>5 DEF PurgeItem
  <2> QED BY <1>5, <2>1, DeletedRow DEF PurgeItem
<1> QED BY <1>1, <1>3, <1>4, <1>5

LEMMA TickRows ==
  ASSUME TypeOK, JobInv, Tick, NEW j \in Jobs
  PROVE  RowStep(j)
<1>1. jobs[j] \in JobRecord /\ items' = items /\ results' = results
  BY RowFields DEF TypeOK, Tick
<1>2. \/ jobs'[j] = jobs[j]
      \/ jobs'[j] = [jobs[j] EXCEPT !.wait = Countdown(@)]
      \/ jobs'[j] = [jobs[j] EXCEPT !.lease = Countdown(@)]
  BY DEF Tick
<1> QED BY <1>1, <1>2 DEF RowStep, RowKept, SameWork, SameResult, ItemStays, JobRecord

LEMMA RowSteps ==
  ASSUME TypeOK, JobInv, [Next]_vars
  PROVE  \A j \in Jobs : RowStep(j)
<1>1. CASE UNCHANGED vars
  BY <1>1, KeptRow DEF vars
<1> QED BY <1>1, WorkerRows, SubmitRows, InsertRows, OwnerRows, PurgeRows, TickRows DEF Next

-----------------------------------------------------------------------------
(* The inductive invariant.                                                *)

LEMMA InitInv == ASSUME Init PROVE JobInv /\ AcceptedIsStored
<1>1. \A j \in Jobs : /\ jobs[j].status = "absent" /\ jobs[j].item = None
                      /\ jobs[j].attempts = 0 /\ jobs[j].retries = 0
                      /\ results[j] = None
  BY DEF Init, AbsentJob
<1>2. \A c \in Calls : calls[c].phase = "idle"
  BY DEF Init, IdleCall, Call
<1>3. JobsArePlaced
  BY <1>1 DEF JobsArePlaced
<1>4. ActiveIsCurrentGeneration /\ HeldJobIsCurrent
  BY <1>1 DEF ActiveIsCurrentGeneration, HeldJobIsCurrent, Active
<1>5. FrozenItemIsIdle /\ ResultOnlyOfComplete
  BY <1>1 DEF FrozenItemIsIdle, ResultOnlyOfComplete
<1>6. AttemptsLeft
  BY <1>1, NumbersAssumption DEF AttemptsLeft
<1>7. AcceptedIsStored
  BY <1>2 DEF AcceptedIsStored
<1> QED BY <1>3, <1>4, <1>5, <1>6, <1>7 DEF JobInv

LEMMA JobInvStep ==
  ASSUME TypeOK, TypeOK', JobInv, \A j \in Jobs : RowStep(j)
  PROVE  JobInv'
<1> USE DEF SameWork, SameResult
<1>1. \A j \in Jobs : /\ jobs[j] \in JobRow /\ jobs[j].item \in Items \cup {None}
                      /\ jobs[j].attempts \in Nat /\ jobs[j].retries \in Nat
                      /\ jobs'[j].attempts \in Nat /\ jobs'[j].retries \in Nat
                      /\ jobs[j].status \in Statuses
  BY RowFields DEF TypeOK
<1>2. /\ DeletedJob.item = None /\ DeletedJob.status = "deleted"
      /\ DeletedJob.attempts = 0 /\ DeletedJob.retries = 0
  BY DEF DeletedJob, AbsentJob
<1>3. JobsArePlaced'
  <2> SUFFICES ASSUME NEW j \in Jobs
      PROVE  jobs'[j].item = None <=> jobs'[j].status \in {"absent", "deleted"}
    BY DEF JobsArePlaced
  <2> QED BY <1>1, <1>2, SetsAssumption
      DEF JobInv, JobsArePlaced, RowStep, RowKept, RowInserted, RowTaken, RowGivenBack,
          RowEnded, RowRevived, RowDeleted, Active
<1>4. ActiveIsCurrentGeneration'
  <2> SUFFICES ASSUME NEW j \in Jobs, Active(j)'
      PROVE  jobs'[j].generation = items'[jobs'[j].item].generation
    BY DEF ActiveIsCurrentGeneration
  <2> QED BY <1>1, <1>2
      DEF JobInv, ActiveIsCurrentGeneration, RowStep, RowKept, RowInserted, RowTaken,
          RowGivenBack, RowEnded, RowRevived, RowDeleted, Active, ItemStays
<1>5. HeldJobIsCurrent'
  <2> SUFFICES ASSUME NEW j \in Jobs, jobs'[j].status = "processing"
      PROVE  /\ jobs'[j].item \in Items
             /\ items'[jobs'[j].item].purge # "gone" /\ ~items'[jobs'[j].item].deleted
             /\ items'[jobs'[j].item].generation = jobs'[j].generation
             /\ items'[jobs'[j].item].privacy = jobs'[j].privacy
    BY DEF HeldJobIsCurrent, Exists
  <2>1. RowKept(j) \/ RowTaken(j)
    BY <1>2 DEF RowStep, RowInserted, RowGivenBack, RowEnded, RowRevived, RowDeleted
  <2>2. CASE RowKept(j)
    BY <2>2 DEF JobInv, HeldJobIsCurrent, RowKept, Active, ItemStays, Exists
  <2>3. CASE RowTaken(j)
    BY <2>3 DEF RowTaken, Current, SameEpoch, Exists
  <2> QED BY <2>1, <2>2, <2>3
<1>6. FrozenItemIsIdle'
  <2> SUFFICES ASSUME NEW j \in Jobs, NEW i \in Items, jobs'[j].item = i,
                      items'[i].purge = "frozen", jobs'[j].status = "processing"
      PROVE  FALSE
    BY DEF FrozenItemIsIdle
  <2>1. RowKept(j) \/ RowTaken(j)
    BY <1>2 DEF RowStep, RowInserted, RowGivenBack, RowEnded, RowRevived, RowDeleted
  <2>2. CASE RowKept(j)
    BY <2>2 DEF JobInv, FrozenItemIsIdle, RowKept, Active, ItemStays
  <2>3. CASE RowTaken(j)
    BY <2>3 DEF RowTaken, Current, PurgeLive
  <2> QED BY <2>1, <2>2, <2>3
<1>7. AttemptsLeft'
  <2> SUFFICES ASSUME NEW j \in Jobs
      PROVE  /\ jobs'[j].attempts <= MaxAttempts + jobs'[j].retries
             /\ Active(j)' => jobs'[j].attempts < MaxAttempts + jobs'[j].retries
             /\ jobs'[j].retries <= MaxManualRetries
    BY DEF AttemptsLeft
  <2>1. /\ jobs[j].attempts <= MaxAttempts + jobs[j].retries
        /\ Active(j) => jobs[j].attempts < MaxAttempts + jobs[j].retries
        /\ jobs[j].retries <= MaxManualRetries
    BY DEF JobInv, AttemptsLeft
  <2> QED BY <1>1, <1>2, <2>1, NumbersAssumption
      DEF RowStep, RowKept, RowInserted, RowTaken, RowGivenBack, RowEnded, RowRevived,
          RowDeleted, Active
<1>8. ResultOnlyOfComplete'
  <2> SUFFICES ASSUME NEW j \in Jobs, results'[j] # None
      PROVE  jobs'[j].status = "complete"
    BY DEF ResultOnlyOfComplete
  <2> QED BY <1>1, <1>2
      DEF JobInv, ResultOnlyOfComplete, RowStep, RowKept, RowInserted, RowTaken,
          RowGivenBack, RowEnded, RowRevived, RowDeleted, Active
<1> QED BY <1>3, <1>4, <1>5, <1>6, <1>7, <1>8 DEF JobInv

\* A stored result stays until its job is deleted, a deleted job stays deleted.
LEMMA StoredStays ==
  ASSUME TypeOK, JobInv, NEW j \in Jobs, RowStep(j), NEW s \in Submissions
  PROVE  /\ results[j] = s => results'[j] = s \/ jobs'[j].status = "deleted"
         /\ jobs[j].status = "deleted" => jobs'[j].status = "deleted"
<1>1. DeletedJob.status = "deleted"
  BY DEF DeletedJob, AbsentJob
<1>2. results[j] = s => jobs[j].status = "complete"
  BY SetsAssumption DEF JobInv, ResultOnlyOfComplete
<1> QED BY <1>1, <1>2
    DEF RowStep, RowKept, RowInserted, RowTaken, RowGivenBack, RowEnded, RowRevived,
        RowDeleted, Active, SameResult

\* Only submissions and ticks move the calls, only submissions and purges the
\* results.
LEMMA WorkerKeeps ==
  ASSUME WorkerStep
  PROVE  UNCHANGED <<results, calls>>
<1>1. PICK j \in Jobs, o \in Owners, age \in Ages :
        \/ LeaseProcessingJob(j, o, age) \/ HeartbeatProcessingJob(j, o, age)
        \/ CompleteProcessingJob(j, o, age) \/ ReleaseProcessingJob(j, o, age)
        \/ DeferProcessingJob(j, o, age) \/ FailProcessingJob(j, o, age)
        \/ SubmitExtractionResults(j, o, age) \/ PersistOutcome(j, o, age)
  BY DEF WorkerStep
<1> QED BY <1>1, EndingForms
    DEF LeaseProcessingJob, HeartbeatProcessingJob, CompleteProcessingJob,
        ReleaseProcessingJob, DeferProcessingJob, FailProcessingJob

LEMMA InsertKeeps ==
  ASSUME InsertStep
  PROVE  UNCHANGED <<results, calls>>
BY DEF InsertStep, EnqueueProcessingJob, ScheduleProcessing, ScheduleProcessingFails,
       RetrySource

LEMMA OwnerKeeps ==
  ASSUME OwnerStep
  PROVE  UNCHANGED <<results, calls>>
BY DEF OwnerStep, ManuallyRetryProcessingJob, SupplyText, ReplaceUrl, ReplaceUrlLoses,
       DeleteItem, RestoreItem, SetDeleted, ChangePrivacy, ChangePrivacyLoses

LEMMA PurgeKeeps ==
  ASSUME PurgeStep
  PROVE  calls' = calls /\ (results' = results \/ \E i \in Items : PurgeItem(i))
BY DEF PurgeStep, CheckPurge, ConfirmPurge, ConfirmPurgeFails, FreezeItemWork, PurgeItem

\* An acceptance is given for a payload that is stored when it is given.
LEMMA CallSteps ==
  ASSUME TypeOK, [Next]_vars, NEW c \in Calls,
         calls'[c].phase = "answered", calls'[c].reply = "accepted"
  PROVE  \/ calls'[c] = calls[c]
         \/ results'[calls'[c].job] = calls'[c].submission
<1>1. calls \in [Calls -> CallRow] /\ calls[c] \in CallRow
  BY DEF TypeOK
<1>2. CASE SubmitStep
  <2>1. PICK d \in Calls :
          \/ \E j \in Jobs, o \in Owners, s \in Submissions : SubmitCheck(d, j, o, s)
          \/ SubmitStore(d) \/ SubmitNothing(d) \/ SubmitReread(d) \/ Return(d)
    BY <1>2 DEF SubmitStep
  <2>2. CASE d # c
    BY <1>1, <2>1, <2>2 DEF SubmitCheck, SubmitStore, SubmitNothing, SubmitReread, Return
  <2>3. CASE d = c
    <3>1. CASE \E j \in Jobs, o \in Owners, s \in Submissions : SubmitCheck(d, j, o, s)
      BY <1>1, <2>3, <3>1 DEF SubmitCheck, Call
    <3>2. CASE SubmitStore(d)
      <4>1. calls[c].job \in Jobs
        BY <1>1, <2>3, <3>2, CallFields DEF SubmitStore
      <4> QED BY <1>1, <2>3, <3>2, <4>1 DEF SubmitStore, Answered, Unsure, Call, TypeOK
    <3>3. CASE SubmitNothing(d)
      BY <1>1, <2>3, <3>3 DEF SubmitNothing, Answered, Unsure, Call
    <3>4. CASE SubmitReread(d)
      BY <1>1, <2>3, <3>4 DEF SubmitReread, Answered, Call
    <3>5. CASE Return(d)
      BY <1>1, <2>3, <3>5 DEF Return, IdleCall, Call
    <3> QED BY <2>1, <3>1, <3>2, <3>3, <3>4, <3>5
  <2> QED BY <2>2, <2>3
<1>3. CASE Tick
  <2>1. CASE calls[c].phase # "checked"
    BY <1>3, <2>1 DEF Tick
  <2>2. CASE calls[c].phase = "checked"
    BY <1>1, <1>3, <2>2 DEF Tick, IdleCall, Call, CallRow, CallRecord
  <2> QED BY <2>1, <2>2
<1>4. CASE WorkerStep \/ InsertStep \/ OwnerStep \/ PurgeStep \/ UNCHANGED vars
  BY <1>4, WorkerKeeps, InsertKeeps, OwnerKeeps, PurgeKeeps DEF vars
<1> QED BY <1>2, <1>3, <1>4 DEF Next

THEOREM Invariance == Spec => []IInv
<1>1. Init => IInv
  BY InitType, InitInv DEF IInv
<1>2. IInv /\ [Next]_vars => IInv'
  <2> SUFFICES ASSUME TypeOK, JobInv, AcceptedIsStored, [Next]_vars PROVE IInv'
    BY DEF IInv
  <2>1. TypeOK'
    <3>1. CASE UNCHANGED vars
      BY <3>1 DEF vars, TypeOK
    <3> QED BY <3>1, WorkerType, SubmitType, InsertType, OwnerType, PurgeType, TickType
        DEF Next
  <2>2. \A j \in Jobs : RowStep(j)
    BY RowSteps
  <2>3. JobInv'
    BY <2>1, <2>2, JobInvStep
  <2>4. AcceptedIsStored'
    <3> SUFFICES ASSUME NEW c \in Calls, calls'[c].phase = "answered",
                        calls'[c].reply = "accepted"
        PROVE  \/ results'[calls'[c].job] = calls'[c].submission
               \/ jobs'[calls'[c].job].status = "deleted"
      BY DEF AcceptedIsStored
    <3>1. CASE calls'[c] = calls[c]
      <4>1. calls[c].job \in Jobs /\ calls[c].submission \in Submissions
        BY <3>1, CallFields DEF TypeOK
      <4> QED BY <2>2, <3>1, <4>1, StoredStays DEF AcceptedIsStored
    <3> QED BY <3>1, CallSteps
  <2> QED BY <2>1, <2>3, <2>4 DEF IInv
<1> QED BY <1>1, <1>2, PTL DEF Spec

-----------------------------------------------------------------------------
(* What the invariant says of the properties the runs check.               *)

\* currentJobGuard: a worker only ever holds work that is still wanted, for any
\* number of items, jobs, workers and owner edits.
THEOREM HeldIsCurrent == Spec => []HeldJobIsCurrent
<1>1. IInv => HeldJobIsCurrent
  BY DEF IInv, JobInv
<1> QED BY <1>1, Invariance, PTL

\* The freeze step of a purge is final for the workers.
THEOREM FrozenIsIdle == Spec => []FrozenItemIsIdle
<1>1. IInv => FrozenItemIsIdle
  BY DEF IInv, JobInv
<1> QED BY <1>1, Invariance, PTL

\* No writer of processing_jobs takes a job that has a result out of 'complete'.
THEOREM ResultIsFinal == Spec => []ResultOnlyOfComplete
<1>1. IInv => ResultOnlyOfComplete
  BY DEF IInv, JobInv
<1> QED BY <1>1, Invariance, PTL

\* submitProcessingResult acknowledges only what it stored, whatever other calls,
\* lost answers and owner edits came between its statements.
THEOREM AcceptedStored == Spec => []AcceptedIsStored
<1>1. IInv => AcceptedIsStored
  BY DEF IInv
<1> QED BY <1>1, Invariance, PTL

\* failJob and the manual retries together work on a job a bounded number of times.
THEOREM AttemptsAreBounded == Spec => []AttemptsBounded
<1>1. IInv => AttemptsBounded
  BY DEF IInv, JobInv, AttemptsLeft, AttemptsBounded
<1> QED BY <1>1, Invariance, PTL

\* submitProcessingResult stores a result only while the caller's lease is live.
THEOREM HolderDelivers == Spec => OnlyHolderDelivers
<1> DEFINE Delivery(j) ==
      results'[j] # results[j] /\ results'[j] # None =>
        \E c \in Calls :
          /\ calls[c].job = j /\ calls[c].submission = results'[j]
          /\ calls[c].owner = jobs[j].owner /\ jobs[j].status = "processing"
<1>1. ASSUME TypeOK, [Next]_vars, NEW j \in Jobs
      PROVE  Delivery(j)
  <2>1. CASE results' = results
    BY <2>1
  <2>2. CASE \E c \in Calls : SubmitStore(c)
    <3>1. PICK c \in Calls : SubmitStore(c)
      BY <2>2
    <3>2. results \in [Jobs -> Submissions \cup {None}]
      BY <1>1 DEF TypeOK
    <3>3. CASE calls[c].job = j
      <4>1. results'[j] = calls[c].submission
        BY <3>1, <3>2, <3>3 DEF SubmitStore
      <4>2. jobs[j].status = "processing" /\ jobs[j].owner = calls[c].owner
        BY <3>1, <3>3 DEF SubmitStore, GuardHolds, Holds
      <4> QED BY <3>3, <4>1, <4>2
    <3>4. CASE calls[c].job # j
      <4>1. results'[j] = results[j]
        BY <3>1, <3>2, <3>4 DEF SubmitStore
      <4> QED BY <4>1
    <3> QED BY <3>3, <3>4
  <2>3. CASE \E i \in Items : PurgeItem(i)
    BY <2>3 DEF PurgeItem
  <2>4. CASE SubmitStep
    BY <2>1, <2>2, <2>4 DEF SubmitStep, SubmitCheck, SubmitNothing, SubmitReread, Return
  <2> HIDE DEF Delivery
  <2> QED BY <1>1, <2>1, <2>3, <2>4, WorkerKeeps, InsertKeeps, OwnerKeeps, PurgeKeeps
      DEF Next, vars, Tick
<1>2. TypeOK /\ [Next]_vars => [\A j \in Jobs : Delivery(j)]_vars
  BY <1>1
<1> QED BY <1>2, TypeCorrect, PTL DEF Spec, OnlyHolderDelivers

-----------------------------------------------------------------------------
(* The queue implements LeasedWork.                                        *)

\* The abstract variables, row by row.
LEMMA Abstraction ==
  ASSUME NEW j \in Jobs
  PROVE  /\ [k \in Jobs |-> Phase(k)][j] = Phase(j)
         /\ [k \in Jobs |-> jobs[k].owner][j] = jobs[j].owner
         /\ [k \in Jobs |-> Lapsed(k)][j] = Lapsed(j)
         /\ [k \in Jobs |-> Phase(k)]'[j] = Phase(j)'
         /\ [k \in Jobs |-> jobs[k].owner]'[j] = jobs'[j].owner
         /\ [k \in Jobs |-> Lapsed(k)]'[j] = Lapsed(j)'
OBVIOUS

LEMMA Phases ==
  ASSUME NEW j \in Jobs
  PROVE  /\ jobs[j].status = "absent" => Phase(j) = "absent"
         /\ jobs[j].status = "pending" => Phase(j) = "ready"
         /\ jobs[j].status = "processing" => Phase(j) = "held"
         /\ jobs[j].status = "complete" => Phase(j) = "done"
         /\ jobs[j].status = "failed" => Phase(j) = "stopped"
         /\ jobs[j].status = "deleted" => Phase(j) = "erased"
BY DEF Phase

LEMMA PhasesNext ==
  ASSUME NEW j \in Jobs
  PROVE  /\ jobs'[j].status = "absent" => Phase(j)' = "absent"
         /\ jobs'[j].status = "pending" => Phase(j)' = "ready"
         /\ jobs'[j].status = "processing" => Phase(j)' = "held"
         /\ jobs'[j].status = "complete" => Phase(j)' = "done"
         /\ jobs'[j].status = "failed" => Phase(j)' = "stopped"
         /\ jobs'[j].status = "deleted" => Phase(j)' = "erased"
BY DEF Phase

LEMMA RowIsWorkStep ==
  ASSUME TypeOK, TypeOK', JobInv, NEW j \in Jobs, RowStep(j)
  PROVE  Promise!WorkStep(j)
<1> USE Abstraction, Phases, PhasesNext
    DEF Promise!WorkStep, Promise!Becomes, Promise!Unheld, SameResult, SameWork
<1>1. /\ jobs[j] \in JobRow /\ jobs'[j] \in JobRow
      /\ jobs[j].status \in Statuses
      /\ jobs[j].status # "processing" => jobs[j].owner = None
      /\ jobs'[j].lease \in Int
  BY RowFields DEF TypeOK
<1>2. CASE RowKept(j)
  <2>1. CASE jobs[j].status = "processing"
    BY <1>2, <2>1 DEF RowKept, Promise!Kept, Lapsed
  <2>2. CASE jobs[j].status # "processing"
    <3>1. Phase(j)' = Phase(j)
      BY <1>1, <1>2 DEF RowKept, Statuses
    <3> QED BY <1>2, <2>2, <3>1 DEF RowKept, Promise!Untouched, Lapsed
  <2> QED BY <2>1, <2>2
<1>3. CASE RowInserted(j)
  BY <1>3 DEF RowInserted, Promise!Offered, Lapsed
<1>4. CASE RowTaken(j)
  <2>1. Lapsed(j)' = FALSE
    BY <1>1, <1>4 DEF RowTaken, Lapsed
  <2>2. Phase(j) = "ready" \/ (Phase(j) = "held" /\ Lapsed(j))
    BY <1>4 DEF RowTaken, Lapsed
  <2>3. Phase(j)' = "held" /\ jobs'[j].owner \in Owners /\ results'[j] = results[j]
    BY <1>4 DEF RowTaken
  <2> QED BY <2>1, <2>2, <2>3 DEF Promise!Taken
<1>5. CASE RowGivenBack(j)
  BY <1>5 DEF RowGivenBack, Promise!GivenBack, Lapsed
<1>6. CASE RowEnded(j)
  <2>1. results[j] = None
    BY <1>6 DEF JobInv, ResultOnlyOfComplete, RowEnded, Active
  <2>2. CASE jobs'[j].status = "failed"
    BY <1>6, <2>2 DEF RowEnded, Active, Promise!Stopped, Lapsed
  <2>3. CASE jobs'[j].status = "complete"
    BY <1>6, <2>1, <2>3 DEF RowEnded, Promise!Finished, Promise!Delivered, Lapsed
  <2> QED BY <1>6, <2>2, <2>3 DEF RowEnded
<1>7. CASE RowRevived(j)
  BY <1>7 DEF RowRevived, Promise!Revived, Lapsed
<1>8. CASE RowDeleted(j)
  <2>1. jobs'[j].status = "deleted" /\ jobs'[j].owner = None
    BY <1>8 DEF RowDeleted, DeletedJob, AbsentJob
  <2>2. Phase(j) # "absent"
    BY <1>1, <1>8 DEF RowDeleted, Statuses
  <2> QED BY <1>8, <2>1, <2>2 DEF RowDeleted, Promise!Erased, Lapsed
<1> QED BY <1>2, <1>3, <1>4, <1>5, <1>6, <1>7, <1>8 DEF RowStep

\* LeasedWork: work is held by one worker at a time, taken from it only after its
\* lease lapsed, and its output is delivered once, by a holder, and never changes.
THEOREM Refinement == Spec => KeepsPromise
<1>1. Init => Promise!Init
  <2> SUFFICES ASSUME Init PROVE Promise!Init
    OBVIOUS
  <2>1. \A j \in Jobs : jobs[j].status = "absent" /\ jobs[j].owner = None
    BY DEF Init, AbsentJob
  <2>2. \A j \in Jobs : Phase(j) = "absent" /\ Lapsed(j) = FALSE
    BY <2>1, Phases DEF Lapsed
  <2> QED BY <2>1, <2>2 DEF Init, Promise!Init
<1>2. IInv /\ IInv' /\ [Next]_vars => [Promise!Next]_(Promise!workVars)
  <2> SUFFICES ASSUME TypeOK, TypeOK', JobInv, [Next]_vars PROVE Promise!Next
    BY DEF IInv
  <2> QED BY RowSteps, RowIsWorkStep DEF Promise!Next
<1> QED BY <1>1, <1>2, Invariance, PTL DEF Spec, KeepsPromise, Promise!Spec
====
