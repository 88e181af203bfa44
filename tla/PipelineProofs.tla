----------------------------- MODULE PipelineProofs -----------------------------
(***************************************************************************)
(* Theorems about Pipeline.  The status follows the jobs, as every statement*)
(* that touches them runs the triggers; what is left to prove is which stage*)
(* is to chain the enrichment at each moment, hand-over by hand-over.      *)
(***************************************************************************)
EXTENDS Pipeline, TLAPS

\* Only an enrichment has steps between its lease and its end.
StepsOfEnrichment ==
  \A c \in Calls : calls[c].at \in {"rows", "ask", "write"} => calls[c].stage \in Enrichments

\* A job or a record is there for what the item was captured with; a record of
\* this generation with text comes with the job that wrote it.
StagesExist ==
  /\ jobs["acquire_url"].status # "none" => kind.url
  /\ jobs["extract"].status # "none" => kind.file
  /\ extraction # "none" => kind.file
  /\ jobs["extract"].status = "complete" => extraction \in {"text", "bad"}
  /\ extraction = "text" => jobs["extract"].status \in {"none", "complete"}

\* The triggers have seen the last statement; without jobs nothing is complete
\* under a provider.
StatusIsShown ==
  ~item.deleted =>
    /\ HasCurrentJobs(jobs) => item.status = Snapshot(item, jobs, extraction)
    /\ ~HasCurrentJobs(jobs) /\ item.status = "complete" => ~item.routed

Waiting(s) == jobs[s].status \in Active \cup {"failed"}

\* An older enrichment was once the latest.
OlderIsOlder == jobs["older"].status # "none" => jobs["enrich"].status # "none"

\* Where an enrichment is still missing, the other stage is to chain it.
EnrichmentIsChained ==
  item.routed /\ jobs["enrich"].status = "none" =>
    /\ jobs["acquire_url"].status = "complete" /\ (Leftover(item, evidence) # {} \/ extraction = "text") =>
         Waiting("extract") \/ extraction = "bad"
    /\ jobs["extract"].status = "complete" /\ extraction = "text" => Waiting("acquire_url")

\* What no enrichment has read yet is there to be read.
UnreadIsThere ==
  unread \subseteq Leftover(item, evidence) \cup (IF extraction = "text" THEN {"file"} ELSE {})

\* After an enrichment, what came since is left to the other stage.
UnreadIsChained ==
  item.routed /\ jobs["enrich"].status = "complete" /\ unread # {} =>
    missed \/ Waiting("acquire_url") \/ Waiting("extract") \/ extraction = "bad"

\* The call that holds an enrichment has read all there is, or some of it came
\* while it was at work.
ReadIsUnread ==
  \A c \in Calls :
    calls[c].stage \in Enrichments /\ jobs[calls[c].stage].owner = c /\ ~missed =>
      /\ calls[c].at = "rows" => unread \subseteq calls[c].read \cup {"file"}
      /\ calls[c].at \in {"ask", "write"} => unread \subseteq calls[c].read

\* The inductive invariant.
IInv ==
  /\ OverrideKept /\ StepsOfEnrichment
  /\ StagesExist /\ StatusIsShown /\ OlderIsOlder /\ EnrichmentIsChained
  /\ UnreadIsThere /\ UnreadIsChained /\ ReadIsUnread

-----------------------------------------------------------------------------
(* Rows.                                                                   *)

LEMMA EachRow ==
  /\ Stages = {"acquire_url", "extract", "enrich"}
  /\ Rows = {"acquire_url", "extract", "enrich", "older"} /\ Enrichments = {"enrich", "older"}
BY DEF Rows, Stages, Enrichments

ItemStatus == {"pending", "processing", "complete", "failed"}

\* What an item's row is about besides its status and its version.
SameItem(i, k) ==
  /\ i.deleted = k.deleted /\ i.level = k.level /\ i.text = k.text /\ i.routed = k.routed
  /\ i.summary = k.summary /\ i.overridden = k.overridden /\ i.replaced = k.replaced

LEMMA JobRow ==
  ASSUME NEW status \in {"none", "pending", "complete", "failed"}
  PROVE  /\ Job(status) \in JobRecord
         /\ Job(status).status = status /\ Job(status).owner = None /\ ~Job(status).lapsed
BY DEF Job, JobRecord, Active

LEMMA LeasedRow ==
  ASSUME NEW c \in Calls
  PROVE  LET row == [status |-> "processing", owner |-> c, lapsed |-> FALSE]
         IN row \in JobRecord /\ row.status = "processing" /\ row.owner = c
BY DEF JobRecord, Active

LEMMA StatusRow ==
  ASSUME NEW i \in ItemRecord, NEW status \in ItemStatus
  PROVE  LET next == [i EXCEPT !.status = status]
         IN next \in ItemRecord /\ next.status = status /\ SameItem(next, i) /\ next.edits = i.edits
BY DEF ItemRecord, ItemStatus, SameItem

LEMMA EditedRow ==
  ASSUME NEW i \in ItemRecord, i.edits < MaxEdits
  PROVE  Edited(i) \in ItemRecord /\ SameItem(Edited(i), i) /\ Edited(i).status = i.status
<1> DEFINE edits == i.edits + 1
           next == [i EXCEPT !.edits = edits]
<1>1. edits \in 0 .. MaxEdits
  BY PipelineAssumption DEF ItemRecord
<1>2. next = Edited(i)
  BY DEF Edited
<1> HIDE DEF edits
<1>3. next \in ItemRecord /\ SameItem(next, i) /\ next.status = i.status
  BY <1>1 DEF ItemRecord, SameItem
<1> QED BY <1>2, <1>3

LEMMA StoredRow ==
  ASSUME NEW i \in ItemRecord, NEW j, NEW x, Store(i, j, x)
  PROVE  /\ item' \in ItemRecord /\ SameItem(item', i) /\ item'.edits = i.edits
         /\ item'.status = Materialised(i, j, x)
         /\ jobs' = j /\ extraction' = x
<1>1. Materialised(i, j, x) \in ItemStatus
  BY DEF Materialised, Snapshot, ItemStatus, ItemRecord
<1>2. item' = [i EXCEPT !.status = Materialised(i, j, x)] /\ jobs' = j /\ extraction' = x
  BY DEF Store
<1> QED BY <1>1, <1>2, StatusRow

\* The status is derived from what does not change with it.
LEMMA SameSnapshot ==
  ASSUME NEW i, NEW k, SameItem(i, k), NEW j, NEW x
  PROVE  Snapshot(i, j, x) = Snapshot(k, j, x)
BY DEF SameItem, Snapshot, CurrentStages, Incomplete, Usable

\* A statement shows its own status.
LEMMA StoredIsShown ==
  ASSUME NEW i \in ItemRecord, NEW j, NEW x, Store(i, j, x), kind' = kind,
         ~i.deleted /\ ~HasCurrentJobs(j) /\ i.status = "complete" => ~i.routed
  PROVE  StatusIsShown'
<1>1. /\ SameItem(item', i) /\ item'.status = Materialised(i, j, x)
      /\ jobs' = j /\ extraction' = x
  BY StoredRow
<1>2. Snapshot(item', j, x) = Snapshot(i, j, x)
  BY <1>1, SameSnapshot
<1>3. Snapshot(item, jobs, extraction)' = Snapshot(item', j, x)
  BY <1>1 DEF Snapshot, CurrentStages, Incomplete, Usable
<1>4. HasCurrentJobs(jobs)' <=> HasCurrentJobs(j)
  BY <1>1 DEF HasCurrentJobs
<1> QED BY <1>1, <1>2, <1>3, <1>4 DEF StatusIsShown, Materialised, SameItem

-----------------------------------------------------------------------------
(* New generations.                                                        *)

\* What a step that takes all jobs leaves.
LEMMA ResetInv ==
  ASSUME IInv, kind' = kind, calls' = calls, item' \in ItemRecord,
         NEW inserted \in SUBSET {"acquire_url", "enrich"}, "acquire_url" \in inserted => kind.url,
         jobs' = [s \in Rows |-> IF s \in inserted THEN Job("pending") ELSE Job("none")],
         extraction' \in {"none", "text", "bad", "old"}, extraction' # "none" => extraction # "none",
         evidence' \in Acquisition, unread' \subseteq Evidence, missed' \in BOOLEAN,
         item'.overridden => item'.summary = "owner" \/ item'.replaced,
         StatusIsShown', UnreadIsThere'
  PROVE  IInv'
<1>1. TypeOK /\ StagesExist /\ StepsOfEnrichment
  BY DEF IInv, OverrideKept
<1>2. /\ jobs' \in [Rows -> JobRecord]
      /\ \A s \in Rows : jobs'[s].status \in {"none", "pending"} /\ jobs'[s].owner = None
      /\ jobs'["extract"].status = "none" /\ jobs'["older"].status = "none"
      /\ jobs'["acquire_url"].status # "none" => kind.url
  BY JobRow, EachRow
<1>3. TypeOK'
  BY <1>1, <1>2 DEF TypeOK
<1>4. OverrideKept' /\ StepsOfEnrichment'
  BY <1>1, <1>3 DEF OverrideKept, StepsOfEnrichment
<1>5. StagesExist' /\ OlderIsOlder'
  BY <1>1, <1>2 DEF StagesExist, OlderIsOlder
<1>6. EnrichmentIsChained' /\ UnreadIsChained' /\ ReadIsUnread'
  BY <1>2, EachRow, PipelineAssumption DEF EnrichmentIsChained, UnreadIsChained, ReadIsUnread
<1> QED BY <1>4, <1>5, <1>6 DEF IInv

LEMMA GenerationRow ==
  ASSUME NEW i \in ItemRecord
  PROVE  LET next == [i EXCEPT !.status = IF i.deleted THEN @ ELSE "pending"]
         IN next \in ItemRecord /\ SameItem(next, i) /\ (~i.deleted => next.status = "pending")
BY DEF ItemRecord, SameItem

LEMMA GenerationInv ==
  ASSUME IInv, kind' = kind, calls' = calls, NEW i \in ItemRecord,
         NEW inserted \in SUBSET {"acquire_url", "enrich"}, "acquire_url" \in inserted => kind.url,
         evidence' \in Acquisition, BeginsGeneration(i, inserted, evidence'),
         i.overridden => i.summary = "owner" \/ i.replaced
  PROVE  IInv'
<1> DEFINE next == [i EXCEPT !.status = IF i.deleted THEN @ ELSE "pending"]
           j == [s \in Rows |-> IF s \in inserted THEN Job("pending") ELSE Job("none")]
           x == IF extraction \in {"text", "old"} THEN "old" ELSE "none"
<1>1. next \in ItemRecord /\ SameItem(next, i) /\ (~i.deleted => next.status = "pending")
  BY GenerationRow, Zenon
<1>2. Store(next, j, x) /\ unread' = Leftover(i, evidence') /\ missed' = FALSE
  BY DEF BeginsGeneration
<1> HIDE DEF next, j
<1>3. item' \in ItemRecord /\ SameItem(item', next) /\ jobs' = j /\ extraction' = x
  BY <1>1, <1>2, StoredRow
<1>4. StatusIsShown'
  BY <1>1, <1>2, StoredIsShown DEF SameItem
<1>5. unread' \subseteq Evidence /\ UnreadIsThere'
  BY <1>1, <1>2, <1>3 DEF UnreadIsThere, Leftover, SameItem, Evidence
<1>6. item'.overridden => item'.summary = "owner" \/ item'.replaced
  BY <1>1, <1>3 DEF SameItem
<1> QED BY <1>2, <1>3, <1>4, <1>5, <1>6, ResetInv DEF j

LEMMA FieldRows ==
  ASSUME NEW i \in ItemRecord
  PROVE  /\ \A deleted \in BOOLEAN :
              LET next == [i EXCEPT !.deleted = deleted]
              IN next \in ItemRecord /\ next.edits = i.edits /\ next.overridden = i.overridden
                 /\ next.summary = i.summary /\ next.replaced = i.replaced
         /\ LET next == [i EXCEPT !.text = TRUE]
            IN next \in ItemRecord /\ next.edits = i.edits /\ next.overridden = i.overridden
               /\ next.summary = i.summary /\ next.replaced = i.replaced
         /\ \A routed \in BOOLEAN :
              LET next == [i EXCEPT !.routed = routed]
              IN next \in ItemRecord /\ next.edits = i.edits /\ next.overridden = i.overridden
                 /\ next.summary = i.summary /\ next.replaced = i.replaced /\ next.deleted = i.deleted
                 /\ next.level = i.level /\ next.text = i.text /\ next.status = i.status
                 /\ next.routed = routed
BY DEF ItemRecord

LEMMA GenerationsInv ==
  ASSUME IInv, DeleteItem \/ RestoreItem \/ SupplyText \/ ReplaceUrl
  PROVE  IInv'
<1>0. /\ item \in ItemRecord /\ evidence \in Acquisition /\ item.deleted \in BOOLEAN
      /\ item.overridden => item.summary = "owner" \/ item.replaced
      /\ item.routed \in BOOLEAN
  BY DEF IInv, OverrideKept, TypeOK, ItemRecord
<1>1. ASSUME NEW deleted \in BOOLEAN, item.edits < MaxEdits,
             BeginsGeneration(Edited([item EXCEPT !.deleted = deleted]), {}, evidence),
             UNCHANGED <<kind, evidence, calls>>
      PROVE  IInv'
  <2> DEFINE one == [item EXCEPT !.deleted = deleted]
  <2>1. /\ one \in ItemRecord /\ one.edits = item.edits /\ one.overridden = item.overridden
        /\ one.summary = item.summary /\ one.replaced = item.replaced
    BY <1>0, FieldRows, Zenon
  <2>2. BeginsGeneration(Edited(one), {}, evidence')
    BY <1>1
  <2> HIDE DEF one
  <2>3. Edited(one) \in ItemRecord /\ SameItem(Edited(one), one)
    BY <1>1, <2>1, EditedRow
  <2> QED BY <1>0, <1>1, <2>1, <2>2, <2>3, GenerationInv DEF SameItem
<1>2. CASE DeleteItem
  BY <1>1, <1>2 DEF DeleteItem, MayEdit
<1>3. CASE RestoreItem
  BY <1>1, <1>3 DEF RestoreItem
<1>4. CASE SupplyText
  <2> DEFINE one == [item EXCEPT !.text = TRUE]
  <2>1. /\ one \in ItemRecord /\ one.edits = item.edits /\ one.overridden = item.overridden
        /\ one.summary = item.summary /\ one.replaced = item.replaced
    BY <1>0, FieldRows, Zenon
  <2>2. PICK inserted \in {{}, {"enrich"}} : BeginsGeneration(Edited(one), inserted, evidence)
    BY <1>4 DEF SupplyText
  <2> HIDE DEF one
  <2>3. item.edits < MaxEdits /\ UNCHANGED <<kind, evidence, calls>>
    BY <1>4 DEF SupplyText, MayEdit
  <2>4. Edited(one) \in ItemRecord /\ SameItem(Edited(one), one)
    BY <2>1, <2>3, EditedRow
  <2>5. BeginsGeneration(Edited(one), inserted, evidence')
    BY <2>2, <2>3
  <2> QED BY <1>0, <2>1, <2>3, <2>4, <2>5, GenerationInv DEF SameItem
<1>5. CASE ReplaceUrl
  <2> DEFINE routed == item.routed /\ item.level = "public"
             one == [item EXCEPT !.routed = routed]
  <2>0. routed \in BOOLEAN
    BY <1>0
  <2>1. /\ one \in ItemRecord /\ one.edits = item.edits /\ one.overridden = item.overridden
        /\ one.summary = item.summary /\ one.replaced = item.replaced
    BY <1>0, <2>0, FieldRows, Zenon
  <2>2. BeginsGeneration(Edited(one), {"acquire_url"}, "none")
    BY <1>5 DEF ReplaceUrl
  <2> HIDE DEF one
  <2>3. item.edits < MaxEdits /\ kind.url /\ UNCHANGED <<kind, calls>> /\ evidence' = "none"
    BY <1>5 DEF ReplaceUrl, MayEdit
  <2>4. Edited(one) \in ItemRecord /\ SameItem(Edited(one), one)
    BY <2>1, <2>3, EditedRow
  <2>5. BeginsGeneration(Edited(one), {"acquire_url"}, evidence') /\ evidence' \in Acquisition
    BY <2>2, <2>3 DEF Acquisition
  <2> QED BY <1>0, <2>1, <2>3, <2>4, <2>5, GenerationInv DEF SameItem
<1> QED BY <1>2, <1>3, <1>4, <1>5

\* What a privacy change makes of the item.
Changed(i, level, routed, reprocess) ==
  Edited([i EXCEPT !.level = level, !.routed = routed /\ reprocess,
                   !.summary = IF i.overridden THEN @ ELSE "none",
                   !.status = IF reprocess THEN "pending" ELSE "complete"])

LEMMA ChangedRow ==
  ASSUME NEW i \in ItemRecord, i.edits < MaxEdits, NEW level \in Levels,
         NEW routed \in BOOLEAN, NEW reprocess \in BOOLEAN,
         i.overridden => i.summary = "owner" \/ i.replaced
  PROVE  LET changed == Changed(i, level, routed, reprocess)
         IN /\ changed \in ItemRecord
            /\ changed.text = i.text /\ changed.level = level
            /\ changed.status = "complete" => ~changed.routed
            /\ changed.overridden => changed.summary = "owner" \/ changed.replaced
<1> DEFINE summary == IF i.overridden THEN i.summary ELSE "none"
           status == IF reprocess THEN "pending" ELSE "complete"
           both == routed /\ reprocess
           one == [i EXCEPT !.level = level]
           two == [one EXCEPT !.routed = both]
           three == [two EXCEPT !.summary = summary]
           next == [three EXCEPT !.status = status]
<1>1. /\ both \in BOOLEAN /\ summary \in {"none", "generated", "owner"} /\ status \in ItemStatus
      /\ i.overridden => summary = i.summary
      /\ status = "complete" => ~both
  BY DEF ItemRecord, ItemStatus
<1>2. Edited(next) = Changed(i, level, routed, reprocess)
  BY DEF both, summary, status, Changed
<1> HIDE DEF both, summary, status
<1>3. /\ one \in ItemRecord /\ one.level = level /\ one.text = i.text /\ one.edits = i.edits
      /\ one.overridden = i.overridden /\ one.replaced = i.replaced
  BY DEF ItemRecord
<1> HIDE DEF one
<1>4. /\ two \in ItemRecord /\ two.level = level /\ two.text = i.text /\ two.edits = i.edits
      /\ two.overridden = i.overridden /\ two.replaced = i.replaced /\ two.routed = both
  BY <1>1, <1>3, FieldRows, Zenon
<1> HIDE DEF two
<1>5. /\ three \in ItemRecord /\ three.level = level /\ three.text = i.text /\ three.edits = i.edits
      /\ three.overridden = i.overridden /\ three.replaced = i.replaced /\ three.routed = both
      /\ three.summary = summary
  BY <1>1, <1>4 DEF ItemRecord
<1> HIDE DEF three
<1>6. next \in ItemRecord /\ next.status = status /\ SameItem(next, three) /\ next.edits = three.edits
  BY <1>1, <1>5, StatusRow, Zenon
<1> HIDE DEF next
<1>7. Edited(next) \in ItemRecord /\ SameItem(Edited(next), next) /\ Edited(next).status = next.status
  BY <1>5, <1>6, EditedRow
<1>8. /\ Edited(next) \in ItemRecord
      /\ Edited(next).text = i.text /\ Edited(next).level = level
      /\ Edited(next).status = "complete" => ~Edited(next).routed
      /\ Edited(next).overridden => Edited(next).summary = "owner" \/ Edited(next).replaced
  BY <1>1, <1>5, <1>6, <1>7 DEF SameItem
<1> QED BY <1>2, <1>8

LEMMA ChangePrivacyInv ==
  ASSUME IInv, ChangePrivacy
  PROVE  IInv'
<1>0. /\ item \in ItemRecord /\ evidence \in Acquisition /\ TypeOK /\ StagesExist
      /\ item.overridden => item.summary = "owner" \/ item.replaced
  BY DEF IInv, OverrideKept, TypeOK
<1>1. item.edits < MaxEdits /\ kind' = kind /\ evidence' = evidence /\ calls' = calls
  BY DEF ChangePrivacy, MayEdit
<1>2. PICK level \in Levels, reprocess \in BOOLEAN : \E routed \in Routings(level) :
       LET changed == Edited(
             [item EXCEPT !.level = level, !.routed = routed /\ reprocess,
                          !.summary = IF item.overridden THEN @ ELSE "none",
                          !.status = IF reprocess THEN "pending" ELSE "complete"])
           inserted == IF ~reprocess THEN {} ELSE IF kind.url THEN {"acquire_url"} ELSE {"enrich"}
       IN IF level # item.level
          THEN BeginsGeneration(changed, inserted, evidence)
          ELSE /\ Store(changed, [s \in Rows |-> IF s \in inserted THEN Job("pending") ELSE Job("none")],
                        extraction)
               /\ unread' = Leftover(item, evidence)
                              \cup (IF extraction = "text" THEN {"file"} ELSE {})
               /\ missed' = FALSE
  BY Zenon DEF ChangePrivacy
<1> DEFINE inserted == IF ~reprocess THEN {} ELSE IF kind.url THEN {"acquire_url"} ELSE {"enrich"}
           j == [s \in Rows |-> IF s \in inserted THEN Job("pending") ELSE Job("none")]
<1>3. PICK routed \in Routings(level) :
        IF level # item.level
        THEN BeginsGeneration(Changed(item, level, routed, reprocess), inserted, evidence)
        ELSE /\ Store(Changed(item, level, routed, reprocess), j, extraction)
             /\ unread' = Leftover(item, evidence)
                            \cup (IF extraction = "text" THEN {"file"} ELSE {})
             /\ missed' = FALSE
  BY <1>2, Zenon DEF Changed
<1>4. routed \in BOOLEAN
  BY DEF Routings
<1>5. /\ Changed(item, level, routed, reprocess) \in ItemRecord
      /\ Changed(item, level, routed, reprocess).text = item.text /\ Changed(item, level, routed, reprocess).level = level
      /\ Changed(item, level, routed, reprocess).status = "complete" => ~Changed(item, level, routed, reprocess).routed
      /\ Changed(item, level, routed, reprocess).overridden => Changed(item, level, routed, reprocess).summary = "owner" \/ Changed(item, level, routed, reprocess).replaced
  BY <1>0, <1>1, <1>4, ChangedRow
<1>6. inserted \in SUBSET {"acquire_url", "enrich"} /\ ("acquire_url" \in inserted => kind.url)
  OBVIOUS
<1> HIDE DEF inserted
<1>7. CASE level # item.level
  <2>1. BeginsGeneration(Changed(item, level, routed, reprocess), inserted, evidence')
    BY <1>1, <1>3, <1>7
  <2> QED BY <1>0, <1>1, <1>5, <1>6, <2>1, GenerationInv
<1>8. CASE level = item.level
  <2>1. /\ Store(Changed(item, level, routed, reprocess), j, extraction) /\ missed' = FALSE
        /\ unread' = Leftover(item, evidence) \cup (IF extraction = "text" THEN {"file"} ELSE {})
    BY <1>3, <1>8
  <2> HIDE DEF j
  <2>2. item' \in ItemRecord /\ SameItem(item', Changed(item, level, routed, reprocess)) /\ jobs' = j /\ extraction' = extraction
    BY <1>5, <2>1, StoredRow
  <2>3. StatusIsShown'
    BY <1>1, <1>5, <2>1, StoredIsShown
  <2>4. unread' \subseteq Evidence /\ UnreadIsThere'
    BY <1>1, <1>5, <1>8, <2>1, <2>2 DEF UnreadIsThere, Leftover, SameItem, Evidence
  <2>5. item'.overridden => item'.summary = "owner" \/ item'.replaced
    BY <1>5, <2>2 DEF SameItem
  <2>6. extraction \in {"none", "text", "bad", "old"}
    BY <1>0 DEF TypeOK
  <2> QED BY <1>0, <1>1, <1>6, <2>1, <2>2, <2>3, <2>4, <2>5, <2>6, ResetInv DEF j
<1> QED BY <1>7, <1>8

LEMMA LostChangeInv ==
  ASSUME IInv, LostChangePrivacy
  PROVE  IInv'
<1>0. /\ TypeOK /\ UnreadIsThere
      /\ item.overridden => item.summary = "owner" \/ item.replaced
  BY DEF IInv, OverrideKept
<1>1. /\ UNCHANGED <<kind, extraction, evidence, calls, unread, missed>>
      /\ item' = [item EXCEPT !.routed = FALSE] /\ jobs' = NoJobs
  BY DEF LostChangePrivacy
<1>2. /\ item' \in ItemRecord /\ item'.overridden = item.overridden
      /\ item'.summary = item.summary /\ item'.replaced = item.replaced
      /\ item'.level = item.level /\ item'.text = item.text /\ ~item'.routed
  BY <1>0, <1>1 DEF TypeOK, ItemRecord
<1>3. StatusIsShown'
  BY <1>1, <1>2, JobRow, EachRow DEF StatusIsShown, HasCurrentJobs, NoJobs
<1>4. UnreadIsThere'
  BY <1>0, <1>1, <1>2 DEF UnreadIsThere, Leftover
<1>5. jobs' = [s \in Rows |-> IF s \in {} THEN Job("pending") ELSE Job("none")]
  BY <1>1 DEF NoJobs
<1>6. UNCHANGED <<kind, extraction, evidence, calls, unread, missed>>
  BY <1>1
<1>7. /\ extraction' \in {"none", "text", "bad", "old"} /\ (extraction' # "none" => extraction # "none")
      /\ evidence' \in Acquisition /\ unread' \subseteq Evidence /\ missed' \in BOOLEAN
      /\ item'.overridden => item'.summary = "owner" \/ item'.replaced
  BY <1>0, <1>2, <1>6 DEF TypeOK
<1> DEFINE inserted == {}
<1>8. inserted \in SUBSET {"acquire_url", "enrich"} /\ ("acquire_url" \in inserted => kind.url)
  OBVIOUS
<1>9. jobs' = [s \in Rows |-> IF s \in inserted THEN Job("pending") ELSE Job("none")]
  BY <1>5
<1> HIDE DEF inserted
<1> QED BY <1>2, <1>3, <1>4, <1>6, <1>7, <1>8, <1>9, ResetInv

-----------------------------------------------------------------------------
(* Steps within a generation.                                              *)

LEMMA FieldsInv ==
  ASSUME IInv, EditField \/ ResetOverrides
  PROVE  IInv'
<1>0. TypeOK /\ item \in ItemRecord
  BY DEF IInv, OverrideKept, TypeOK
<1>1. UNCHANGED <<kind, jobs, extraction, evidence, calls, unread, missed>>
  BY DEF EditField, ResetOverrides
<1>2. /\ item' \in ItemRecord
      /\ item'.deleted = item.deleted /\ item'.level = item.level /\ item'.text = item.text
      /\ item'.routed = item.routed /\ item'.status = item.status
      /\ item'.overridden => item'.summary = "owner"
  <2>1. CASE EditField
    <3> DEFINE one == [item EXCEPT !.summary = "owner", !.overridden = TRUE, !.replaced = FALSE]
    <3>1. /\ one \in ItemRecord /\ one.edits = item.edits
          /\ one.deleted = item.deleted /\ one.level = item.level /\ one.text = item.text
          /\ one.routed = item.routed /\ one.status = item.status /\ one.summary = "owner"
      BY <1>0 DEF ItemRecord
    <3>2. item' = Edited(one) /\ item.edits < MaxEdits
      BY <2>1 DEF EditField, MayEdit
    <3> HIDE DEF one
    <3>3. item' \in ItemRecord /\ SameItem(item', one) /\ item'.status = one.status
      BY <3>1, <3>2, EditedRow
    <3> QED BY <3>1, <3>3 DEF SameItem
  <2>2. CASE ResetOverrides
    <3> DEFINE one == [item EXCEPT !.overridden = FALSE, !.replaced = FALSE]
    <3>1. /\ one \in ItemRecord
          /\ one.deleted = item.deleted /\ one.level = item.level /\ one.text = item.text
          /\ one.routed = item.routed /\ one.status = item.status /\ ~one.overridden
      BY <1>0 DEF ItemRecord
    <3>2. item' = one
      BY <2>2 DEF ResetOverrides
    <3> HIDE DEF one
    <3> QED BY <3>1, <3>2
  <2> QED BY <2>1, <2>2
<1>3. OverrideKept'
  BY <1>0, <1>1, <1>2 DEF TypeOK, OverrideKept
<1>4. StatusIsShown'
  <2>1. Snapshot(item, jobs, extraction)' = Snapshot(item, jobs, extraction)
    BY <1>1, <1>2 DEF Snapshot, CurrentStages, Incomplete, Usable
  <2> QED BY <1>1, <1>2, <2>1 DEF StatusIsShown, HasCurrentJobs, IInv
<1>5. Leftover(item, evidence)' = Leftover(item, evidence)
  BY <1>1, <1>2 DEF Leftover
<1>6. StagesExist' /\ OlderIsOlder' /\ StepsOfEnrichment' /\ ReadIsUnread'
  BY <1>1 DEF IInv, StagesExist, OlderIsOlder, StepsOfEnrichment, ReadIsUnread
<1>7. EnrichmentIsChained' /\ UnreadIsThere' /\ UnreadIsChained'
  BY <1>1, <1>2, <1>5 DEF IInv, EnrichmentIsChained, UnreadIsThere, UnreadIsChained, Waiting
<1> QED BY <1>3, <1>4, <1>6, <1>7 DEF IInv

\* A job that is leased, retried or ends without result.
LEMMA JobInv ==
  ASSUME IInv, NEW s \in Rows, NEW row \in JobRecord,
         Store(item, [jobs EXCEPT ![s] = row], extraction),
         UNCHANGED <<kind, evidence, unread, missed>>,
         jobs[s].status # "none" \/ (s = "acquire_url" /\ kind.url),
         jobs[s].status # "complete" \/ s = "acquire_url",
         row.status \in Active \cup {"failed"},
         row.owner # None <=> row.status = "processing",
         calls' \in [Calls -> CallRecord],
         \A c \in Calls : calls'[c] = calls[c] \/ calls'[c].at \in {"idle", "work"},
         row.owner # None => calls'[row.owner].at = "work"
  PROVE  IInv'
<1>0. TypeOK /\ item \in ItemRecord /\ jobs \in [Rows -> JobRecord]
  BY DEF IInv, OverrideKept, TypeOK
<1>1. /\ item' \in ItemRecord /\ SameItem(item', item)
      /\ jobs' = [jobs EXCEPT ![s] = row] /\ extraction' = extraction
  BY <1>0, StoredRow
<1>2. TypeOK'
  BY <1>0, <1>1 DEF TypeOK
<1>3. OverrideKept'
  BY <1>1, <1>2 DEF IInv, OverrideKept, SameItem
<1>4. StatusIsShown'
  <2>1. HasCurrentJobs([jobs EXCEPT ![s] = row])
    BY <1>0, EachRow DEF IInv, OlderIsOlder, HasCurrentJobs, Active
  <2> QED BY <1>0, <2>1, StoredIsShown
<1>5. Leftover(item, evidence)' = Leftover(item, evidence)
  BY <1>1 DEF Leftover, SameItem
<1>6. StagesExist' /\ OlderIsOlder'
  BY <1>0, <1>1, EachRow DEF IInv, StagesExist, OlderIsOlder, Active
<1>7. StepsOfEnrichment' /\ ReadIsUnread'
  <2>1. ASSUME NEW c \in Calls, calls'[c].at \in {"rows", "ask", "write"} PROVE calls'[c] = calls[c]
    BY <2>1
  <2>2. ASSUME NEW c \in Calls, NEW t \in Rows, jobs'[t].owner = c, calls'[c].at \in {"rows", "ask", "write"}
        PROVE  jobs[t].owner = c
    BY <1>0, <1>1, <2>2, PipelineAssumption
  <2> QED BY <2>1, <2>2, EachRow DEF IInv, StepsOfEnrichment, ReadIsUnread
<1>8. /\ UnreadIsThere'
      /\ \A t \in Rows : (t = s => Waiting(t)') /\ (t # s => jobs'[t] = jobs[t])
  BY <1>0, <1>1, <1>5 DEF IInv, UnreadIsThere, Waiting, Active
<1>9. EnrichmentIsChained' /\ UnreadIsChained'
  BY <1>1, <1>5, <1>8, EachRow
  DEF IInv, EnrichmentIsChained, UnreadIsChained, Waiting, Active, SameItem
<1> QED BY <1>3, <1>4, <1>6, <1>7, <1>8, <1>9 DEF IInv

\* A call that goes on, or ends, and writes nothing.
LEMMA CallInv ==
  ASSUME IInv, UNCHANGED <<kind, item, jobs, extraction, evidence, unread, missed>>,
         NEW c \in Calls, NEW call \in CallRecord, calls' = [calls EXCEPT ![c] = call],
         call.at \in {"rows", "ask", "write"} => call.stage \in Enrichments,
         jobs[call.stage].owner = c /\ ~missed =>
           /\ call.at = "rows" => unread \subseteq call.read \cup {"file"}
           /\ call.at \in {"ask", "write"} => unread \subseteq call.read
  PROVE  IInv'
<1>0. TypeOK
  BY DEF IInv, OverrideKept
<1>1. OverrideKept'
  BY <1>0 DEF IInv, OverrideKept, TypeOK
<1>2. StatusIsShown'
  <2>1. Snapshot(item, jobs, extraction)' = Snapshot(item, jobs, extraction)
    BY DEF Snapshot, CurrentStages, Incomplete, Usable
  <2> QED BY <2>1 DEF StatusIsShown, HasCurrentJobs, IInv
<1>3. StagesExist' /\ OlderIsOlder' /\ EnrichmentIsChained' /\ UnreadIsThere' /\ UnreadIsChained'
  BY DEF IInv, StagesExist, OlderIsOlder, EnrichmentIsChained, UnreadIsThere, UnreadIsChained, Waiting, Leftover
<1>4. StepsOfEnrichment' /\ ReadIsUnread'
  BY <1>0 DEF IInv, StepsOfEnrichment, ReadIsUnread, TypeOK
<1> QED BY <1>1, <1>2, <1>3, <1>4 DEF IInv

LEMMA LeaseExpiresInv ==
  ASSUME IInv, NEW s \in Rows, LeaseExpires(s)
  PROVE  IInv'
<1>0. TypeOK
  BY DEF IInv, OverrideKept
<1>1. /\ jobs' \in [Rows -> JobRecord]
      /\ \A t \in Rows : jobs'[t].status = jobs[t].status /\ jobs'[t].owner = jobs[t].owner
      /\ UNCHANGED <<kind, item, extraction, evidence, calls, unread, missed>>
  BY <1>0 DEF LeaseExpires, TypeOK, JobRecord
<1>2. OverrideKept'
  BY <1>0, <1>1 DEF IInv, OverrideKept, TypeOK
<1>3. StatusIsShown'
  <2>1. Snapshot(item, jobs, extraction)' = Snapshot(item, jobs, extraction)
    BY <1>1, EachRow DEF Snapshot, CurrentStages, Incomplete, Usable
  <2>2. HasCurrentJobs(jobs)' <=> HasCurrentJobs(jobs)
    BY <1>1, EachRow DEF HasCurrentJobs
  <2> QED BY <1>1, <2>1, <2>2 DEF StatusIsShown, IInv
<1>4. StagesExist' /\ OlderIsOlder' /\ EnrichmentIsChained' /\ UnreadIsThere' /\ UnreadIsChained'
  BY <1>1, EachRow
  DEF IInv, StagesExist, OlderIsOlder, EnrichmentIsChained, UnreadIsThere, UnreadIsChained, Waiting, Leftover
<1>5. StepsOfEnrichment' /\ ReadIsUnread'
  BY <1>1, EachRow DEF IInv, StepsOfEnrichment, ReadIsUnread
<1> QED BY <1>2, <1>3, <1>4, <1>5 DEF IInv

LEMMA IdleRow == IdleCall \in CallRecord /\ IdleCall.at = "idle"
BY EachRow DEF CallRecord, IdleCall

LEMMA LeasedCall ==
  ASSUME NEW s \in Rows
  PROVE  LET next == [IdleCall EXCEPT !.stage = s, !.at = "work"]
         IN next \in CallRecord /\ next.at = "work" /\ next.stage = s
BY EachRow DEF CallRecord, IdleCall

LEMMA JobsInv ==
  ASSUME IInv, NEW s \in Rows,
         \/ \E c \in Calls : LeaseProcessingJob(c, s) \/ FailProcessingJob(c)
         \/ LostReplaceUrl \/ RetrySource \/ ManuallyRetryProcessingJob(s)
  PROVE  IInv'
<1>0. /\ TypeOK /\ calls \in [Calls -> CallRecord] /\ jobs \in [Rows -> JobRecord]
      /\ IdleCall \in CallRecord /\ IdleCall.at = "idle"
      /\ \A t \in Rows : jobs[t].owner # None <=> jobs[t].status = "processing"
      /\ "acquire_url" \in Rows
  BY IdleRow, EachRow DEF IInv, OverrideKept, TypeOK
<1>1. ASSUME NEW c \in Calls, LeaseProcessingJob(c, s) PROVE IInv'
  <2> DEFINE row == [status |-> "processing", owner |-> c, lapsed |-> FALSE]
             call == [IdleCall EXCEPT !.stage = s, !.at = "work"]
  <2>1. row \in JobRecord /\ row.status = "processing" /\ row.owner = c
    BY LeasedRow, Zenon
  <2>2. call \in CallRecord /\ call.at = "work"
    BY LeasedCall, Zenon
  <2>3. /\ Store(item, [jobs EXCEPT ![s] = row], extraction)
        /\ calls' = [calls EXCEPT ![c] = call]
        /\ UNCHANGED <<kind, evidence, unread, missed>>
        /\ jobs[s].status \in {"pending", "processing"}
    BY <1>1, Zenon DEF LeaseProcessingJob
  <2> HIDE DEF row, call
  <2>4. row.status \in Active /\ c # None
    BY <2>1, PipelineAssumption DEF Active
  <2> QED BY <1>0, <2>1, <2>2, <2>3, <2>4, JobInv
<1>2. ASSUME NEW c \in Calls, FailProcessingJob(c) PROVE IInv'
  <2>1. PICK status \in {"pending", "failed"} :
          Store(item, [jobs EXCEPT ![calls[c].stage] = Job(status)], extraction)
    BY <1>2 DEF FailProcessingJob
  <2>2. /\ calls' = [calls EXCEPT ![c] = IdleCall]
        /\ UNCHANGED <<kind, evidence, unread, missed>>
        /\ calls[c].stage \in Rows /\ jobs[calls[c].stage].status = "processing"
    BY <1>0, <1>2, PipelineAssumption DEF FailProcessingJob, Ends, Holds, CallRecord
  <2> DEFINE row == Job(status)
  <2>3. /\ row \in JobRecord /\ row.status \in Active \cup {"failed"}
        /\ row.owner = None /\ row.status # "processing"
    BY JobRow DEF Active
  <2> HIDE DEF row
  <2>4. Store(item, [jobs EXCEPT ![calls[c].stage] = row], extraction)
    BY <2>1 DEF row
  <2> QED BY <1>0, <2>2, <2>3, <2>4, JobInv
<1>3. ASSUME NEW t \in Rows, NEW status \in {"pending", "failed"},
             Store(item, [jobs EXCEPT ![t] = Job(status)], extraction),
             UNCHANGED <<kind, evidence, calls, unread, missed>>,
             jobs[t].status # "none" \/ (t = "acquire_url" /\ kind.url),
             jobs[t].status # "complete" \/ t = "acquire_url"
      PROVE  IInv'
  <2> DEFINE row == Job(status)
  <2>1. /\ row \in JobRecord /\ row.status \in Active \cup {"failed"}
        /\ row.owner = None /\ row.status # "processing"
    BY JobRow DEF Active
  <2>2. Store(item, [jobs EXCEPT ![t] = row], extraction)
    BY <1>3
  <2> HIDE DEF row
  <2> QED BY <1>0, <1>3, <2>1, <2>2, JobInv
<1>4. CASE LostReplaceUrl
  BY <1>0, <1>3, <1>4 DEF LostReplaceUrl
<1>5. CASE RetrySource
  BY <1>0, <1>3, <1>5 DEF RetrySource
<1>6. CASE ManuallyRetryProcessingJob(s)
  BY <1>3, <1>6 DEF ManuallyRetryProcessingJob, MayRetry
<1> QED BY <1>1, <1>2, <1>4, <1>5, <1>6

LEMMA ReconcileInv ==
  ASSUME IInv, Reconcile
  PROVE  IInv'
<1>0. TypeOK /\ item \in ItemRecord /\ Store(item, jobs, extraction)
  BY DEF IInv, OverrideKept, TypeOK, Reconcile
<1>1. /\ item' \in ItemRecord /\ SameItem(item', item) /\ jobs' = jobs /\ extraction' = extraction
      /\ UNCHANGED <<kind, evidence, calls, unread, missed>>
  BY <1>0, StoredRow DEF Reconcile
<1>2. OverrideKept'
  BY <1>0, <1>1 DEF IInv, OverrideKept, TypeOK, SameItem
<1>3. StatusIsShown'
  BY <1>0, <1>1, StoredIsShown DEF IInv, StatusIsShown
<1>4. Leftover(item, evidence)' = Leftover(item, evidence)
  BY <1>1 DEF Leftover, SameItem
<1>5. StagesExist' /\ OlderIsOlder' /\ StepsOfEnrichment' /\ ReadIsUnread'
  BY <1>1 DEF IInv, StagesExist, OlderIsOlder, StepsOfEnrichment, ReadIsUnread
<1>6. EnrichmentIsChained' /\ UnreadIsThere' /\ UnreadIsChained'
  BY <1>1, <1>4 DEF IInv, EnrichmentIsChained, UnreadIsThere, UnreadIsChained, Waiting, SameItem
<1> QED BY <1>2, <1>3, <1>5, <1>6 DEF IInv

LEMMA CallsInv ==
  ASSUME IInv, NEW c \in Calls,
         GivesUp(c) \/ ReadItem(c) \/ ReadExtractions(c) \/ ReadOverrides(c)
  PROVE  IInv'
<1>0. /\ TypeOK /\ calls[c] \in CallRecord /\ jobs \in [Rows -> JobRecord]
      /\ calls \in [Calls -> CallRecord]
      /\ \A t \in Rows : jobs[t].owner # None <=> jobs[t].status = "processing"
      /\ IdleCall \in CallRecord /\ IdleCall.at = "idle"
  BY IdleRow DEF IInv, OverrideKept, TypeOK
<1>1. CASE GivesUp(c)
  <2>1. /\ calls' = [calls EXCEPT ![c] = IdleCall]
        /\ UNCHANGED <<kind, item, jobs, extraction, evidence, unread, missed>>
    BY <1>1 DEF GivesUp, Ends
  <2> QED BY <1>0, <2>1, CallInv
<1>2. ASSUME NEW at \in {"rows", "ask", "write"}, NEW read \in SUBSET Evidence, NEW saw \in BOOLEAN,
             Step(c, at, read, saw), calls[c].stage \in Enrichments,
             jobs[calls[c].stage].owner = c /\ ~missed =>
               /\ at = "rows" => unread \subseteq read \cup {"file"}
               /\ at \in {"ask", "write"} => unread \subseteq read,
             UNCHANGED <<kind, item, jobs, extraction, evidence, unread, missed>>
      PROVE  IInv'
  <2> DEFINE call == [calls[c] EXCEPT !.at = at, !.read = read, !.saw = saw]
  <2>1. call \in CallRecord /\ call.at = at /\ call.read = read /\ call.stage = calls[c].stage
    BY <1>0 DEF CallRecord
  <2>2. calls' = [calls EXCEPT ![c] = call]
    BY <1>2 DEF Step
  <2> HIDE DEF call
  <2> QED BY <1>2, <2>1, <2>2, CallInv
<1>3. CASE ReadItem(c)
  <2>1. Leftover(item, evidence) \in SUBSET Evidence
    BY DEF Leftover, Evidence
  <2>2. unread \subseteq Leftover(item, evidence) \cup {"file"}
    BY DEF IInv, UnreadIsThere
  <2> QED BY <1>2, <1>3, <2>1, <2>2 DEF ReadItem
<1>4. CASE ReadExtractions(c)
  <2> DEFINE read == calls[c].read \cup (IF extraction = "text" THEN {"file"} ELSE {})
  <2>1. read \in SUBSET Evidence /\ calls[c].stage \in Enrichments /\ calls[c].stage \in Rows
    BY <1>0, <1>4 DEF CallRecord, Evidence, ReadExtractions, IInv, StepsOfEnrichment
  <2>2. jobs[calls[c].stage].owner = c /\ ~missed => unread \subseteq read
    BY <1>4, <2>1 DEF IInv, ReadIsUnread, UnreadIsThere, ReadExtractions, Leftover
  <2>3. UNCHANGED <<kind, evidence, unread, missed>>
    BY <1>4 DEF ReadExtractions
  <2>4. CASE Step(c, "ask", read, FALSE) /\ UNCHANGED <<item, jobs, extraction>>
    BY <1>2, <2>1, <2>2, <2>3, <2>4
  <2>5. CASE Store(item, [jobs EXCEPT ![calls[c].stage] = Job("failed")], extraction) /\ Ends(c)
    <3> DEFINE row == Job("failed")
    <3>1. row \in JobRecord /\ row.status = "failed" /\ row.owner = None
      BY JobRow
    <3>2. Store(item, [jobs EXCEPT ![calls[c].stage] = row], extraction)
      BY <2>5
    <3> HIDE DEF row
    <3>3. jobs[calls[c].stage].status = "processing" /\ calls' = [calls EXCEPT ![c] = IdleCall]
      BY <1>0, <1>4, <2>1, <2>5, PipelineAssumption DEF ReadExtractions, Holds, Ends
    <3> QED BY <1>0, <2>1, <2>3, <3>1, <3>2, <3>3, JobInv
  <2> QED BY <1>4, <2>4, <2>5 DEF ReadExtractions
<1>5. CASE ReadOverrides(c)
  <2>1. calls[c].stage \in Enrichments /\ calls[c].read \in SUBSET Evidence
    BY <1>0, <1>5 DEF ReadOverrides, IInv, StepsOfEnrichment, CallRecord
  <2>2. jobs[calls[c].stage].owner = c /\ ~missed => unread \subseteq calls[c].read
    BY <1>5, <2>1 DEF IInv, ReadIsUnread, ReadOverrides
  <2>3. item.overridden \in BOOLEAN
    BY <1>0 DEF TypeOK, ItemRecord
  <2> QED BY <1>2, <1>5, <2>1, <2>2, <2>3 DEF ReadOverrides
<1> QED BY <1>1, <1>3, <1>4, <1>5

-----------------------------------------------------------------------------
(* Hand-overs.                                                             *)

\* The jobs after a batch that ends the stage of a call.
FinishedJobs(c, status, chained) ==
  LET ended == [jobs EXCEPT ![calls[c].stage] = Job(status)]
  IN IF chained THEN Chained(ended) ELSE ended

LEMMA FinishFacts ==
  ASSUME IInv, NEW c \in Calls, Holds(c), calls[c].stage \in {"acquire_url", "extract"}, kind' = kind,
         NEW status \in {"complete", "failed"}, NEW chained, NEW x \in {"none", "text", "bad", "old"},
         Finishes(c, status, chained, x)
  PROVE  /\ item' \in ItemRecord /\ SameItem(item', item) /\ extraction' = x
         /\ jobs' \in [Rows -> JobRecord]
         /\ \A s \in Rows : jobs'[s].owner # None <=> jobs'[s].status = "processing"
         /\ jobs'[calls[c].stage].status = status
         /\ IF chained THEN jobs'["enrich"].status = "pending" ELSE jobs'["enrich"] = jobs["enrich"]
         /\ \A s \in Enrichments : jobs'[s].owner # None => jobs'[s] = jobs[s]
         /\ \A s \in {"acquire_url", "extract"} \ {calls[c].stage} : jobs'[s] = jobs[s]
         /\ jobs[calls[c].stage].status = "processing"
         /\ StatusIsShown' /\ OlderIsOlder'
<1> DEFINE ended == [jobs EXCEPT ![calls[c].stage] = Job(status)]
           older == IF ended["enrich"].status = "failed" THEN Job("failed") ELSE ended["older"]
           next == [ended EXCEPT !["enrich"] = Job("pending"), !["older"] = older]
           j == FinishedJobs(c, status, chained)
<1>0. /\ TypeOK /\ item \in ItemRecord /\ jobs \in [Rows -> JobRecord] /\ OlderIsOlder
      /\ calls[c].stage \in Rows
      /\ \A s \in Rows : jobs[s].owner # None <=> jobs[s].status = "processing"
  BY DEF IInv, OverrideKept, TypeOK, CallRecord
<1>1. Store(item, j, x)
  BY DEF Finishes, FinishedJobs
<1>2. /\ Job(status) \in JobRecord /\ Job(status).status = status /\ Job(status).owner = None
      /\ Job("pending") \in JobRecord /\ Job("pending").status = "pending" /\ Job("pending").owner = None
      /\ Job("failed") \in JobRecord /\ Job("failed").status = "failed" /\ Job("failed").owner = None
  BY JobRow
<1>3. /\ ended \in [Rows -> JobRecord]
      /\ ended[calls[c].stage] = Job(status)
      /\ \A s \in Rows \ {calls[c].stage} : ended[s] = jobs[s]
  BY <1>0, <1>2
<1>4. j = IF chained THEN next ELSE ended
  BY DEF FinishedJobs, Chained
<1> HIDE DEF ended
<1>5. /\ next \in [Rows -> JobRecord]
      /\ next["enrich"] = Job("pending") /\ next["older"] \in {Job("failed"), ended["older"]}
      /\ next["acquire_url"] = ended["acquire_url"] /\ next["extract"] = ended["extract"]
  BY <1>2, <1>3, EachRow
<1> HIDE DEF next
<1>6. /\ j \in [Rows -> JobRecord]
      /\ \A s \in Rows : j[s].owner # None <=> j[s].status = "processing"
      /\ j[calls[c].stage].status = status
      /\ IF chained THEN j["enrich"].status = "pending" ELSE j["enrich"] = jobs["enrich"]
      /\ \A s \in Enrichments : j[s].owner # None => j[s] = jobs[s]
      /\ \A s \in {"acquire_url", "extract"} \ {calls[c].stage} : j[s] = jobs[s]
      /\ j["older"].status # "none" => j["enrich"].status # "none"
  <2>1. CASE ~chained
    BY <1>0, <1>2, <1>3, <1>4, <2>1, EachRow DEF OlderIsOlder
  <2>2. CASE chained
    BY <1>0, <1>2, <1>3, <1>4, <1>5, <2>2, EachRow
  <2> QED BY <2>1, <2>2
<1> HIDE DEF j
<1>7. item' \in ItemRecord /\ SameItem(item', item) /\ extraction' = x /\ jobs' = j
  BY <1>0, <1>1, StoredRow
<1>8. HasCurrentJobs(j)
  BY <1>6, EachRow DEF HasCurrentJobs
<1>9. StatusIsShown'
  BY <1>0, <1>1, <1>8, StoredIsShown
<1>10. jobs[calls[c].stage].status = "processing"
  BY <1>0, PipelineAssumption DEF Holds
<1> QED BY <1>6, <1>7, <1>9, <1>10 DEF OlderIsOlder

LEMMA ArrivesFacts ==
  ASSUME IInv, NEW c \in Calls, NEW e \in Evidence, Arrives(c, e),
         \A s \in Enrichments : jobs'[s].owner # None => jobs'[s] = jobs[s]
  PROVE  /\ calls' \in [Calls -> CallRecord] /\ StepsOfEnrichment' /\ ReadIsUnread'
         /\ unread' = unread \cup {e} /\ missed' \in BOOLEAN
         /\ missed \/ IsActive(jobs, "older") => missed'
<1>0. /\ calls \in [Calls -> CallRecord] /\ missed \in BOOLEAN
      /\ \A s \in Rows : jobs[s].owner # None <=> jobs[s].status = "processing"
  BY DEF IInv, OverrideKept, TypeOK, Stages
<1>1. /\ unread' = unread \cup {e}
      /\ calls' = [d \in Calls |-> IF d = c THEN IdleCall
                                   ELSE [calls[d] EXCEPT !.read = calls[d].read \ {e}]]
      /\ missed' = (missed \/ jobs["enrich"].status = "processing" \/ LeftToOlder)
  BY DEF Arrives
<1>2. ASSUME NEW d \in Calls
      PROVE  /\ calls'[d] \in CallRecord
             /\ calls'[d].at = "idle" \/ (calls'[d].at = calls[d].at /\ calls'[d].stage = calls[d].stage)
  <2>1. CASE d = c
    BY <1>1, <2>1, IdleRow
  <2>2. CASE d # c
    <3>1. calls[d] \in CallRecord /\ calls'[d] = [calls[d] EXCEPT !.read = calls[d].read \ {e}]
      BY <1>0, <1>1, <2>2
    <3> QED BY <3>1 DEF CallRecord
  <2> QED BY <2>1, <2>2
<1>3. calls' \in [Calls -> CallRecord]
  BY <1>1, <1>2
<1>4. StepsOfEnrichment'
  BY <1>2 DEF IInv, StepsOfEnrichment
<1>5. LeftToOlder <=> IsActive(jobs, "older")
  BY <1>1 DEF LeftToOlder
<1>6. /\ missed' \in BOOLEAN /\ (missed \/ IsActive(jobs, "older") => missed')
      /\ jobs["enrich"].status = "processing" => missed'
  BY <1>0, <1>1, <1>5, Zenon
<1>7. ReadIsUnread'
  BY <1>0, <1>6, EachRow, PipelineAssumption DEF ReadIsUnread, IsActive, Active
<1> QED BY <1>1, <1>3, <1>4, <1>6, <1>7

LEMMA EndsFacts ==
  ASSUME IInv, NEW c \in Calls, Ends(c), unread' \subseteq unread, missed => missed',
         \A s \in Enrichments : jobs'[s].owner # None => jobs'[s] = jobs[s]
  PROVE  calls' \in [Calls -> CallRecord] /\ StepsOfEnrichment' /\ ReadIsUnread'
<1>0. calls \in [Calls -> CallRecord] /\ StepsOfEnrichment /\ ReadIsUnread
  BY DEF IInv, OverrideKept, TypeOK
<1>1. /\ calls' \in [Calls -> CallRecord]
      /\ \A d \in Calls : calls'[d] = calls[d] \/ calls'[d].at = "idle"
  BY <1>0, IdleRow DEF Ends
<1> QED BY <1>0, <1>1, PipelineAssumption DEF StepsOfEnrichment, ReadIsUnread

LEMMA AcquisitionInv ==
  ASSUME IInv, NEW c \in Calls, PersistOutcome(c)
  PROVE  IInv'
<1>0. /\ TypeOK /\ StagesExist /\ EnrichmentIsChained /\ UnreadIsThere /\ UnreadIsChained
      /\ item \in ItemRecord /\ extraction \in {"none", "text", "bad", "old"}
      /\ item.overridden => item.summary = "owner" \/ item.replaced
  BY DEF IInv, OverrideKept, TypeOK
<1>1. PICK outcome \in Outcomes(item.level) :
        /\ Finishes(c, IF outcome = "transient" THEN "failed" ELSE "complete",
                    ChainsAfterUrl(outcome), extraction)
        /\ evidence' = IF item.level = "public" THEN outcome ELSE evidence
        /\ IF outcome = "text" THEN Arrives(c, "source")
           ELSE /\ unread' = unread \ {"source"} /\ Ends(c)
                /\ missed' = (missed \/ LeftToOlder)
  BY DEF PersistOutcome
<1>2. /\ calls[c].stage = "acquire_url" /\ Holds(c) /\ kind' = kind
      /\ outcome \in {"bare", "transient", "text"} /\ (item.level # "public" => outcome = "bare")
  BY DEF PersistOutcome, Outcomes, Fetched, Classified, Parsed
<1> DEFINE status == IF outcome = "transient" THEN "failed" ELSE "complete"
           chained == ChainsAfterUrl(outcome)
<1>3. /\ item' \in ItemRecord /\ SameItem(item', item) /\ extraction' = extraction
      /\ jobs' \in [Rows -> JobRecord]
      /\ \A s \in Rows : jobs'[s].owner # None <=> jobs'[s].status = "processing"
      /\ jobs'["acquire_url"].status = status
      /\ IF chained THEN jobs'["enrich"].status = "pending" ELSE jobs'["enrich"] = jobs["enrich"]
      /\ \A s \in Enrichments : jobs'[s].owner # None => jobs'[s] = jobs[s]
      /\ jobs'["extract"] = jobs["extract"]
      /\ jobs["acquire_url"].status = "processing"
      /\ StatusIsShown' /\ OlderIsOlder'
  <2>1. status \in {"complete", "failed"}
    OBVIOUS
  <2>2. Finishes(c, status, chained, extraction)
    BY <1>1
  <2> HIDE DEF status, chained
  <2> QED BY <1>0, <1>2, <2>1, <2>2, FinishFacts
<1>4. /\ calls' \in [Calls -> CallRecord] /\ StepsOfEnrichment' /\ ReadIsUnread' /\ missed' \in BOOLEAN
      /\ missed => missed'
      /\ IF outcome = "text" THEN unread' = unread \cup {"source"} ELSE unread' = unread \ {"source"}
      /\ IsActive(jobs, "older") /\ unread' # {} => missed'
  <2>1. CASE outcome = "text"
    BY <1>1, <1>3, <2>1, ArrivesFacts DEF Evidence
  <2>2. CASE outcome # "text"
    <3>1. unread' = unread \ {"source"} /\ Ends(c) /\ missed' = (missed \/ LeftToOlder)
      BY <1>1, <2>2
    <3>2. /\ missed' \in BOOLEAN /\ (missed => missed')
          /\ IsActive(jobs, "older") /\ unread' # {} => missed'
      BY <3>1, Zenon DEF LeftToOlder
    <3> QED BY <1>3, <2>2, <3>1, <3>2, EndsFacts
  <2> QED BY <2>1, <2>2
<1>5. evidence' \in Acquisition /\ (item.level = "public" => evidence' = outcome)
  BY <1>0, <1>1, <1>2 DEF TypeOK, Acquisition
<1>6. OverrideKept'
  BY <1>0, <1>2, <1>3, <1>4, <1>5 DEF OverrideKept, TypeOK, SameItem, Evidence
<1>7. StagesExist'
  BY <1>0, <1>2, <1>3 DEF StagesExist
<1>8. item.routed /\ ~IsActive(jobs', "enrich") /\ ~IsActive(jobs, "extract") /\ ~IsActive(jobs, "older") =>
        ~item.text /\ extraction \notin {"text", "old"} /\ outcome # "text"
  BY <1>3, EachRow DEF ChainsAfterUrl, Enriching, IsActive, Active
<1>9. UnreadIsThere'
  BY <1>0, <1>2, <1>3, <1>4, <1>5 DEF UnreadIsThere, Leftover, SameItem
<1>10. EnrichmentIsChained'
  <2>1. jobs'["enrich"].status = "none" => ~IsActive(jobs, "older")
    BY <1>3 DEF IInv, OlderIsOlder, IsActive, Active
  <2> QED
    BY <1>0, <1>3, <1>5, <1>8, <2>1 DEF EnrichmentIsChained, Waiting, IsActive, Active, Leftover, SameItem
<1>11. UnreadIsChained'
  BY <1>0, <1>3, <1>4, <1>5, <1>8, <1>9
  DEF UnreadIsChained, UnreadIsThere, Waiting, IsActive, Active, Leftover, SameItem
<1> QED BY <1>3, <1>4, <1>6, <1>7, <1>9, <1>10, <1>11 DEF IInv

LEMMA ExtractionInv ==
  ASSUME IInv, NEW c \in Calls, SubmitExtractionResults(c)
  PROVE  IInv'
<1>0. /\ TypeOK /\ StagesExist /\ EnrichmentIsChained /\ UnreadIsThere /\ UnreadIsChained
      /\ item.overridden => item.summary = "owner" \/ item.replaced
  BY DEF IInv, OverrideKept
<1>1. PICK x \in Extracted :
        /\ Finishes(c, "complete", ChainsAfterFile(x), x)
        /\ IF x = "text" THEN Arrives(c, "file") ELSE Ends(c) /\ UNCHANGED <<unread, missed>>
  BY DEF SubmitExtractionResults
<1>2. /\ calls[c].stage = "extract" /\ Holds(c) /\ kind' = kind /\ evidence' = evidence
      /\ x \in {"text", "bad"}
  BY DEF SubmitExtractionResults, Extracted
<1> DEFINE chained == ChainsAfterFile(x)
<1>3. /\ item' \in ItemRecord /\ SameItem(item', item) /\ extraction' = x
      /\ jobs' \in [Rows -> JobRecord]
      /\ \A s \in Rows : jobs'[s].owner # None <=> jobs'[s].status = "processing"
      /\ jobs'["extract"].status = "complete"
      /\ IF chained THEN jobs'["enrich"].status = "pending" ELSE jobs'["enrich"] = jobs["enrich"]
      /\ \A s \in Enrichments : jobs'[s].owner # None => jobs'[s] = jobs[s]
      /\ jobs'["acquire_url"] = jobs["acquire_url"]
      /\ jobs["extract"].status = "processing"
      /\ StatusIsShown' /\ OlderIsOlder'
  <2>1. Finishes(c, "complete", chained, x)
    BY <1>1
  <2> HIDE DEF chained
  <2> QED BY <1>0, <1>2, <2>1, FinishFacts
<1>4. /\ calls' \in [Calls -> CallRecord] /\ StepsOfEnrichment' /\ ReadIsUnread' /\ missed' \in BOOLEAN
      /\ missed => missed'
      /\ IF x = "text" THEN unread' = unread \cup {"file"} ELSE unread' = unread
      /\ x = "text" /\ IsActive(jobs, "older") => missed'
  <2>1. CASE x = "text"
    BY <1>1, <1>3, <2>1, ArrivesFacts DEF Evidence
  <2>2. CASE x # "text"
    <3>1. unread' = unread /\ Ends(c) /\ missed' = missed
      BY <1>1, <2>2
    <3> QED BY <1>0, <1>3, <2>2, <3>1, EndsFacts DEF TypeOK
  <2> QED BY <2>1, <2>2
<1>5. OverrideKept'
  BY <1>0, <1>2, <1>3, <1>4 DEF OverrideKept, TypeOK, SameItem, Evidence
<1>6. StagesExist'
  BY <1>0, <1>2, <1>3 DEF StagesExist
<1>7. x = "text" /\ item.routed /\ jobs'["enrich"].status \notin Active /\ ~IsActive(jobs, "older") =>
        jobs["acquire_url"].status \in Active
  BY <1>3, EachRow DEF ChainsAfterFile, Enriching, IsActive, Active
<1>8. UnreadIsThere'
  BY <1>0, <1>2, <1>3, <1>4 DEF UnreadIsThere, Leftover, SameItem, StagesExist
<1>9. EnrichmentIsChained'
  <2>1. jobs'["enrich"].status = "none" => ~IsActive(jobs, "older")
    BY <1>3 DEF IInv, OlderIsOlder, IsActive, Active
  <2> QED BY <1>0, <1>2, <1>3, <1>7, <2>1 DEF EnrichmentIsChained, Waiting, Active, SameItem
<1>10. UnreadIsChained'
  BY <1>0, <1>2, <1>3, <1>4, <1>7 DEF UnreadIsChained, Waiting, Active, SameItem
<1> QED BY <1>3, <1>4, <1>5, <1>6, <1>8, <1>9, <1>10 DEF IInv

LEMMA EnrichmentInv ==
  ASSUME IInv, NEW c \in Calls, CompleteEnrichment(c)
  PROVE  IInv'
<1>0. /\ TypeOK /\ item \in ItemRecord /\ jobs \in [Rows -> JobRecord] /\ StagesExist
      /\ calls \in [Calls -> CallRecord]
      /\ item.overridden => item.summary = "owner" \/ item.replaced
  BY DEF IInv, OverrideKept, TypeOK
<1> DEFINE stage == calls[c].stage
<1>1. /\ stage \in Enrichments /\ jobs[stage].owner = c
      /\ ~missed => unread \subseteq calls[c].read
      /\ jobs[stage].status = "processing" /\ OlderIsOlder
  BY EachRow, PipelineAssumption
  DEF CompleteEnrichment, Holds, IInv, StepsOfEnrichment, ReadIsUnread, OverrideKept, TypeOK
<1>1a. PICK status \in Completed(stage) :
        Store(Derived(c), [jobs EXCEPT ![stage] = Job(status)], extraction)
  BY DEF CompleteEnrichment
<1> DEFINE row == Job(status)
<1>2. /\ Derived(c) \in ItemRecord
      /\ Derived(c).deleted = item.deleted /\ Derived(c).level = item.level
      /\ Derived(c).text = item.text /\ Derived(c).routed = item.routed
      /\ Derived(c).overridden => Derived(c).summary = "owner" \/ Derived(c).replaced
  <2>1. LET next == [item EXCEPT !.summary = "generated", !.replaced = item.overridden]
        IN /\ next \in ItemRecord
           /\ next.deleted = item.deleted /\ next.level = item.level
           /\ next.text = item.text /\ next.routed = item.routed
           /\ next.overridden => next.replaced
    BY <1>0 DEF ItemRecord
  <2> QED BY <1>0, <2>1, Zenon DEF Derived
<1>3. /\ row \in JobRecord /\ row.status \in {"complete", "failed"} /\ row.owner = None
      /\ stage = "enrich" => row.status = "complete"
  <2>1. status \in {"complete", "failed"} /\ (stage = "enrich" => status = "complete")
    BY DEF Completed
  <2> QED BY <2>1, JobRow
<1>4. /\ Store(Derived(c), [jobs EXCEPT ![stage] = row], extraction)
      /\ unread' = unread \ calls[c].read /\ Ends(c) /\ UNCHANGED <<kind, evidence>>
  BY <1>1a DEF CompleteEnrichment
<1>5. missed' = (missed /\ unread' # {})
  BY DEF CompleteEnrichment
<1> HIDE DEF row, stage
<1>6. /\ item' \in ItemRecord /\ SameItem(item', Derived(c))
      /\ jobs' = [jobs EXCEPT ![stage] = row] /\ extraction' = extraction
  BY <1>2, <1>4, StoredRow
<1>7. missed' \in BOOLEAN /\ (unread' # {} => missed')
  <2>1. missed' \in BOOLEAN /\ (missed /\ unread' # {} => missed')
    BY <1>5, Zenon
  <2> QED BY <1>1, <1>4, <2>1
<1>8. /\ jobs' \in [Rows -> JobRecord] /\ jobs'[stage] = row /\ stage \in Rows
      /\ \A s \in Rows \ {stage} : jobs'[s] = jobs[s]
      /\ jobs'["enrich"].status # "none"
  BY <1>0, <1>1, <1>3, <1>6, EachRow DEF OlderIsOlder
<1>9. calls' \in [Calls -> CallRecord] /\ \A d \in Calls : calls'[d] = calls[d] \/ calls'[d].at = "idle"
  BY <1>0, <1>4, IdleRow DEF Ends
<1>10. StatusIsShown'
  <2>1. HasCurrentJobs([jobs EXCEPT ![stage] = row])
    BY <1>6, <1>8, EachRow DEF HasCurrentJobs
  <2> QED BY <1>2, <1>4, <2>1, StoredIsShown
<1>11. OverrideKept'
  BY <1>0, <1>2, <1>3, <1>4, <1>6, <1>7, <1>8, <1>9 DEF OverrideKept, TypeOK, SameItem
<1>12. StagesExist' /\ OlderIsOlder'
  BY <1>0, <1>1, <1>4, <1>6, <1>8, EachRow DEF StagesExist, OlderIsOlder
<1>13. UnreadIsThere'
  BY <1>2, <1>4, <1>6 DEF IInv, UnreadIsThere, Leftover, SameItem
<1>14. StepsOfEnrichment' /\ ReadIsUnread'
  BY <1>1, <1>3, <1>4, <1>7, <1>8, <1>9, EachRow, PipelineAssumption
  DEF IInv, StepsOfEnrichment, ReadIsUnread
<1>15. EnrichmentIsChained' /\ UnreadIsChained'
  BY <1>7, <1>8 DEF EnrichmentIsChained, UnreadIsChained
<1> QED BY <1>10, <1>11, <1>12, <1>13, <1>14, <1>15 DEF IInv

-----------------------------------------------------------------------------
(* The invariant and what follows from it.                                 *)

LEMMA InitInv == Init => IInv
<1> SUFFICES ASSUME Init PROVE IInv
  OBVIOUS
<1>1. /\ kind \in Kinds /\ jobs \in {Scheduled, NoJobs} /\ extraction = "none" /\ evidence = "none"
      /\ calls = [c \in Calls |-> IdleCall]
      /\ unread = IF kind.text THEN {"text"} ELSE {}
      /\ missed = FALSE
      /\ kind.text \in BOOLEAN
  BY PipelineAssumption DEF Init
<1>2. PICK level \in Levels, routed \in BOOLEAN :
        LET new == [deleted |-> FALSE, level |-> level, text |-> kind.text,
                    routed |-> routed /\ jobs = Scheduled, status |-> "pending",
                    summary |-> "none", overridden |-> FALSE, replaced |-> FALSE, edits |-> 0]
        IN item = [new EXCEPT !.status = Materialised(new, jobs, extraction)]
  BY Zenon DEF Init, Routings
<1> DEFINE both == routed /\ jobs = Scheduled
           new == [deleted |-> FALSE, level |-> level, text |-> kind.text, routed |-> both,
                   status |-> "pending", summary |-> "none", overridden |-> FALSE,
                   replaced |-> FALSE, edits |-> 0]
<1>3. both \in BOOLEAN /\ 0 \in 0 .. MaxEdits
  BY PipelineAssumption
<1>4. item = [new EXCEPT !.status = Materialised(new, jobs, extraction)]
  BY <1>2
<1> HIDE DEF both
<1>5. /\ new \in ItemRecord /\ ~new.deleted /\ new.text = kind.text /\ ~new.overridden
      /\ new.status = "pending"
  BY <1>1, <1>3 DEF ItemRecord
<1> HIDE DEF new
<1>6. Materialised(new, jobs, extraction) \in ItemStatus
  BY <1>5 DEF Materialised, Snapshot, ItemStatus
<1>7. item \in ItemRecord /\ SameItem(item, new) /\ item.status = Materialised(new, jobs, extraction)
  BY <1>4, <1>5, <1>6, StatusRow
<1>8. Snapshot(item, jobs, extraction) = Snapshot(new, jobs, extraction)
  BY <1>7, SameSnapshot
<1>9. StatusIsShown
  BY <1>5, <1>7, <1>8 DEF StatusIsShown, Materialised
<1>10. /\ jobs \in [Rows -> JobRecord]
       /\ \A s \in Rows : jobs[s].owner = None /\ jobs[s].status \in {"none", "pending"}
       /\ jobs["older"].status = "none"
       /\ jobs["acquire_url"].status # "none" => kind.url
       /\ jobs["extract"].status # "none" => kind.file
  <2>1. /\ Job("none") \in JobRecord /\ Job("none").status = "none" /\ Job("none").owner = None
        /\ Job("pending") \in JobRecord /\ Job("pending").status = "pending" /\ Job("pending").owner = None
    BY JobRow
  <2> QED BY <1>1, <2>1, EachRow DEF Scheduled, NoJobs
<1>11. OverrideKept
  BY <1>1, <1>5, <1>7, <1>10, IdleRow DEF OverrideKept, TypeOK, SameItem, Acquisition, Evidence
<1>12. StepsOfEnrichment /\ ReadIsUnread
  BY <1>1, IdleRow DEF StepsOfEnrichment, ReadIsUnread
<1>13. StagesExist /\ OlderIsOlder /\ EnrichmentIsChained /\ UnreadIsChained
  BY <1>1, <1>10, EachRow DEF StagesExist, OlderIsOlder, EnrichmentIsChained, UnreadIsChained
<1>14. UnreadIsThere
  BY <1>1, <1>5, <1>7 DEF UnreadIsThere, Leftover, SameItem
<1> QED BY <1>9, <1>11, <1>12, <1>13, <1>14 DEF IInv

LEMMA NextInv == IInv /\ [Next]_vars => IInv'
<1> SUFFICES ASSUME IInv, [Next]_vars PROVE IInv'
  OBVIOUS
<1>1. CASE Owner
  <2> "acquire_url" \in Rows
    BY EachRow
  <2> QED
    BY <1>1, FieldsInv, GenerationsInv, ChangePrivacyInv, LostChangeInv, JobsInv, ReconcileInv DEF Owner
<1>2. ASSUME NEW c \in Calls, Worker(c) PROVE IInv'
  <2> "acquire_url" \in Rows
    BY EachRow
  <2> QED
    BY <1>2, JobsInv, CallsInv, AcquisitionInv, ExtractionInv, EnrichmentInv DEF Worker
<1>3. ASSUME NEW s \in Rows, LeaseExpires(s) PROVE IInv'
  BY <1>3, LeaseExpiresInv
<1>4. CASE UNCHANGED vars
  <2>1. Snapshot(item, jobs, extraction)' = Snapshot(item, jobs, extraction)
    BY <1>4 DEF vars, Snapshot, CurrentStages, Incomplete, Usable
  <2>2. StatusIsShown'
    BY <1>4, <2>1 DEF vars, IInv, StatusIsShown, HasCurrentJobs
  <2>3. OverrideKept' /\ StepsOfEnrichment' /\ StagesExist' /\ OlderIsOlder'
    BY <1>4 DEF vars, IInv, OverrideKept, TypeOK, StepsOfEnrichment, StagesExist, OlderIsOlder
  <2>4. EnrichmentIsChained' /\ UnreadIsThere' /\ UnreadIsChained' /\ ReadIsUnread'
    BY <1>4
    DEF vars, IInv, EnrichmentIsChained, UnreadIsThere, UnreadIsChained, ReadIsUnread, Waiting, Leftover
  <2> QED BY <2>2, <2>3, <2>4 DEF IInv
<1> QED BY <1>1, <1>2, <1>3, <1>4 DEF Next

\* The inductive invariant behind the status of an item: the status is the
\* snapshot of its jobs, and where an enrichment is missing or outdated, the
\* stage that is to chain it is still under way (job.service.ts:647,
\* source-acquisition.service.ts:313).
THEOREM Invariance == Spec => []IInv
<1>1. Init => IInv
  BY InitInv
<1>2. IInv /\ [Next]_vars => IInv'
  BY NextInv
<1> QED BY <1>1, <1>2, PTL DEF Spec

\* Every reachable state is well typed.
THEOREM TypeCorrect == Spec => []TypeOK
<1>1. IInv => TypeOK
  BY DEF IInv, OverrideKept
<1> QED BY <1>1, Invariance, PTL

\* The owner's own words stay until their override is reset
\* (enrich.service.ts:175, policy.repository.ts:47), but for the excused race.
THEOREM OwnersWordsStay == Spec => []OverrideKept
<1>1. IInv => OverrideKept
  BY DEF IInv
<1> QED BY <1>1, Invariance, PTL

\* Which stages have a job of a status, and which of them count.
LEMMA CurrentStatus ==
  ASSUME TypeOK, NEW status
  PROVE  (\E s \in CurrentStages(item, jobs) : jobs[s].status = status) <=>
           /\ status # "none"
           /\ \/ jobs["acquire_url"].status = status
              \/ jobs["extract"].status = status
              \/ item.routed /\ jobs["enrich"].status = status
BY DEF CurrentStages, Stages

LEMMA RequiredStatus ==
  ASSUME TypeOK, StagesExist, NEW status
  PROVE  (\E s \in Required : jobs[s].status = status) <=>
           \/ kind.url /\ jobs["acquire_url"].status = status
           \/ kind.file /\ jobs["extract"].status = status
           \/ /\ item.routed /\ jobs["enrich"].status = status
              /\ status # "none" \/ Leftover(item, evidence) # {} \/ extraction = "text"
BY DEF Required, Stages, StagesExist

LEMMA JobStatuses ==
  ASSUME TypeOK, NEW s \in Stages
  PROVE  jobs[s].status \in {"none", "complete", "failed", "pending", "processing"}
BY EachRow DEF TypeOK, JobRecord, Active

\* When nothing has failed and nothing is under way, the snapshot misses a
\* stage exactly when the contract does.
LEMMA IncompleteIsRequired ==
  ASSUME IInv, HasCurrentJobs(jobs),
         \A status \in {"failed", "processing", "pending"} :
           ~\E s \in CurrentStages(item, jobs) : jobs[s].status = status,
         ~(kind.file /\ extraction = "bad")
  PROVE  Incomplete(item, jobs, extraction) <=> \E s \in Required : jobs[s].status = "none"
<1>0. TypeOK /\ StagesExist /\ EnrichmentIsChained
  BY DEF IInv, OverrideKept
<1>1. /\ jobs["acquire_url"].status \in {"none", "complete"}
      /\ jobs["extract"].status \in {"none", "complete"}
      /\ item.routed => jobs["enrich"].status \in {"none", "complete"}
  BY <1>0, CurrentStatus, JobStatuses DEF Stages
<1>2. /\ ("acquire_url" \notin CurrentStages(item, jobs)) <=> jobs["acquire_url"].status = "none"
      /\ ("extract" \notin CurrentStages(item, jobs)) <=> jobs["extract"].status = "none"
      /\ item.routed => ("enrich" \notin CurrentStages(item, jobs) <=> jobs["enrich"].status = "none")
  BY DEF CurrentStages, Stages
<1>3. jobs["extract"].status = "complete" => extraction = "text"
  BY <1>0 DEF StagesExist
<1>4. CASE (kind.url /\ jobs["acquire_url"].status = "none") \/ (kind.file /\ jobs["extract"].status = "none")
  BY <1>0, <1>2, <1>4, RequiredStatus DEF Incomplete
<1>5. CASE /\ kind.url => jobs["acquire_url"].status = "complete"
           /\ kind.file => jobs["extract"].status = "complete"
  <2>1. ~Waiting("acquire_url") /\ ~Waiting("extract")
    BY <1>1 DEF Waiting, Active
  <2>2. extraction # "bad"
    BY <1>0 DEF StagesExist
  <2>3. ASSUME item.routed, jobs["enrich"].status = "none"
        PROVE  /\ Leftover(item, evidence) = {} /\ extraction # "text" /\ ~item.text
    <3>1. kind.url
      BY <1>0, <1>1, <1>3, <1>5, <2>1, <2>3
      DEF HasCurrentJobs, Stages, StagesExist, EnrichmentIsChained
    <3>2. Leftover(item, evidence) = {} /\ extraction # "text"
      BY <1>0, <1>5, <2>1, <2>2, <2>3, <3>1 DEF EnrichmentIsChained
    <3>3. item.text => "text" \in Leftover(item, evidence)
      BY DEF Leftover
    <3> QED BY <3>2, <3>3
  <2> QED BY <1>0, <1>2, <1>3, <1>5, <2>3, RequiredStatus DEF Incomplete, Usable
<1> QED BY <1>0, <1>1, <1>4, <1>5 DEF StagesExist

LEMMA ContractHolds == IInv => StatusIsContract
<1> SUFFICES ASSUME IInv, ~item.deleted, HasCurrentJobs(jobs), \A s \in Stages : ~jobs[s].lapsed
             PROVE  item.status = Decided
  BY DEF StatusIsContract
<1>0. TypeOK /\ StagesExist /\ item.status = Snapshot(item, jobs, extraction)
  BY DEF IInv, OverrideKept, StatusIsShown
<1>1. \A status \in {"failed", "processing", "pending"} :
        (\E s \in CurrentStages(item, jobs) : jobs[s].status = status)
          <=> \E s \in Required : jobs[s].status = status
  BY <1>0, CurrentStatus, RequiredStatus DEF StagesExist
<1>2. (\E s \in Required : jobs[s].status = "processing" /\ ~jobs[s].lapsed)
        <=> \E s \in Required : jobs[s].status = "processing"
  BY DEF Required
<1>3. CASE \/ \E s \in Required : jobs[s].status \in {"failed", "processing", "pending"}
           \/ kind.file /\ extraction = "bad"
  BY <1>0, <1>1, <1>2, <1>3 DEF Snapshot, Decided
<1>4. CASE ~(\/ \E s \in Required : jobs[s].status \in {"failed", "processing", "pending"}
             \/ kind.file /\ extraction = "bad")
  <2>1. Incomplete(item, jobs, extraction) <=> \E s \in Required : jobs[s].status = "none"
    BY <1>1, <1>4, IncompleteIsRequired
  <2> QED BY <1>0, <1>1, <1>2, <1>4, <2>1 DEF Snapshot, Decided
<1> QED BY <1>3, <1>4

\* The status the triggers keep is the one of the contract (migration 0024,
\* aggregate-processing-state.ts), after any sequence of steps.
THEOREM ContractIsKept == Spec => []StatusIsContract
BY ContractHolds, Invariance, PTL

LEMMA CompleteHolds == IInv => CompleteIsEnriched
<1> SUFFICES ASSUME IInv, ~item.deleted, item.routed, item.status = "complete"
             PROVE  unread = {} \/ missed
  BY DEF CompleteIsEnriched
<1>0. TypeOK /\ StagesExist /\ EnrichmentIsChained /\ UnreadIsThere /\ UnreadIsChained
  BY DEF IInv, OverrideKept
<1>1. HasCurrentJobs(jobs) /\ Snapshot(item, jobs, extraction) = "complete"
  BY DEF IInv, StatusIsShown
<1>2. /\ \A status \in {"failed", "processing", "pending"} :
           ~\E s \in CurrentStages(item, jobs) : jobs[s].status = status
      /\ ~(kind.file /\ extraction = "bad")
      /\ ~Incomplete(item, jobs, extraction)
  BY <1>1 DEF Snapshot
<1>3. ~\E s \in Required : jobs[s].status = "none"
  BY <1>1, <1>2, IncompleteIsRequired
<1>4. /\ jobs["acquire_url"].status \in {"none", "complete"}
      /\ jobs["extract"].status \in {"none", "complete"}
      /\ jobs["enrich"].status \in {"none", "complete"}
  BY <1>0, <1>2, CurrentStatus, JobStatuses DEF Stages
<1>5. CASE jobs["enrich"].status = "none"
  <2>1. Leftover(item, evidence) = {} /\ extraction # "text"
    BY <1>0, <1>3, <1>5, RequiredStatus
  <2> QED BY <1>0, <2>1 DEF UnreadIsThere
<1>6. CASE jobs["enrich"].status = "complete"
  <2>1. ~Waiting("acquire_url") /\ ~Waiting("extract")
    BY <1>4 DEF Waiting, Active
  <2>2. extraction # "bad"
    BY <1>0, <1>2 DEF StagesExist
  <2> QED BY <1>0, <1>6, <2>1, <2>2 DEF UnreadIsChained
<1> QED BY <1>4, <1>5, <1>6

\* What is shown as complete under a provider has been read by an enrichment
\* (source-acquisition.service.ts:313, job.service.ts:647), but for what came
\* while one was at work.
THEOREM CompleteIsRead == Spec => []CompleteIsEnriched
BY CompleteHolds, Invariance, PTL

LEMMA PendingHolds == IInv => PendingIsMoving
<1> SUFFICES ASSUME IInv, ~item.deleted, item.status \in Active,
                    ~\E s \in Stages : IsActive(jobs, s), ~MissingStage
             PROVE  FALSE
  BY DEF PendingIsMoving
<1>0. TypeOK /\ StagesExist
  BY DEF IInv, OverrideKept
<1>1. HasCurrentJobs(jobs) /\ Snapshot(item, jobs, extraction) \in Active
  BY DEF MissingStage, IInv, StatusIsShown
<1>2. \A s \in Stages : jobs[s].status \notin {"pending", "processing"}
  BY DEF IsActive, Active
<1>3. \A status \in {"failed", "processing", "pending"} :
        ~\E s \in CurrentStages(item, jobs) : jobs[s].status = status
  BY <1>1, <1>2 DEF Snapshot, CurrentStages, Active
<1>4. Incomplete(item, jobs, extraction) /\ ~(kind.file /\ extraction = "bad")
  BY <1>1, <1>3 DEF Snapshot, Active
<1>5. \E s \in Required : jobs[s].status = "none"
  BY <1>1, <1>3, <1>4, IncompleteIsRequired
<1>6. /\ item.routed /\ jobs["enrich"].status = "none"
      /\ Leftover(item, evidence) # {} \/ extraction = "text"
  BY <1>0, <1>5, RequiredStatus DEF MissingStage
<1>7. ~Waiting("acquire_url") /\ ~Waiting("extract") /\ extraction # "bad"
  <2>1. /\ jobs["acquire_url"].status # "failed"
        /\ jobs["extract"].status # "failed"
    BY <1>0, <1>3, CurrentStatus
  <2> QED BY <1>0, <1>2, <1>4, <2>1 DEF Waiting, Active, Stages, StagesExist
<1>8. jobs["acquire_url"].status # "complete"
  BY <1>6, <1>7 DEF IInv, EnrichmentIsChained
<1>9. jobs["acquire_url"].status = "none" /\ ~kind.url
  BY <1>0, <1>2, <1>7, <1>8, JobStatuses DEF Stages, Waiting, Active, MissingStage
<1>10. jobs["extract"].status = "complete" /\ extraction = "text"
  BY <1>0, <1>1, <1>2, <1>6, <1>7, <1>9, JobStatuses
  DEF HasCurrentJobs, Stages, Waiting, Active, StagesExist
<1> QED BY <1>6, <1>7, <1>10 DEF IInv, EnrichmentIsChained

\* An item shown as pending or processing has a job that moves it on
\* (job.service.ts:647), unless its generation lacks a stage from the start.
THEOREM PendingMoves == Spec => []PendingIsMoving
BY PendingHolds, Invariance, PTL
=============================================================================
