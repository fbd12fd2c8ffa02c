------------------------------ MODULE NovelTypes -----------------------------
(***************************************************************************)
(* Type correctness of NovelSystem, for every value of its constants.       *)
(*                                                                         *)
(* One lemma per transaction of the store, then one per handler step; a    *)
(* step of a handler is typed because the values it carries are.           *)
(***************************************************************************)
EXTENDS NovelSystem, TLAPS, WellFoundedInduction

-----------------------------------------------------------------------------
(* Stage plans *)

(* A set of numbers has a least one, a bounded one a greatest. *)
LEMMA NatMin ==
  ASSUME NEW S, S \subseteq Nat, S # {}
  PROVE  \E m \in S : \A x \in S : m <= x
<1>. DEFINE R == {p \in Nat \X Nat : p[1] < p[2]}
<1>1. R = OpToRel(<, Nat)
  BY Zenon DEF OpToRel
<1>2. IsWellFoundedOn(R, Nat)
  <2>. HIDE DEF R
  <2>. QED
    BY <1>1, NatLessThanWellFounded, Zenon
<1>3. PICK m \in S : \A x \in S : <<x, m>> \notin R
  <2>. HIDE DEF R
  <2>. QED
    BY <1>2, WFMin, Zenon
<1>4. \A x \in S : ~(x < m)
  BY <1>3
<1>. QED
  BY <1>4

LEMMA NatMax ==
  ASSUME NEW k \in Nat, NEW S, S \subseteq 0 .. k, S # {}
  PROVE  \E m \in S : \A x \in S : x <= m
<1>. DEFINE U == {k - x : x \in S}
<1>1. U \subseteq Nat
  OBVIOUS
<1>2. U # {}
  OBVIOUS
<1>3. PICK u \in U : \A v \in U : u <= v
  BY <1>1, <1>2, NatMin
<1>4. PICK m \in S : u = k - m
  OBVIOUS
<1>5. ASSUME NEW x \in S
      PROVE  x <= m
  <2>1. k - x \in U
    OBVIOUS
  <2>2. k - m <= k - x
    BY <1>3, <1>4, <2>1
  <2>. QED
    BY <2>2
<1>. QED
  BY <1>5

(* A resumed run goes on at its first stage that is not DONE. *)
LEMMA ResumeFromFirst ==
  ASSUME NEW run, NEW plan \in Seq(StageName), NEW i, i = ResumeFrom(run, plan)
  PROVE  /\ i \in 1 .. Len(plan) + 1
         /\ \A j \in 1 .. i - 1 : run.state[plan[j]] = "DONE"
         /\ i <= Len(plan) => run.state[plan[i]] # "DONE"
<1>. DEFINE Open == {j \in 1 .. Len(plan) + 1 : j <= Len(plan) => run.state[plan[j]] # "DONE"}
<1>1. Len(plan) \in Nat
  OBVIOUS
<1>2. Open \subseteq Nat /\ Len(plan) + 1 \in Open
  BY <1>1
<1>3. PICK m \in Open : \A x \in Open : m <= x
  BY <1>2, NatMin
<1>4. \A j \in 1 .. m - 1 : run.state[plan[j]] = "DONE"
  BY <1>1, <1>3
<1>5. \E j \in 1 .. Len(plan) + 1 :
        /\ \A k \in 1 .. j - 1 : run.state[plan[k]] = "DONE"
        /\ j <= Len(plan) => run.state[plan[j]] # "DONE"
  BY <1>3, <1>4
<1>. QED
  BY <1>5 DEF ResumeFrom

(* The result of a plan is the output of one of its writing stages. *)
LEMMA FinalIsWritten ==
  ASSUME NEW plan \in Plans, plan # <<>>
  PROVE  \E i \in DOMAIN plan : plan[i] = Final(plan) /\ Final(plan) \in {"chapter", "polish"}
<1>. DEFINE Writing == {i \in DOMAIN plan : plan[i] \in {"chapter", "polish"}}
<1>1. plan \in Seq(StageName) /\ Len(plan) \in Nat /\ DOMAIN plan = 1 .. Len(plan)
  BY PlanAssumption
<1>2. Writing \subseteq 0 .. Len(plan) /\ Writing # {}
  BY <1>1, PlanAssumption
<1>3. PICK m \in Writing : \A x \in Writing : x <= m
  BY <1>1, <1>2, NatMax
<1>4. \A j \in DOMAIN plan : j > m => plan[j] = "outline"
  BY <1>1, <1>3 DEF StageName
<1>5. \E i \in DOMAIN plan :
        /\ plan[i] \in {"chapter", "polish"}
        /\ \A j \in DOMAIN plan : j > i => plan[j] = "outline"
  BY <1>3, <1>4
<1>. QED
  BY <1>5 DEF Final

-----------------------------------------------------------------------------
(* Transactions of the store *)

LEMMA StoreInitType == StoreInit => StoreTypeOK
BY KeepAssumption DEF StoreInit, StoreTypeOK, NoJob, NoChapter, JobRow, ChapterRow, Lease,
   Text, Verdict, ExportStatus, Plans

LEMMA SweptRowType ==
  ASSUME NEW row \in JobRow
  PROVE  SweptRow(row) \in JobRow
BY DEF SweptRow, JobRow, JobStatus, Lease

LEMMA SweptFacts ==
  ASSUME NEW row \in JobRow
  PROVE  /\ SweptRow(row).id = row.id /\ SweptRow(row).attempts = row.attempts
         /\ SweptRow(row).due = row.due
         /\ \/ SweptRow(row).status = row.status
            \/ /\ SweptRow(row).status = "PENDING"
               /\ row.status = "RUNNING" /\ row.lease = "lapsed"
BY DEF SweptRow, JobRow

LEMMA ClaimedRowType ==
  ASSUME NEW row \in JobRow
  PROVE  ClaimedRow(row) \in JobRow
<1>1. OneMore(row.attempts) \in Nat
  BY DEF JobRow, OneMore
<1>. QED
  BY <1>1 DEF ClaimedRow, JobRow, JobStatus, Lease

LEMMA JobStatusType ==
  ASSUME StoreTypeOK, NEW n \in Chapter, NEW status \in JobStatus
  PROVE  [job EXCEPT ![n].status = status] \in [Chapter -> JobRow]
<1>1. job[n] \in JobRow
  BY DEF StoreTypeOK
<1>2. [job[n] EXCEPT !.status = status] \in JobRow
  BY <1>1 DEF JobRow
<1>. QED
  BY <1>2 DEF StoreTypeOK

LEMMA ChapterStatusType ==
  ASSUME StoreTypeOK, NEW n \in Chapter, NEW status \in ChapterStatus
  PROVE  [chapter EXCEPT ![n].status = status] \in [Chapter -> ChapterRow]
<1>1. chapter[n] \in ChapterRow
  BY DEF StoreTypeOK
<1>2. [chapter[n] EXCEPT !.status = status] \in ChapterRow
  BY <1>1 DEF ChapterRow
<1>. QED
  BY <1>2 DEF StoreTypeOK

LEMMA QueueJobType ==
  ASSUME StoreTypeOK, NEW n \in Chapter, QueueJob(n)
  PROVE  StoreTypeOK'
<1>1. CASE UNCHANGED storeVars
  BY <1>1 DEF StoreTypeOK, storeVars, queueVars, textVars, publishVars
<1>2. CASE /\ job' = [job EXCEPT ![n].status = "PENDING"]
           /\ UNCHANGED <<novel, older, textVars, publishVars, bible>>
  BY <1>2, JobStatusType DEF StoreTypeOK, JobStatus, textVars, publishVars
<1>3. CASE /\ job' = [job EXCEPT ![n] = [NoJob EXCEPT !.status = "PENDING"]]
           /\ older' = Youngest(n)
           /\ chapter' = IF chapter[n].status = "ABSENT"
                         THEN [chapter EXCEPT ![n].status = "PENDING"]
                         ELSE chapter
           /\ UNCHANGED <<novel, cleared, publishVars, bible>>
  <2>1. older' \subseteq Chapter \X Chapter
    BY <1>3 DEF Youngest, Jobs, StoreTypeOK
  <2>2. [NoJob EXCEPT !.status = "PENDING"] \in JobRow
    BY DEF JobRow, JobStatus, NoJob, Lease, Plans
  <2>3. job' \in [Chapter -> JobRow]
    BY <1>3, <2>2 DEF StoreTypeOK
  <2>4. chapter' \in [Chapter -> ChapterRow]
    BY <1>3, ChapterStatusType DEF StoreTypeOK, ChapterStatus, ACTIVE
  <2>. QED
    BY <2>1, <2>3, <2>4, <1>3 DEF StoreTypeOK, publishVars
<1>. QED
  BY <1>1, <1>2, <1>3 DEF QueueJob

LEMMA SetJobConfigType ==
  ASSUME StoreTypeOK, NEW n \in Chapter, NEW id, NEW plan \in Plans, SetJobConfig(n, id, plan)
  PROVE  StoreTypeOK'
<1>1. [job[n] EXCEPT !.plan = plan] \in JobRow
  BY DEF StoreTypeOK, JobRow
<1>2. job' \in [Chapter -> JobRow]
  BY <1>1 DEF SetJobConfig, StoreTypeOK
<1>. QED
  BY <1>2 DEF SetJobConfig, StoreTypeOK, textVars, publishVars

LEMMA ClaimJobType ==
  ASSUME StoreTypeOK, NEW n \in Chapter, ClaimJob(n)
  PROVE  StoreTypeOK'
<1>1. \A m \in Chapter : SweptRow(job[m]) \in JobRow
  BY SweptRowType DEF StoreTypeOK
<1>2. ClaimedRow(SweptRow(job[n])) \in JobRow
  BY <1>1, ClaimedRowType
<1>3. job' \in [Chapter -> JobRow]
  BY <1>1, <1>2 DEF ClaimJob
<1>. QED
  BY <1>3 DEF ClaimJob, StoreTypeOK, textVars, publishVars

LEMMA ClaimNoneType ==
  ASSUME StoreTypeOK, ClaimNone
  PROVE  StoreTypeOK'
<1>1. job' \in [Chapter -> JobRow]
  BY SweptRowType DEF StoreTypeOK, ClaimNone
<1>. QED
  BY <1>1 DEF ClaimNone, StoreTypeOK, textVars, publishVars

LEMMA CancelJobType ==
  ASSUME StoreTypeOK, NEW n \in Chapter, CancelJob(n)
  PROVE  StoreTypeOK'
<1>1. [job[n] EXCEPT !.status = "CANCELLED", !.lease = "none"] \in JobRow
  <2>1. job[n] \in JobRow
    BY DEF StoreTypeOK
  <2>. QED
    BY <2>1 DEF JobRow, JobStatus, Lease
<1>2. job' \in [Chapter -> JobRow]
  BY <1>1 DEF CancelJob, StoreTypeOK
<1>3. chapter' \in [Chapter -> ChapterRow]
  BY ChapterStatusType DEF CancelJob, StoreTypeOK, ChapterStatus, TERMINAL
<1>. QED
  BY <1>2, <1>3 DEF CancelJob, StoreTypeOK, publishVars

LEMMA FailJobType ==
  ASSUME StoreTypeOK, NEW n \in Chapter, NEW id, NEW retry \in BOOLEAN, FailJob(n, id, retry)
  PROVE  StoreTypeOK'
<1>. DEFINE outcome == IF retry THEN "PENDING" ELSE "FAILED"
<1>1. [job[n] EXCEPT !.status = outcome, !.lease = "none", !.due = ~retry] \in JobRow
  <2>1. job[n] \in JobRow
    BY DEF StoreTypeOK
  <2>2. outcome \in JobStatus
    BY DEF JobStatus
  <2>3. (~retry) \in BOOLEAN
    OBVIOUS
  <2>. HIDE DEF outcome
  <2>. QED
    BY <2>1, <2>2, <2>3 DEF JobRow, Lease
<1>2. job' \in [Chapter -> JobRow]
  BY <1>1 DEF FailJob, StoreTypeOK
<1>3. outcome \in ChapterStatus
  BY DEF ChapterStatus, ACTIVE
<1>4. chapter' \in [Chapter -> ChapterRow]
  BY <1>3, ChapterStatusType DEF FailJob
<1>. QED
  BY <1>2, <1>4 DEF FailJob, StoreTypeOK, publishVars

LEMMA VoidJobType ==
  ASSUME StoreTypeOK, NEW n \in Chapter, NEW id, VoidJob(n, id)
  PROVE  StoreTypeOK'
BY JobStatusType DEF VoidJob, StoreTypeOK, JobStatus, textVars, publishVars

LEMMA ClearedType ==
  ASSUME StoreTypeOK, NEW n \in Chapter, NEW text \in Text
  PROVE  [cleared EXCEPT ![n] = @ \cup {text}] \in [Chapter -> SUBSET Text]
BY DEF StoreTypeOK

LEMMA SaveGenerationType ==
  ASSUME StoreTypeOK, NEW n \in Chapter, NEW id, NEW text \in Text, NEW passed \in BOOLEAN,
         SaveGeneration(n, id, text, passed)
  PROVE  StoreTypeOK'
<1>1. Append(chapter[n].drafts, text) \in Seq(Text)
  BY DEF StoreTypeOK, ChapterRow
<1>2. [status   |-> IF passed THEN "WAITING_APPROVAL" ELSE "FAILED",
       body     |-> text,
       verdict  |-> IF passed THEN "passed" ELSE "failed",
       reviewed |-> text,
       drafts   |-> Append(chapter[n].drafts, text)] \in ChapterRow
  BY <1>1 DEF ChapterRow, ChapterStatus, Verdict
<1>3. chapter' \in [Chapter -> ChapterRow]
  BY <1>2 DEF SaveGeneration, StoreTypeOK
<1>4. cleared' \in [Chapter -> SUBSET Text]
  BY ClearedType DEF SaveGeneration, StoreTypeOK
<1>5. job' \in [Chapter -> JobRow]
  BY JobStatusType DEF SaveGeneration, StoreTypeOK, JobStatus
<1>. QED
  BY <1>3, <1>4, <1>5 DEF SaveGeneration, StoreTypeOK, publishVars

LEMMA SetPausedType ==
  ASSUME StoreTypeOK, NEW flag \in BOOLEAN, SetPaused(flag)
  PROVE  StoreTypeOK'
BY DEF SetPaused, StoreTypeOK, queueVars, textVars, publishVars

LEMMA AddBibleType ==
  ASSUME StoreTypeOK, NEW version \in Nat, AddBible(version)
  PROVE  bible' \in [version : Nat, rows : SUBSET Nat]
BY DEF AddBible, Pruned, StoreTypeOK

LEMMA UpdateBibleType ==
  ASSUME StoreTypeOK, NEW version \in Nat, UpdateBible(version)
  PROVE  StoreTypeOK'
BY AddBibleType DEF UpdateBible, StoreTypeOK, queueVars, textVars, publishVars

LEMMA SetStatusType ==
  ASSUME StoreTypeOK, NEW n \in Chapter, NEW status \in ChapterStatus, SetStatus(n, status)
  PROVE  StoreTypeOK'
<1>1. chapter' \in [Chapter -> ChapterRow]
  BY ChapterStatusType DEF SetStatus
<1>. QED
  BY <1>1 DEF SetStatus, StoreTypeOK, queueVars, publishVars

LEMMA RecordReviewType ==
  ASSUME StoreTypeOK, NEW n \in Chapter, NEW text \in Text, NEW passed \in BOOLEAN,
         NEW status \in ChapterStatus, RecordReview(n, text, passed, status)
  PROVE  StoreTypeOK'
<1>. DEFINE verdict == IF passed THEN "passed" ELSE "failed"
<1>1. verdict \in Verdict
  BY DEF Verdict
<1>2. chapter[n] \in ChapterRow
  BY DEF StoreTypeOK
<1>3. [chapter[n] EXCEPT !.status = status, !.verdict = verdict, !.reviewed = text] \in ChapterRow
  BY <1>1, <1>2 DEF ChapterRow
<1>4. chapter' \in [Chapter -> ChapterRow]
  BY <1>3 DEF RecordReview, StoreTypeOK
<1>5. cleared' \in [Chapter -> SUBSET Text]
  BY ClearedType DEF RecordReview, StoreTypeOK
<1>. QED
  BY <1>4, <1>5 DEF RecordReview, StoreTypeOK, queueVars, publishVars

LEMMA UpdateDraftType ==
  ASSUME StoreTypeOK, NEW n \in Chapter, NEW text \in Text, NEW saved \in Text,
         UpdateDraft(n, text, saved)
  PROVE  StoreTypeOK'
<1>1. Append(chapter[n].drafts, saved) \in Seq(Text)
  BY DEF StoreTypeOK, ChapterRow
<1>2. [status |-> "REVIEWING", body |-> text, verdict |-> "none", reviewed |-> NoBody,
       drafts |-> Append(chapter[n].drafts, saved)] \in ChapterRow
  BY <1>1 DEF ChapterRow, ChapterStatus, ACTIVE, Verdict, Text
<1>3. chapter' \in [Chapter -> ChapterRow]
  BY <1>2 DEF UpdateDraft, StoreTypeOK
<1>. QED
  BY <1>3 DEF UpdateDraft, StoreTypeOK, queueVars, publishVars

LEMMA ManualPublishType ==
  ASSUME StoreTypeOK, NEW n \in Chapter, NEW p \in Platform, ManualPublish(n, p)
  PROVE  StoreTypeOK'
<1>1. chapter' \in [Chapter -> ChapterRow]
  BY ChapterStatusType DEF ManualPublish, ChapterStatus, TERMINAL
<1>2. records' \in [Chapter -> SUBSET Platform]
  BY DEF ManualPublish, StoreTypeOK
<1>3. bible' \in [version : Nat, rows : SUBSET Nat]
  <2>1. PICK v \in bible.rows : AddBible(v + 1)
    BY DEF ManualPublish
  <2>2. v + 1 \in Nat
    BY DEF StoreTypeOK
  <2>. QED
    BY <2>1, <2>2, AddBibleType
<1>4. novel' \in [paused : BOOLEAN, current : Nat]
  BY ChapterAssumption DEF ManualPublish, StoreTypeOK
<1>. QED
  BY <1>1, <1>2, <1>3, <1>4 DEF ManualPublish, StoreTypeOK, queueVars

LEMMA RewriteChapterType ==
  ASSUME StoreTypeOK, NEW n \in Chapter, RewriteChapter(n)
  PROVE  StoreTypeOK'
<1>1. [NoChapter EXCEPT !.status = "PENDING"] \in ChapterRow
  <2>1. <<>> \in Seq(Text)
    OBVIOUS
  <2>. QED
    BY <2>1 DEF NoChapter, ChapterRow, ChapterStatus, ACTIVE, Text, Verdict
<1>2. chapter' \in [Chapter -> ChapterRow]
  BY <1>1 DEF RewriteChapter, StoreTypeOK
<1>3. job[n].id + 1 \in Nat
  BY DEF StoreTypeOK, JobRow
<1>4. [NoJob EXCEPT !.id = job[n].id + 1, !.status = "PENDING"] \in JobRow
  BY <1>3 DEF NoJob, JobRow, JobStatus, Lease, Plans
<1>5. job' \in [Chapter -> JobRow]
  BY <1>4 DEF RewriteChapter, StoreTypeOK
<1>6. older' \subseteq Chapter \X Chapter
  BY DEF RewriteChapter, Youngest, Jobs, StoreTypeOK
<1>7. exports' \in [Chapter -> [Format -> ExportStatus]]
  BY DEF RewriteChapter, StoreTypeOK, ExportStatus
<1>8. records' \in [Chapter -> SUBSET Platform]
  BY DEF RewriteChapter, StoreTypeOK
<1>. QED
  BY <1>2, <1>5, <1>6, <1>7, <1>8 DEF RewriteChapter, StoreTypeOK

LEMMA SetExportType ==
  ASSUME StoreTypeOK, NEW n \in Chapter, NEW id, NEW f \in Format, NEW status \in ExportStatus,
         SetExport(n, id, f, status)
  PROVE  StoreTypeOK'
BY DEF SetExport, StoreTypeOK, queueVars, textVars

LEMMA CreateExportType ==
  ASSUME StoreTypeOK, NEW n \in Chapter, NEW f \in Format, CreateExport(n, f)
  PROVE  StoreTypeOK'
BY DEF CreateExport, StoreTypeOK, ExportStatus, queueVars, textVars

LEMMA WriteFileType ==
  ASSUME StoreTypeOK, NEW n \in Chapter, NEW f \in Format, NEW text \in Text,
         WriteFile(n, f, text)
  PROVE  StoreTypeOK'
BY DEF WriteFile, StoreTypeOK, queueVars, textVars

LEMMA StoreUnchangedType ==
  ASSUME StoreTypeOK, UNCHANGED storeVars
  PROVE  StoreTypeOK'
BY DEF StoreTypeOK, storeVars, queueVars, textVars, publishVars

-----------------------------------------------------------------------------
(* Steps of the worker.  A busy slot has a chapter; one in the pipeline has *)
(* stages, and one in a stage is at one of them.                            *)

Piped   == {"agent", "load", "resume", "create", "stage", "model", "drafted", "mark"}
InStage == {"stage", "model"}

Placed(slot) ==
  /\ slot.pc \in Busy => slot.n \in Chapter
  /\ slot.pc \in Piped => slot.plan # <<>>
  /\ slot.pc \in InStage => slot.at \in DOMAIN slot.plan

BusyHasChapter == \A w \in Worker : Placed(worker[w])

SlotsOK == WorkerTypeOK /\ BusyHasChapter

LEMMA FreeType ==
  ASSUME NEW pc \in {"ready", "done"}
  PROVE  Free(pc) \in Slot /\ Free(pc).pc \notin Busy /\ Placed(Free(pc))
BY DEF Free, Slot, Text, Busy, Memory, NoMemory, Plans, Placed, Piped, InStage

LEMMA WorkerInitType == WorkerInit => SlotsOK
BY FreeType, WorkerAssumption DEF WorkerInit, SlotsOK, WorkerTypeOK, BusyHasChapter

LEMMA GotoType ==
  ASSUME SlotsOK, NEW w \in Worker, worker[w].pc \in Busy, NEW pc \in Busy, Goto(w, pc),
         pc \in Piped => worker[w].plan # <<>>,
         pc \in InStage => worker[w].at \in DOMAIN worker[w].plan
  PROVE  worker' \in [Worker -> Slot] /\ BusyHasChapter'
<1>1. worker[w] \in Slot /\ worker[w].n \in Chapter
  BY DEF SlotsOK, WorkerTypeOK, BusyHasChapter, Placed
<1>2. [worker[w] EXCEPT !.pc = pc] \in Slot
  BY <1>1 DEF Slot
<1>3. worker' \in [Worker -> Slot]
  BY <1>2 DEF Goto, SlotsOK, WorkerTypeOK
<1>4. BusyHasChapter'
  <2>. SUFFICES ASSUME NEW v \in Worker
               PROVE  Placed(worker'[v])
    BY DEF BusyHasChapter, Placed
  <2>1. CASE v = w
    BY <1>1, <2>1 DEF Goto, SlotsOK, WorkerTypeOK, Slot, Placed
  <2>2. CASE v # w
    BY <2>2 DEF Goto, SlotsOK, WorkerTypeOK, BusyHasChapter
  <2>. QED
    BY <2>1, <2>2
<1>. QED
  BY <1>3, <1>4

LEMMA SlotType ==
  ASSUME SlotsOK, NEW w \in Worker, NEW slot \in Slot, Placed(slot),
         worker' = [worker EXCEPT ![w] = slot]
  PROVE  worker' \in [Worker -> Slot] /\ BusyHasChapter'
BY DEF SlotsOK, WorkerTypeOK, BusyHasChapter, Placed

LEMMA FinishType ==
  ASSUME SlotsOK, NEW w \in Worker, Finish(w)
  PROVE  worker' \in [Worker -> Slot] /\ BusyHasChapter'
<1>1. Free("done") \in Slot /\ Placed(Free("done"))
  BY FreeType
<1>. QED
  BY <1>1, SlotType DEF Finish

LEMMA ReadAttemptsType ==
  ASSUME SlotsOK, StoreTypeOK, NEW w \in Worker, worker[w].pc \in Busy,
         NEW limit \in Nat, NEW by \in {"service", "stage", "loop"}, ReadAttempts(w, limit, by)
  PROVE  worker' \in [Worker -> Slot] /\ BusyHasChapter'
<1>1. PICK retry \in Retries(w, limit) :
        worker' = [worker EXCEPT ![w] = [@ EXCEPT !.pc = "fail", !.retry = retry, !.by = by]]
  BY DEF ReadAttempts
<1>2. retry \in BOOLEAN
  BY DEF Retries
<1>3. worker[w] \in Slot /\ worker[w].n \in Chapter
  BY DEF SlotsOK, WorkerTypeOK, BusyHasChapter, Placed
<1>. DEFINE slot == [worker[w] EXCEPT !.pc = "fail", !.retry = retry, !.by = by]
<1>4. slot \in Slot /\ Placed(slot)
  BY <1>2, <1>3 DEF Slot, Busy, Placed, Piped, InStage
<1>5. worker' = [worker EXCEPT ![w] = slot]
  BY <1>1
<1>. HIDE DEF slot
<1>. QED
  BY <1>4, <1>5, SlotType

LEMMA FinalizeType ==
  ASSUME StoreTypeOK, SlotsOK, NEW w \in Worker, worker[w].pc \in Busy, NEW text \in Text,
         Finalize(w, text)
  PROVE  StoreTypeOK' /\ worker' \in [Worker -> Slot] /\ BusyHasChapter'
<1>. DEFINE slot == [worker[w] EXCEPT !.pc = "save", !.text = text]
<1>1. worker[w] \in Slot /\ worker[w].n \in Chapter
  BY DEF SlotsOK, WorkerTypeOK, BusyHasChapter, Placed
<1>2. slot \in Slot /\ Placed(slot)
  BY <1>1 DEF Slot, Busy, Placed, Piped, InStage
<1>3. worker' = [worker EXCEPT ![w] = slot] /\ SetStatus(worker[w].n, "REVIEWING")
  BY DEF Finalize
<1>4. "REVIEWING" \in ChapterStatus
  BY DEF ChapterStatus, ACTIVE
<1>. HIDE DEF slot
<1>. QED
  BY <1>1, <1>2, <1>3, <1>4, SetStatusType, SlotType

LEMMA FinalizedType ==
  ASSUME SlotsOK, NEW w \in Worker, worker[w].pc \in Busy, Finalized(w)
  PROVE  worker' \in [Worker -> Slot] /\ BusyHasChapter'
<1>1. "mark" \in Busy \ InStage
  BY DEF Busy, InStage
<1>. QED
  BY <1>1, FinishType, GotoType DEF Finalized

LEMMA WorkType ==
  ASSUME StoreTypeOK, SlotsOK, NEW w \in Worker, Work(w)
  PROVE  StoreTypeOK' /\ SlotsOK'
<1>. DEFINE n == worker[w].n
<1>1. worker[w] \in Slot
  BY DEF SlotsOK, WorkerTypeOK
<1>2. worker[w].pc \in Busy => n \in Chapter
  BY DEF SlotsOK, BusyHasChapter, Placed
<1>3. MaxAttempts \in Nat /\ 0 \in Nat
  BY WorkerAssumption
<1>4. SUFFICES StoreTypeOK' /\ worker' \in [Worker -> Slot] /\ BusyHasChapter' /\ faults' = faults
  BY <1>4 DEF SlotsOK, WorkerTypeOK
<1>. HIDE DEF n
<1>5. CASE Claim(w)
  <2>1. faults' = faults
    BY <1>5 DEF Claim
  <2>2. CASE \E m \in Chapter :
               /\ ClaimJob(m)
               /\ worker' = [worker EXCEPT ![w] =
                               [Free("context") EXCEPT !.n = m, !.id = job[m].id,
                                                       !.plan = job[m].plan]]
    <3>1. PICK m \in Chapter :
            /\ ClaimJob(m)
            /\ worker' = [worker EXCEPT ![w] =
                            [Free("context") EXCEPT !.n = m, !.id = job[m].id,
                                                    !.plan = job[m].plan]]
      BY <2>2
    <3>. DEFINE slot == [Free("context") EXCEPT !.n = m, !.id = job[m].id,
                                               !.plan = job[m].plan]
    <3>2. job[m].id \in Nat /\ job[m].plan \in Plans
      BY DEF StoreTypeOK, JobRow
    <3>3. slot \in Slot /\ Placed(slot)
      BY <3>2 DEF Slot, Free, Text, Busy, Memory, NoMemory, Placed, Piped, InStage
    <3>4. worker' = [worker EXCEPT ![w] = slot]
      BY <3>1
    <3>. HIDE DEF slot
    <3>. QED
      BY <2>1, <3>1, <3>3, <3>4, ClaimJobType, SlotType
  <2>3. CASE ClaimNone /\ Finish(w)
    BY <2>1, <2>3, ClaimNoneType, FinishType
  <2>. QED
    BY <1>5, <2>2, <2>3 DEF Claim
<1>6. CASE ReadContext(w)
  <2>. DEFINE slot == [worker[w] EXCEPT !.pc = "plan", !.paused = novel.paused]
  <2>1. n \in Chapter
    BY <1>2, <1>6 DEF ReadContext, At, Busy
  <2>2. slot \in Slot /\ Placed(slot)
    BY <1>1, <2>1 DEF Slot, Busy, StoreTypeOK, n, Placed, Piped, InStage
  <2>3. worker' = [worker EXCEPT ![w] = slot] /\ UNCHANGED storeVars /\ faults' = faults
    BY <1>6 DEF ReadContext
  <2>. HIDE DEF slot
  <2>. QED
    BY <2>2, <2>3, SlotType, StoreUnchangedType
<1>7. CASE StartPlanning(w)
  <2>1. worker[w].pc \in Busy /\ n \in Chapter
    BY <1>2, <1>7 DEF StartPlanning, At, Busy
  <2>2. SetStatus(n, "PLANNING") /\ "PLANNING" \in ChapterStatus /\ faults' = faults
    BY <1>7 DEF StartPlanning, n, ChapterStatus, ACTIVE
  <2>3. \E pc \in Busy \ InStage : Goto(w, pc) /\ (pc \in Piped => worker[w].plan # <<>>)
    BY <1>7 DEF StartPlanning, Busy, InStage, Piped
  <2>. QED
    BY <2>1, <2>2, <2>3, SetStatusType, GotoType
<1>8. CASE VoidChapter(w)
  <2>1. worker[w].pc \in Busy /\ n \in Chapter
    BY <1>2, <1>8 DEF VoidChapter, At, Busy
  <2>2. SetStatus(n, "CANCELLED") /\ "CANCELLED" \in ChapterStatus /\ faults' = faults
    BY <1>8 DEF VoidChapter, n, ChapterStatus, TERMINAL
  <2>3. "voidjob" \in Busy \ (Piped \cup InStage) /\ Goto(w, "voidjob")
    BY <1>8 DEF VoidChapter, Busy, Piped, InStage
  <2>. QED
    BY <2>1, <2>2, <2>3, SetStatusType, GotoType
<1>9. CASE VoidTheJob(w)
  <2>1. n \in Chapter
    BY <1>2, <1>9 DEF VoidTheJob, At, Busy
  <2>. QED
    BY <1>9, <2>1, VoidJobType, FinishType DEF VoidTheJob, n
<1>10. CASE StartGenerating(w)
  <2>1. worker[w].pc \in Busy /\ n \in Chapter
    BY <1>2, <1>10 DEF StartGenerating, At, Busy
  <2>2. SetStatus(n, "GENERATING") /\ "GENERATING" \in ChapterStatus /\ faults' = faults
    BY <1>10 DEF StartGenerating, n, ChapterStatus, ACTIVE
  <2>3. "call" \in Busy \ (Piped \cup InStage) /\ Goto(w, "call")
    BY <1>10 DEF StartGenerating, Busy, Piped, InStage
  <2>. QED
    BY <2>1, <2>2, <2>3, SetStatusType, GotoType
<1>11. CASE StartReviewing(w)
  <2>1. worker[w].pc \in Busy /\ n \in Chapter
    BY <1>2, <1>11 DEF StartReviewing, At, Busy
  <2>2. PICK text \in Body : Finalize(w, text)
    BY <1>11 DEF StartReviewing
  <2>3. text \in Text /\ faults' = faults
    BY <1>11 DEF StartReviewing, Text
  <2>. QED
    BY <2>1, <2>2, <2>3, FinalizeType
<1>12. CASE Save(w)
  <2>1. worker[w].pc \in Busy /\ n \in Chapter
    BY <1>2, <1>12 DEF Save, At, Busy
  <2>2. PICK passed \in BOOLEAN :
          /\ SaveGeneration(n, worker[w].id, worker[w].text, passed)
          /\ IF passed /\ AutoExport THEN Goto(w, "export") ELSE Finalized(w)
    BY <1>12 DEF Save, n
  <2>3. worker[w].text \in Text /\ "export" \in Busy \ (Piped \cup InStage) /\ faults' = faults
    BY <1>1, <1>12 DEF Save, Slot, Busy, Piped, InStage
  <2>4. StoreTypeOK'
    BY <2>1, <2>2, <2>3, SaveGenerationType
  <2>. QED
    BY <2>1, <2>2, <2>3, <2>4, GotoType, FinalizedType
<1>13. CASE AutoRead(w)
  <2>1. worker[w].pc \in Busy /\ n \in Chapter
    BY <1>2, <1>13 DEF AutoRead, At, Busy
  <2>2. UNCHANGED storeVars /\ faults' = faults
    BY <1>13 DEF AutoRead
  <2>3. CASE worker' = [worker EXCEPT ![w] = [@ EXCEPT !.pc = "write", !.text = chapter[n].body]]
    <3>. DEFINE slot == [worker[w] EXCEPT !.pc = "write", !.text = chapter[n].body]
    <3>1. chapter[n].body \in Text
      BY <2>1 DEF StoreTypeOK, ChapterRow
    <3>2. slot \in Slot /\ Placed(slot)
      BY <1>1, <2>1, <3>1 DEF Slot, Busy, n, Placed, Piped, InStage
    <3>3. worker' = [worker EXCEPT ![w] = slot]
      BY <2>3
    <3>. HIDE DEF slot
    <3>. QED
      BY <2>2, <3>2, <3>3, SlotType, StoreUnchangedType
  <2>4. CASE ReadAttempts(w, MaxAttempts, "loop")
    BY <1>3, <2>1, <2>2, <2>4, ReadAttemptsType, StoreUnchangedType
  <2>. QED
    BY <1>13, <2>3, <2>4 DEF AutoRead, n
<1>14. CASE AutoWrite(w)
  <2>1. /\ worker[w].pc \in Busy /\ n \in Chapter
        /\ worker[w].text \in Text /\ Txt \in Format
    BY <1>1, <1>2, <1>14, WorkerAssumption DEF AutoWrite, At, Busy, Slot
  <2>2. WriteFile(n, Txt, worker[w].text) \/ UNCHANGED storeVars
    BY <1>14 DEF AutoWrite, n
  <2>3. Finalized(w) /\ faults' = faults
    BY <1>14 DEF AutoWrite
  <2>. QED
    BY <2>1, <2>2, <2>3, WriteFileType, StoreUnchangedType, FinalizedType
<1>15. CASE CallFails(w)
  <2>1. worker[w].pc \in Busy
    BY <1>15 DEF CallFails, At, Busy
  <2>2. PICK limit \in {0, MaxAttempts} : ReadAttempts(w, limit, "service")
    BY <1>15 DEF CallFails
  <2>3. UNCHANGED storeVars /\ faults' = faults
    BY <1>15 DEF CallFails
  <2>. QED
    BY <1>3, <2>1, <2>2, <2>3, ReadAttemptsType, StoreUnchangedType
<1>16. CASE WriteFailure(w)
  <2>1. worker[w].pc \in Busy /\ n \in Chapter /\ worker[w].retry \in BOOLEAN
    BY <1>1, <1>2, <1>16 DEF WriteFailure, At, Busy, Slot
  <2>2. FailJob(n, worker[w].id, worker[w].retry) /\ faults' = faults
    BY <1>16 DEF WriteFailure, n
  <2>3. Goto(w, "abort") \/ Finish(w)
    BY <1>16 DEF WriteFailure
  <2>4. "abort" \in Busy \ (Piped \cup InStage)
    BY DEF Busy, Piped, InStage
  <2>. QED
    BY <2>1, <2>2, <2>3, <2>4, FailJobType, FinishType, GotoType
<1>. QED
  BY <1>5, <1>6, <1>7, <1>8, <1>9, <1>10, <1>11, <1>12, <1>13, <1>14, <1>15, <1>16 DEF Work

LEMMA RestartType ==
  ASSUME SlotsOK, NEW p,
         worker' = [w \in Worker |-> IF Home[w] = p THEN Free("ready") ELSE worker[w]]
  PROVE  worker' \in [Worker -> Slot] /\ BusyHasChapter'
<1>1. Free("ready") \in Slot /\ Placed(Free("ready"))
  BY FreeType
<1>. QED
  BY <1>1 DEF SlotsOK, WorkerTypeOK, BusyHasChapter

LEMMA WorkerNextType ==
  ASSUME StoreTypeOK, SlotsOK, WorkerNext
  PROVE  StoreTypeOK' /\ SlotsOK'
<1>1. ASSUME NEW w \in Worker, Work(w)
      PROVE  StoreTypeOK' /\ SlotsOK'
  BY <1>1, WorkType
<1>2. ASSUME NEW w \in Worker, Raise(w)
      PROVE  StoreTypeOK' /\ SlotsOK'
  <2>1. worker' \in [Worker -> Slot] /\ BusyHasChapter'
    BY <1>2, WorkerAssumption, FinishType, ReadAttemptsType DEF Raise
  <2>2. faults' \in Nat
    BY <1>2 DEF Raise, Fault, SlotsOK, WorkerTypeOK
  <2>. QED
    BY <1>2, <2>1, <2>2, StoreUnchangedType DEF Raise, SlotsOK, WorkerTypeOK
<1>3. ASSUME NEW p \in Process, Kill(p) \/ NextPass(p)
      PROVE  StoreTypeOK' /\ SlotsOK'
  <2>1. worker' \in [Worker -> Slot] /\ BusyHasChapter'
    BY <1>3, RestartType DEF Kill, NextPass
  <2>2. faults' \in Nat
    BY <1>3 DEF Kill, NextPass, Fault, SlotsOK, WorkerTypeOK
  <2>3. StoreTypeOK'
    BY <1>3, StoreUnchangedType DEF Kill, NextPass
  <2>. QED
    BY <2>1, <2>2, <2>3 DEF SlotsOK, WorkerTypeOK
<1>4. ASSUME NEW n \in Chapter, BackoffElapses(n) \/ LeaseLapses(n) \/ Overrun(n)
      PROVE  StoreTypeOK' /\ SlotsOK'
  <2>1. job' \in [Chapter -> JobRow]
    <3>1. job[n] \in JobRow
      BY DEF StoreTypeOK
    <3>2. [job[n] EXCEPT !.due = TRUE] \in JobRow /\ [job[n] EXCEPT !.lease = "lapsed"] \in JobRow
      BY <3>1 DEF JobRow, Lease
    <3>3. \/ job' = [job EXCEPT ![n] = [job[n] EXCEPT !.due = TRUE]]
          \/ job' = [job EXCEPT ![n] = [job[n] EXCEPT !.lease = "lapsed"]]
      BY <1>4 DEF BackoffElapses, LeaseLapses, Overrun, Lapse
    <3>. QED
      BY <3>2, <3>3 DEF StoreTypeOK
  <2>2. worker' = worker /\ faults' \in Nat
    BY <1>4 DEF BackoffElapses, LeaseLapses, Overrun, Lapse, Fault, SlotsOK, WorkerTypeOK, workerVars
  <2>3. StoreTypeOK'
    BY <1>4, <2>1 DEF BackoffElapses, LeaseLapses, Overrun, Lapse, StoreTypeOK, textVars, publishVars
  <2>. QED
    BY <2>2, <2>3 DEF SlotsOK, WorkerTypeOK, BusyHasChapter
<1>. QED
  BY <1>1, <1>2, <1>3, <1>4 DEF WorkerNext

-----------------------------------------------------------------------------
(* Steps of the pipeline *)

LEMMA RunsInitType == RunsInit => RunsTypeOK
BY DEF RunsInit, RunsTypeOK

LEMMA UpdateRunType ==
  ASSUME RunsTypeOK, NEW k, NEW row, k \in DOMAIN runs => row \in Run, UpdateRun(k, row)
  PROVE  RunsTypeOK'
BY DEF RunsTypeOK, UpdateRun

LEMMA InsertRunType ==
  ASSUME RunsTypeOK, NEW k \in JobId, NEW plan \in Plans, InsertRun(k, plan)
  PROVE  RunsTypeOK'
<1>. DEFINE row == [status |-> "PENDING", stages |-> plan,
                   state |-> [s \in StageName |-> "NONE"], saved |-> {},
                   memory |-> NoMemory]
<1>1. row \in Run
  BY DEF Run, RunStatus, StageState, Memory, NoMemory, Text
<1>2. runs' = [j \in DOMAIN runs \cup {k} |-> IF j = k THEN row ELSE runs[j]]
  BY DEF InsertRun
<1>. HIDE DEF row
<1>. QED
  BY <1>1, <1>2 DEF RunsTypeOK

LEMMA StartedType ==
  ASSUME NEW run \in Run, NEW s
  PROVE  Started(run, s) \in Run
<1>1. [run.state EXCEPT ![s] = "RUNNING"] \in [StageName -> StageState]
  BY DEF Run, StageState
<1>. QED
  BY <1>1 DEF Started, Run, RunStatus

LEMMA SavedType ==
  ASSUME NEW run \in Run, NEW s \in StageName, NEW memory \in Memory
  PROVE  Saved(run, s, memory) \in Run
<1>1. [run.state EXCEPT ![s] = "DONE"] \in [StageName -> StageState]
  BY DEF Run, StageState
<1>2. run.saved \cup {s} \in SUBSET StageName
  BY DEF Run
<1>. QED
  BY <1>1, <1>2 DEF Saved, Run

(* A slot that reads the checkpoints of a run found it.  Only the pipeline  *)
(* takes a slot there.                                                      *)
Reading == {"load", "resume"}
Inner   == Reading \cup {"create", "stage", "model", "drafted"}

ReadersHaveRun == \A w \in Worker : worker[w].pc \in Reading => Existent(w)

(* A slot that a step changes is where the step puts it. *)
LEMMA SlotLeaves ==
  ASSUME SlotsOK, NEW w \in Worker, NEW slot, worker' = [worker EXCEPT ![w] = slot],
         NEW v \in Worker
  PROVE  worker'[v] \in {worker[v], slot}
BY DEF SlotsOK, WorkerTypeOK

LEMMA GotoLeaves ==
  ASSUME SlotsOK, NEW w \in Worker, NEW pc, Goto(w, pc), NEW v \in Worker
  PROVE  worker'[v] = worker[v] \/ worker'[v].pc = pc
BY DEF Goto, SlotsOK, WorkerTypeOK, Slot

LEMMA FinishLeaves ==
  ASSUME SlotsOK, NEW w \in Worker, Finish(w), NEW v \in Worker
  PROVE  worker'[v] = worker[v] \/ worker'[v].pc = "done"
BY SlotLeaves DEF Finish, Free

LEMMA ReadAttemptsLeaves ==
  ASSUME SlotsOK, NEW w \in Worker, NEW limit, NEW by, ReadAttempts(w, limit, by),
         NEW v \in Worker
  PROVE  worker'[v] = worker[v] \/ worker'[v].pc = "fail"
<1>1. PICK retry :
        worker' = [worker EXCEPT ![w] = [@ EXCEPT !.pc = "fail", !.retry = retry, !.by = by]]
  BY DEF ReadAttempts
<1>. QED
  BY <1>1 DEF SlotsOK, WorkerTypeOK, Slot

LEMMA FinalizeLeaves ==
  ASSUME SlotsOK, NEW w \in Worker, NEW text, Finalize(w, text), NEW v \in Worker
  PROVE  worker'[v] = worker[v] \/ worker'[v].pc = "save"
BY DEF Finalize, SlotsOK, WorkerTypeOK, Slot

LEMMA GoOnLeaves ==
  ASSUME SlotsOK, NEW w \in Worker, NEW i, NEW memory, GoOn(w, i, memory), NEW v \in Worker
  PROVE  worker'[v] = worker[v] \/ worker'[v].pc \in {"drafted", "stage"}
BY DEF GoOn, SlotsOK, WorkerTypeOK, Slot

(* The worker's own steps take no slot into the pipeline. *)
LEMMA WorkLeaves ==
  ASSUME SlotsOK, NEW w \in Worker, Work(w), NEW v \in Worker, worker'[v].pc \in Inner
  PROVE  worker'[v] = worker[v]
<1>. DEFINE Claimed ==
             \E n \in Chapter :
               worker' = [worker EXCEPT ![w] =
                            [Free("context") EXCEPT !.n = n, !.id = job[n].id,
                                                    !.plan = job[n].plan]]
<1>1. CASE Claimed
  BY <1>1 DEF Free, Inner, Reading, SlotsOK, WorkerTypeOK
<1>2. CASE ReadContext(w)
  BY <1>2 DEF ReadContext, Inner, Reading, SlotsOK, WorkerTypeOK, Slot
<1>3. CASE AutoRead(w)
  <2>1. CASE worker' = [worker EXCEPT
                          ![w] = [@ EXCEPT !.pc = "write", !.text = chapter[worker[w].n].body]]
    BY <2>1 DEF Inner, Reading, SlotsOK, WorkerTypeOK, Slot
  <2>. QED
    BY <1>3, <2>1, ReadAttemptsLeaves DEF AutoRead, Inner, Reading
<1>4. \/ Claimed \/ ReadContext(w) \/ AutoRead(w)
      \/ \E pc : pc \notin Inner /\ Goto(w, pc)
      \/ Finish(w)
      \/ \E text : Finalize(w, text)
      \/ \E limit, by : ReadAttempts(w, limit, by)
  BY DEF Work, Claim, StartPlanning, VoidChapter, VoidTheJob, StartGenerating, StartReviewing,
     Save, Finalized, AutoWrite, CallFails, WriteFailure, Inner, Reading
<1>. HIDE DEF Claimed
<1>5. "done" \notin Inner /\ "save" \notin Inner /\ "fail" \notin Inner
  BY DEF Inner, Reading
<1>. QED
  BY <1>1, <1>2, <1>3, <1>4, <1>5, GotoLeaves, FinishLeaves, FinalizeLeaves, ReadAttemptsLeaves

LEMMA WorkerLeaves ==
  ASSUME SlotsOK, WorkerNext, NEW v \in Worker, worker'[v].pc \in Inner
  PROVE  worker'[v] = worker[v]
<1>1. ASSUME NEW w \in Worker, Raise(w)
      PROVE  worker'[v] = worker[v]
  BY <1>1, FinishLeaves, ReadAttemptsLeaves DEF Raise, Inner, Reading
<1>2. ASSUME NEW p \in Process, Kill(p) \/ NextPass(p)
      PROVE  worker'[v] = worker[v]
  <2>1. worker'[v] = Free("ready") \/ worker'[v] = worker[v]
    BY <1>2 DEF Kill, NextPass
  <2>. QED
    BY <2>1 DEF Free, Inner, Reading
<1>3. ASSUME NEW n \in Chapter, BackoffElapses(n) \/ LeaseLapses(n) \/ Overrun(n)
      PROVE  worker' = worker
  BY <1>3 DEF BackoffElapses, LeaseLapses, Overrun, Lapse, workerVars
<1>. QED
  BY <1>1, <1>2, <1>3, WorkLeaves DEF WorkerNext

LEMMA GoOnType ==
  ASSUME SlotsOK, NEW w \in Worker, worker[w].pc \in Piped,
         NEW i \in 1 .. Len(worker[w].plan) + 1, NEW memory \in Memory, GoOn(w, i, memory)
  PROVE  worker' \in [Worker -> Slot] /\ BusyHasChapter'
<1>. DEFINE pc   == IF i > Len(worker[w].plan) THEN "drafted" ELSE "stage"
           slot == [worker[w] EXCEPT !.pc = pc, !.at = i, !.memory = memory]
<1>1. /\ worker[w] \in Slot /\ worker[w].n \in Chapter
      /\ worker[w].plan \in Plans /\ worker[w].plan # <<>>
  BY DEF SlotsOK, WorkerTypeOK, BusyHasChapter, Placed, Busy, Piped, Slot
<1>2. worker[w].plan \in Seq(StageName) /\ i \in Nat
  BY <1>1, PlanAssumption
<1>3. pc \in {"drafted", "stage"} /\ (pc = "stage" => i \in DOMAIN worker[w].plan)
  BY <1>2
<1>. HIDE DEF pc
<1>4. slot \in Slot /\ Placed(slot)
  BY <1>1, <1>2, <1>3 DEF Slot, Busy, Placed, Piped, InStage
<1>5. worker' = [worker EXCEPT ![w] = slot]
  BY DEF GoOn, Stages, pc
<1>. HIDE DEF slot
<1>. QED
  BY <1>4, <1>5, SlotType

LEMMA PipelineType ==
  ASSUME StoreTypeOK, SlotsOK, RunsTypeOK, ReadersHaveRun, NEW w \in Worker, Pipeline(w)
  PROVE  StoreTypeOK' /\ SlotsOK' /\ RunsTypeOK'
<1>. DEFINE plan == worker[w].plan
           run  == runs[KeyOf(w)]
<1>1. SUFFICES /\ StoreTypeOK' /\ RunsTypeOK' /\ faults' = faults
               /\ worker' \in [Worker -> Slot] /\ BusyHasChapter'
  BY <1>1 DEF SlotsOK, WorkerTypeOK
<1>2. /\ worker[w].pc \in Piped \cup {"abort"} /\ worker[w].pc \in Busy
      /\ faults' = faults
  BY DEF Pipeline, FindRun, LoadMemory, Resume, CreateRun, StartStage, FinishStage, StageFails,
     Abort, StartFinalize, NoResult, MarkSucceeded, At, Piped, Busy
<1>3. /\ worker[w] \in Slot /\ worker[w].n \in Chapter /\ plan \in Plans
      /\ worker[w].memory \in Memory /\ KeyOf(w) \in JobId
  BY <1>2 DEF SlotsOK, WorkerTypeOK, BusyHasChapter, Placed, Slot, KeyOf, JobId
<1>4. /\ worker[w].pc \in Piped => plan # <<>>
      /\ worker[w].pc \in InStage => worker[w].at \in DOMAIN plan
      /\ plan \in Seq(StageName)
  BY <1>3, PlanAssumption DEF SlotsOK, BusyHasChapter, Placed
<1>5. KeyOf(w) \in DOMAIN runs => run \in Run
  BY DEF RunsTypeOK
<1>6. MaxAttempts \in Nat /\ 0 \in Nat
  BY WorkerAssumption
<1>7. ASSUME UNCHANGED runs
      PROVE  RunsTypeOK'
  BY <1>7 DEF RunsTypeOK
<1>. HIDE DEF plan, run
<1>8. CASE FindRun(w)
  <2>1. UNCHANGED <<storeVars, runs>>
    BY <1>8 DEF FindRun
  <2>2. CASE Finish(w)
    BY <1>2, <1>7, <2>1, <2>2, FinishType, StoreUnchangedType
  <2>3. CASE (Goto(w, "create") \/ Goto(w, "load")) /\ worker[w].pc \in Piped
    <3>1. "create" \in Busy \ InStage /\ "load" \in Busy \ InStage
      BY DEF Busy, InStage
    <3>. QED
      BY <1>2, <1>4, <1>7, <2>1, <2>3, <3>1, GotoType, StoreUnchangedType DEF plan
  <2>. QED
    BY <1>8, <2>2, <2>3 DEF FindRun, At, Piped
<1>16. CASE LoadMemory(w)
  <2>. DEFINE slot == [worker[w] EXCEPT !.pc = "resume", !.memory = Loaded(run)]
  <2>1. worker[w].pc = "load" /\ UNCHANGED <<storeVars, runs>>
    BY <1>16 DEF LoadMemory, At
  <2>2. Loaded(run) \in Memory
    BY <1>5, <2>1 DEF ReadersHaveRun, Reading, Existent, Loaded, Run
  <2>3. plan # <<>>
    BY <1>4, <2>1 DEF Piped
  <2>4. slot \in Slot /\ Placed(slot)
    BY <1>3, <2>2, <2>3 DEF Slot, Busy, Placed, Piped, InStage, plan
  <2>5. worker' = [worker EXCEPT ![w] = slot]
    BY <1>16 DEF LoadMemory, run
  <2>. HIDE DEF slot
  <2>. QED
    BY <1>2, <1>7, <2>1, <2>4, <2>5, SlotType, StoreUnchangedType
<1>17. CASE Resume(w)
  <2>1. worker[w].pc \in Piped /\ UNCHANGED <<storeVars, runs>>
    BY <1>17 DEF Resume, At, Piped
  <2>2. GoOn(w, ResumeFrom(run, plan), worker[w].memory)
    BY <1>17 DEF Resume, Stages, plan, run
  <2>3. ResumeFrom(run, plan) \in 1 .. Len(plan) + 1
    BY <1>4, ResumeFromFirst
  <2>. QED
    BY <1>2, <1>3, <1>7, <2>1, <2>2, <2>3, GoOnType, StoreUnchangedType DEF plan
<1>9. CASE CreateRun(w)
  <2>1. worker[w].pc \in Piped /\ UNCHANGED storeVars
    BY <1>9 DEF CreateRun, At, Piped
  <2>2. CASE InsertRun(KeyOf(w), plan) /\ GoOn(w, 1, NoMemory)
    <3>1. RunsTypeOK'
      BY <1>3, <2>2, InsertRunType
    <3>2. 1 \in 1 .. Len(plan) + 1
      BY <1>4
    <3>3. NoMemory \in Memory
      BY DEF NoMemory, Memory, Text
    <3>. QED
      BY <1>2, <2>1, <2>2, <3>1, <3>2, <3>3, GoOnType, StoreUnchangedType DEF plan
  <2>3. CASE Crash(w) /\ UNCHANGED runs
    BY <1>2, <1>6, <1>7, <2>1, <2>3, ReadAttemptsType, StoreUnchangedType DEF Crash
  <2>. QED
    BY <1>9, <2>2, <2>3 DEF CreateRun, Stages, plan
<1>10. CASE StartStage(w)
  <2>1. Goto(w, "model") /\ worker[w].pc \in InStage /\ UNCHANGED storeVars
    BY <1>10 DEF StartStage, At, InStage
  <2>2. RunsTypeOK'
    BY <1>5, <1>10, StartedType, UpdateRunType DEF StartStage, run
  <2>3. "model" \in Busy /\ plan # <<>>
    BY <1>4, <2>1 DEF Busy, InStage, Piped
  <2>. QED
    BY <1>2, <1>4, <2>1, <2>2, <2>3, GotoType, StoreUnchangedType DEF plan
<1>11. CASE FinishStage(w)
  <2>1. worker[w].pc \in Piped \cap InStage /\ UNCHANGED storeVars
    BY <1>11 DEF FinishStage, At, Piped, InStage
  <2>2. CASE Crash(w) /\ UNCHANGED runs
    BY <1>2, <1>6, <1>7, <2>1, <2>2, ReadAttemptsType, StoreUnchangedType DEF Crash
  <2>3. CASE \E output \in Body :
               LET memory == [worker[w].memory EXCEPT ![Current(w)] = output] IN
               /\ UpdateRun(KeyOf(w), Saved(run, Current(w), memory))
               /\ GoOn(w, worker[w].at + 1, memory)
    <3>1. PICK output \in Body :
            LET memory == [worker[w].memory EXCEPT ![Current(w)] = output] IN
            /\ UpdateRun(KeyOf(w), Saved(run, Current(w), memory))
            /\ GoOn(w, worker[w].at + 1, memory)
      BY <2>3
    <3>. DEFINE memory == [worker[w].memory EXCEPT ![Current(w)] = output]
    <3>2. memory \in Memory
      BY <1>3 DEF Memory, Text
    <3>3. Current(w) \in StageName /\ worker[w].at + 1 \in 1 .. Len(plan) + 1
      BY <1>4, <2>1 DEF Current, Stages, plan
    <3>4. UpdateRun(KeyOf(w), Saved(run, Current(w), memory)) /\ GoOn(w, worker[w].at + 1, memory)
      BY <3>1
    <3>. HIDE DEF memory
    <3>5. RunsTypeOK'
      BY <1>5, <3>2, <3>3, <3>4, SavedType, UpdateRunType
    <3>. QED
      BY <1>2, <2>1, <3>2, <3>3, <3>4, <3>5, GoOnType, StoreUnchangedType DEF plan
  <2>. QED
    BY <1>11, <2>2, <2>3 DEF FinishStage, run
<1>12. CASE StageFails(w)
  BY <1>2, <1>6, <1>7, <1>12, ReadAttemptsType, StoreUnchangedType DEF StageFails
<1>13. CASE Abort(w)
  BY <1>2, <1>6, <1>7, <1>13, ReadAttemptsType, StoreUnchangedType DEF Abort, Crash
<1>14. CASE StartFinalize(w)
  <2>1. plan # <<>> /\ Finalize(w, worker[w].memory[Final(plan)]) /\ UNCHANGED runs
    BY <1>4, <1>14 DEF StartFinalize, At, Piped, Stages, plan
  <2>2. Final(plan) \in StageName
    BY <1>3, <2>1, FinalIsWritten DEF StageName
  <2>3. worker[w].memory[Final(plan)] \in Text
    BY <1>3, <2>2 DEF Memory
  <2>. QED
    BY <1>2, <1>7, <2>1, <2>3, FinalizeType
<1>15. CASE MarkSucceeded(w)
  <2>1. KeyOf(w) \in DOMAIN runs => [run EXCEPT !.status = "SUCCEEDED"] \in Run
    BY <1>5 DEF Run, RunStatus
  <2>2. RunsTypeOK'
    BY <1>15, <2>1, UpdateRunType DEF MarkSucceeded, run
  <2>. QED
    BY <1>2, <1>15, <2>2, FinishType, StoreUnchangedType DEF MarkSucceeded
<1>18. CASE NoResult(w)
  <2>1. KeyOf(w) \in DOMAIN runs => [run EXCEPT !.status = "FAILED"] \in Run
    BY <1>5 DEF Run, RunStatus
  <2>2. RunsTypeOK'
    BY <1>18, <2>1, UpdateRunType DEF NoResult, run
  <2>. QED
    BY <1>2, <1>18, <2>2, FinishType, StoreUnchangedType DEF NoResult
<1>. QED
  BY <1>8, <1>9, <1>10, <1>11, <1>12, <1>13, <1>14, <1>15, <1>16, <1>17, <1>18 DEF Pipeline

LEMMA PipelineReaders ==
  ASSUME SlotsOK, ReadersHaveRun, NEW w \in Worker, Pipeline(w)
  PROVE  ReadersHaveRun'
<1>1. DOMAIN runs \subseteq DOMAIN runs'
  BY DEF Pipeline, FindRun, LoadMemory, Resume, CreateRun, StartStage, FinishStage, StageFails,
     Abort, StartFinalize, NoResult, MarkSucceeded, InsertRun, UpdateRun
<1>. SUFFICES ASSUME NEW v \in Worker, worker'[v].pc \in Reading
             PROVE  KeyOf(v)' \in DOMAIN runs'
  BY DEF ReadersHaveRun, Existent
<1>2. CASE worker'[v] = worker[v]
  <2>1. KeyOf(v)' = KeyOf(v) /\ worker[v].pc \in Reading
    BY <1>2 DEF KeyOf
  <2>. QED
    BY <1>1, <2>1 DEF ReadersHaveRun, Existent
<1>3. CASE FindRun(w)
  <2>1. CASE Goto(w, "load") /\ Existent(w)
    <3>1. CASE v = w
      <4>1. KeyOf(v)' = KeyOf(w)
        BY <2>1, <3>1 DEF Goto, KeyOf, SlotsOK, WorkerTypeOK, Slot
      <4>. QED
        BY <1>1, <2>1, <4>1 DEF Existent
    <3>2. CASE v # w
      BY <1>2, <2>1, <3>2 DEF Goto, SlotsOK, WorkerTypeOK
    <3>. QED
      BY <3>1, <3>2
  <2>. QED
    BY <1>2, <1>3, <2>1, FinishLeaves, GotoLeaves DEF FindRun, Resumable, Reading
<1>4. CASE LoadMemory(w)
  <2>1. CASE v = w
    <3>1. KeyOf(v)' = KeyOf(w)
      BY <1>4, <2>1 DEF LoadMemory, KeyOf, SlotsOK, WorkerTypeOK, Slot
    <3>2. KeyOf(w) \in DOMAIN runs
      BY <1>4 DEF LoadMemory, At, ReadersHaveRun, Reading, Existent
    <3>. QED
      BY <1>1, <3>1, <3>2
  <2>2. CASE v # w
    BY <1>2, <1>4, <2>2 DEF LoadMemory, SlotsOK, WorkerTypeOK
  <2>. QED
    BY <2>1, <2>2
<1>5. ASSUME NEW i, NEW memory, GoOn(w, i, memory)
      PROVE  worker'[v] = worker[v]
  BY <1>5, GoOnLeaves DEF Reading
<1>6. \/ FindRun(w) \/ LoadMemory(w)
      \/ \E i, memory : GoOn(w, i, memory)
      \/ \E limit, by : ReadAttempts(w, limit, by)
      \/ Finish(w) \/ Goto(w, "model")
      \/ \E text : Finalize(w, text)
  BY DEF Pipeline, Resume, CreateRun, Crash, StartStage, FinishStage, StageFails, Abort,
     StartFinalize, NoResult, MarkSucceeded
<1>. QED
  BY <1>2, <1>3, <1>4, <1>5, <1>6, ReadAttemptsLeaves, FinishLeaves, GotoLeaves, FinalizeLeaves
  DEF Reading

-----------------------------------------------------------------------------
(* Steps of the console.  An open request on a chapter holds its number,    *)
(* an open export its format, a review the status it will write.            *)

Exporting == {"export.create", "export.write", "export.complete", "export.record"}

OpenHasChapter ==
  \A r \in Request :
    /\ request[r].step \notin {"idle", "bible"} => request[r].n \in Chapter
    /\ request[r].step \in Exporting => request[r].fmt \in Format
    /\ request[r].step = "review.write" => request[r].status \in ChapterStatus

ThreadsOK == ConsoleTypeOK /\ OpenHasChapter

Sound(thread) ==
  /\ thread.step \notin {"idle", "bible"} => thread.n \in Chapter
  /\ thread.step \in Exporting => thread.fmt \in Format
  /\ thread.step = "review.write" => thread.status \in ChapterStatus

LEMMA IdleType == Idle \in Thread /\ Sound(Idle)
BY DEF Idle, Thread, Step, Text, Sound, Exporting

LEMMA ConsoleInitType == ConsoleInit => ThreadsOK
BY IdleType, ConsoleAssumption DEF ConsoleInit, ThreadsOK, ConsoleTypeOK, OpenHasChapter, Sound

LEMMA ThreadType ==
  ASSUME ThreadsOK, NEW r \in Request, NEW thread \in Thread, Sound(thread),
         request' = [request EXCEPT ![r] = thread], budget' \in Nat, UNCHANGED outages
  PROVE  ThreadsOK'
BY DEF ThreadsOK, ConsoleTypeOK, OpenHasChapter, Sound

LEMMA AcceptType ==
  ASSUME ThreadsOK, NEW r \in Request, NEW thread \in Thread, Sound(thread), NEW op,
         Accept(r, op, thread)
  PROVE  ThreadsOK'
<1>1. budget' \in Nat
  BY DEF Accept, ThreadsOK, ConsoleTypeOK
<1>. QED
  BY <1>1, ThreadType DEF Accept

LEMMA AnswerType ==
  ASSUME ThreadsOK, NEW r \in Request, NEW step, Answer(r, step)
  PROVE  ThreadsOK'
<1>1. budget' \in Nat
  BY DEF Answer, ThreadsOK, ConsoleTypeOK
<1>. QED
  BY <1>1, IdleType, ThreadType DEF Answer

LEMMA ProceedType ==
  ASSUME ThreadsOK, NEW r \in Request, NEW step \in Step \ {"idle", "bible"},
         NEW next \in Step \ {"review.write"}, next \in Exporting => step \in Exporting,
         Proceed(r, step, next)
  PROVE  ThreadsOK'
<1>1. request[r] \in Thread /\ Sound(request[r]) /\ request[r].step = step /\ budget' \in Nat
  BY DEF Proceed, ThreadsOK, ConsoleTypeOK, OpenHasChapter, Sound
<1>. DEFINE thread == [request[r] EXCEPT !.step = next]
<1>2. thread \in Thread
  BY <1>1 DEF Thread
<1>3. Sound(thread)
  BY <1>1 DEF Thread, Sound
<1>4. request' = [request EXCEPT ![r] = thread] /\ UNCHANGED outages
  BY DEF Proceed
<1>. HIDE DEF thread
<1>. QED
  BY <1>1, <1>2, <1>3, <1>4, ThreadType

LEMMA BeginType ==
  ASSUME StoreTypeOK, ThreadsOK, NEW r \in Request, Begin(r)
  PROVE  StoreTypeOK' /\ ThreadsOK'
<1>1. Idle \in Thread /\ Sound(Idle)
  BY IdleType
<1>2. CASE Continue(r)
  <2>1. PICK plans \in Config :
          Accept(r, "continue", [Idle EXCEPT !.step = "continue.gate",
                                             !.n = novel.current + 1, !.plans = plans])
    BY <1>2 DEF Continue
  <2>. DEFINE thread == [Idle EXCEPT !.step = "continue.gate", !.n = novel.current + 1,
                                    !.plans = plans]
  <2>2. novel.current + 1 \in Chapter /\ SetPaused(FALSE) /\ Accept(r, "continue", thread)
    BY <1>2, <2>1 DEF Continue
  <2>3. plans \subseteq Plans
    BY DEF Config, Plans
  <2>4. thread \in Thread /\ Sound(thread)
    BY <1>1, <2>2, <2>3 DEF Idle, Thread, Step, Sound, Exporting
  <2>. HIDE DEF thread
  <2>. QED
    BY <2>2, <2>4, AcceptType, SetPausedType
<1>3. CASE Pause(r)
  BY <1>1, <1>3, AcceptType, SetPausedType DEF Pause
<1>4. CASE EditBible(r)
  <2>1. PICK v \in bible.rows :
          Accept(r, "bible", [Idle EXCEPT !.step = "bible", !.num = v + 1])
    BY <1>4 DEF EditBible
  <2>. DEFINE thread == [Idle EXCEPT !.step = "bible", !.num = v + 1]
  <2>2. v + 1 \in Nat
    BY DEF StoreTypeOK
  <2>3. thread \in Thread /\ Sound(thread)
    BY <1>1, <2>2 DEF Idle, Thread, Step, Sound, Exporting
  <2>4. Accept(r, "bible", thread)
    BY <2>1
  <2>. HIDE DEF thread
  <2>. QED
    BY <1>4, <2>3, <2>4, AcceptType, StoreUnchangedType DEF EditBible
<1>5. ASSUME NEW n \in Chapter, Generate(r, n)
      PROVE  StoreTypeOK' /\ ThreadsOK'
  <2>1. PICK plans \in Config :
          Accept(r, "generate", [Idle EXCEPT !.step = "queue", !.n = n, !.plans = plans])
    BY <1>5 DEF Generate
  <2>. DEFINE thread == [Idle EXCEPT !.step = "queue", !.n = n, !.plans = plans]
  <2>2. plans \subseteq Plans
    BY DEF Config, Plans
  <2>3. thread \in Thread /\ Sound(thread)
    BY <1>1, <2>2 DEF Idle, Thread, Step, Sound, Exporting
  <2>4. Accept(r, "generate", thread) /\ UNCHANGED storeVars
    BY <1>5, <2>1 DEF Generate
  <2>. HIDE DEF thread
  <2>. QED
    BY <2>3, <2>4, AcceptType, StoreUnchangedType
<1>6. ASSUME NEW n \in Chapter, Cancel(r, n)
      PROVE  StoreTypeOK' /\ ThreadsOK'
  BY <1>1, <1>6, AcceptType, CancelJobType DEF Cancel
<1>7. ASSUME NEW n \in Chapter, Review(r, n)
      PROVE  StoreTypeOK' /\ ThreadsOK'
  <2>1. PICK passed \in BOOLEAN :
          Accept(r, "review", [Idle EXCEPT !.step = "review.status", !.n = n,
                                           !.text = chapter[n].body, !.ok = passed])
    BY <1>7 DEF Review
  <2>. DEFINE thread == [Idle EXCEPT !.step = "review.status", !.n = n,
                                    !.text = chapter[n].body, !.ok = passed]
  <2>2. chapter[n].body \in Text
    BY DEF StoreTypeOK, ChapterRow
  <2>3. thread \in Thread /\ Sound(thread)
    BY <1>1, <2>2 DEF Idle, Thread, Step, Sound, Exporting
  <2>4. Accept(r, "review", thread) /\ UNCHANGED storeVars
    BY <1>7, <2>1 DEF Review
  <2>. HIDE DEF thread
  <2>. QED
    BY <2>3, <2>4, AcceptType, StoreUnchangedType
<1>8. ASSUME NEW n \in Chapter, Approve(r, n)
      PROVE  StoreTypeOK' /\ ThreadsOK'
  <2>. DEFINE thread == [Idle EXCEPT !.step = "approve", !.n = n]
  <2>1. thread \in Thread /\ Sound(thread)
    BY <1>1 DEF Idle, Thread, Step, Sound, Exporting
  <2>2. Accept(r, "approve", thread) /\ UNCHANGED storeVars
    BY <1>8 DEF Approve
  <2>. HIDE DEF thread
  <2>. QED
    BY <2>1, <2>2, AcceptType, StoreUnchangedType
<1>9. ASSUME NEW n \in Chapter, EditTitle(r, n)
      PROVE  StoreTypeOK' /\ ThreadsOK'
  <2>. DEFINE thread == [Idle EXCEPT !.step = "edit", !.n = n, !.saved = chapter[n].body]
  <2>1. chapter[n].body \in Text
    BY DEF StoreTypeOK, ChapterRow
  <2>2. thread \in Thread /\ Sound(thread)
    BY <1>1, <2>1 DEF Idle, Thread, Step, Sound, Exporting
  <2>3. Accept(r, "retitle", thread) /\ UNCHANGED storeVars
    BY <1>9 DEF EditTitle
  <2>. HIDE DEF thread
  <2>. QED
    BY <2>2, <2>3, AcceptType, StoreUnchangedType
<1>10. ASSUME NEW n \in Chapter, NEW text \in Text, NEW op,
              Accept(r, op, [Idle EXCEPT !.step = "edit", !.n = n, !.text = text,
                                         !.saved = text, !.ok = TRUE])
       PROVE  ThreadsOK'
  <2>. DEFINE thread == [Idle EXCEPT !.step = "edit", !.n = n, !.text = text,
                                    !.saved = text, !.ok = TRUE]
  <2>1. thread \in Thread /\ Sound(thread)
    BY <1>1 DEF Idle, Thread, Step, Sound, Exporting
  <2>2. Accept(r, op, thread)
    BY <1>10
  <2>. HIDE DEF thread
  <2>. QED
    BY <2>1, <2>2, AcceptType
<1>11. ASSUME NEW n \in Chapter, Rollback(r, n)
       PROVE  StoreTypeOK' /\ ThreadsOK'
  <2>1. PICK v \in DOMAIN chapter[n].drafts :
          Accept(r, "rollback", [Idle EXCEPT !.step = "edit", !.n = n, !.ok = TRUE,
                                             !.text = chapter[n].drafts[v],
                                             !.saved = chapter[n].drafts[v]])
    BY <1>11 DEF Rollback
  <2>. DEFINE text == chapter[n].drafts[v]
             thread == [Idle EXCEPT !.step = "edit", !.n = n, !.ok = TRUE,
                                    !.text = text, !.saved = text]
  <2>2. text \in Text
    BY DEF StoreTypeOK, ChapterRow
  <2>3. Accept(r, "rollback", thread) /\ UNCHANGED storeVars
    BY <1>11, <2>1 DEF Rollback
  <2>. HIDE DEF text
  <2>4. thread \in Thread /\ Sound(thread)
    BY <1>1, <2>2 DEF Idle, Thread, Step, Sound, Exporting
  <2>. HIDE DEF thread
  <2>. QED
    BY <2>3, <2>4, AcceptType, StoreUnchangedType
<1>12. ASSUME NEW n \in Chapter, Rewrite(r, n)
       PROVE  StoreTypeOK' /\ ThreadsOK'
  <2>. DEFINE thread == [Idle EXCEPT !.step = "rewrite", !.n = n]
  <2>1. thread \in Thread /\ Sound(thread)
    BY <1>1 DEF Idle, Thread, Step, Sound, Exporting
  <2>2. Accept(r, "rewrite", thread) /\ UNCHANGED storeVars
    BY <1>12 DEF Rewrite
  <2>. HIDE DEF thread
  <2>. QED
    BY <2>1, <2>2, AcceptType, StoreUnchangedType
<1>13. ASSUME NEW n \in Chapter, NEW f \in Format, Export(r, n, f)
       PROVE  StoreTypeOK' /\ ThreadsOK'
  <2>. DEFINE thread == [Idle EXCEPT !.step = "export.create", !.n = n, !.fmt = f,
                                    !.text = chapter[n].body]
  <2>1. chapter[n].body \in Text
    BY DEF StoreTypeOK, ChapterRow
  <2>2. thread \in Thread /\ Sound(thread)
    BY <1>1, <2>1 DEF Idle, Thread, Step, Sound, Exporting
  <2>3. Accept(r, "export", thread) /\ UNCHANGED storeVars
    BY <1>13 DEF Export
  <2>. HIDE DEF thread
  <2>. QED
    BY <2>2, <2>3, AcceptType, StoreUnchangedType
<1>14. ASSUME NEW n \in Chapter, NEW f \in Format, ExportAgain(r, n, f)
       PROVE  StoreTypeOK' /\ ThreadsOK'
  BY <1>1, <1>14, AcceptType, StoreUnchangedType DEF ExportAgain
<1>15. ASSUME NEW n \in Chapter, NEW p \in Platform, Publish(r, n, p)
       PROVE  StoreTypeOK' /\ ThreadsOK'
  BY <1>1, <1>15, AcceptType, ManualPublishType DEF Publish
<1>16. ASSUME NEW n \in Chapter, NEW text \in Text, EditText(r, n, text)
       PROVE  StoreTypeOK' /\ ThreadsOK'
  BY <1>10, <1>16, StoreUnchangedType DEF EditText
<1>. QED
  BY <1>2, <1>3, <1>4, <1>5, <1>6, <1>7, <1>8, <1>9, <1>11, <1>12, <1>13, <1>14, <1>15, <1>16
  DEF Begin

LEMMA CarryType ==
  ASSUME StoreTypeOK, ThreadsOK, NEW r \in Request, Carry(r)
  PROVE  StoreTypeOK' /\ ThreadsOK'
<1>. DEFINE n == request[r].n
<1>1. request[r] \in Thread
  BY DEF ThreadsOK, ConsoleTypeOK
<1>2. /\ request[r].step \notin {"idle", "bible"} => n \in Chapter
      /\ request[r].step \in Exporting => request[r].fmt \in Format
      /\ request[r].step = "review.write" => request[r].status \in ChapterStatus
  BY DEF ThreadsOK, OpenHasChapter
<1>3. /\ request[r].text \in Text /\ request[r].saved \in Text
      /\ request[r].ok \in BOOLEAN /\ request[r].num \in Nat
  BY <1>1 DEF Thread
<1>. HIDE DEF n
<1>4. CASE ContinueGate(r)
  <2>1. \/ Proceed(r, "continue.gate", "queue")
        \/ Answer(r, "continue.gate")
    BY <1>4 DEF ContinueGate
  <2>2. "continue.gate" \in Step \ {"idle", "bible"} /\ "queue" \in Step \ {"review.write"}
    BY DEF Step
  <2>3. "queue" \notin Exporting
    BY DEF Exporting
  <2>. QED
    BY <1>4, <2>1, <2>2, <2>3, ProceedType, AnswerType, StoreUnchangedType DEF ContinueGate
<1>5. CASE Queue(r)
  <2>1. n \in Chapter /\ request[r].step = "queue"
    BY <1>2, <1>5 DEF Queue
  <2>. DEFINE thread == IF request[r].plans = {} THEN Idle
                      ELSE [request[r] EXCEPT !.step = "configure", !.id = job[n].id]
  <2>2. job[n].id \in Nat
    BY <2>1 DEF StoreTypeOK, JobRow
  <2>3. thread \in Thread /\ Sound(thread)
    BY <1>1, <2>1, <2>2, IdleType DEF Thread, Step, Sound, Exporting, n
  <2>4. request' = [request EXCEPT ![r] = thread] /\ QueueJob(n)
    BY <1>5 DEF Queue, n
  <2>5. budget' \in Nat /\ UNCHANGED outages
    BY <1>5 DEF Queue, ThreadsOK, ConsoleTypeOK
  <2>. HIDE DEF thread
  <2>. QED
    BY <2>1, <2>3, <2>4, <2>5, ThreadType, QueueJobType
<1>6. CASE ReviewStatus(r)
  <2>. DEFINE status == StatusAfterReview(chapter[n].status, request[r].ok)
             thread == [request[r] EXCEPT !.step = "review.write", !.status = status]
  <2>1. n \in Chapter
    BY <1>2, <1>6 DEF ReviewStatus
  <2>2. status \in ChapterStatus
    BY DEF StatusAfterReview, ChapterStatus, TERMINAL
  <2>3. request' = [request EXCEPT ![r] = thread] /\ UNCHANGED storeVars
    BY <1>6 DEF ReviewStatus, n
  <2>4. budget' \in Nat /\ UNCHANGED outages
    BY <1>6 DEF ReviewStatus, ThreadsOK, ConsoleTypeOK
  <2>. HIDE DEF status
  <2>5. thread \in Thread /\ Sound(thread)
    BY <1>1, <2>1, <2>2 DEF Thread, Step, Sound, Exporting, n
  <2>. HIDE DEF thread
  <2>. QED
    BY <2>3, <2>4, <2>5, ThreadType, StoreUnchangedType
<1>7. CASE ReviewWrite(r)
  <2>1. n \in Chapter /\ request[r].status \in ChapterStatus
    BY <1>2, <1>7 DEF ReviewWrite, Answer
  <2>. QED
    BY <1>3, <1>7, <2>1, AnswerType, RecordReviewType DEF ReviewWrite, n
<1>8. CASE ApproveWrite(r)
  <2>1. n \in Chapter /\ "DRAFT_READY" \in ChapterStatus
    BY <1>2, <1>8 DEF ApproveWrite, Answer, ChapterStatus
  <2>. QED
    BY <1>8, <2>1, AnswerType, SetStatusType DEF ApproveWrite, n
<1>9. CASE EditWrite(r)
  <2>1. n \in Chapter
    BY <1>2, <1>9 DEF EditWrite, Answer
  <2>2. PICK text \in Text : UpdateDraft(n, text, request[r].saved)
    BY <1>3, <1>9, <2>1 DEF EditWrite, n, StoreTypeOK, ChapterRow
  <2>. QED
    BY <1>3, <1>9, <2>1, <2>2, AnswerType, UpdateDraftType DEF EditWrite
<1>10. CASE ExportCreate(r)
  <2>. DEFINE thread == [request[r] EXCEPT !.step = "export.write", !.id = job[n].id]
  <2>1. n \in Chapter /\ request[r].fmt \in Format
    BY <1>2, <1>10 DEF ExportCreate, Exporting
  <2>2. job[n].id \in Nat
    BY <2>1 DEF StoreTypeOK, JobRow
  <2>3. thread \in Thread /\ Sound(thread)
    BY <1>1, <2>1, <2>2 DEF Thread, Step, Sound, Exporting, n
  <2>4. request' = [request EXCEPT ![r] = thread] /\ CreateExport(n, request[r].fmt)
    BY <1>10 DEF ExportCreate, n
  <2>5. budget' \in Nat /\ UNCHANGED outages
    BY <1>10 DEF ExportCreate, ThreadsOK, ConsoleTypeOK
  <2>. HIDE DEF thread
  <2>. QED
    BY <2>1, <2>3, <2>4, <2>5, ThreadType, CreateExportType
<1>11. CASE ExportWrite(r)
  <2>1. n \in Chapter /\ request[r].fmt \in Format
    BY <1>2, <1>11 DEF ExportWrite, Proceed, Exporting
  <2>2. "export.write" \in Step \ {"idle", "bible"} /\ "export.complete" \in Step \ {"review.write"}
    BY DEF Step
  <2>3. "export.write" \in Exporting
    BY DEF Exporting
  <2>. QED
    BY <1>3, <1>11, <2>1, <2>2, <2>3, ProceedType, WriteFileType DEF ExportWrite, n
<1>12. CASE ExportFails(r)
  <2>1. n \in Chapter /\ request[r].fmt \in Format /\ "FAILED" \in ExportStatus
    BY <1>2, <1>12 DEF ExportFails, Answer, Exporting, ExportStatus
  <2>. QED
    BY <1>12, <2>1, AnswerType, SetExportType DEF ExportFails, n
<1>13. CASE ExportComplete(r)
  <2>1. n \in Chapter /\ request[r].fmt \in Format /\ "SUCCEEDED" \in ExportStatus
    BY <1>2, <1>13 DEF ExportComplete, Proceed, Exporting, ExportStatus
  <2>2. "export.complete" \in Step \ {"idle", "bible"} /\ "export.record" \in Step \ {"review.write"}
    BY DEF Step
  <2>3. "export.complete" \in Exporting
    BY DEF Exporting
  <2>. QED
    BY <1>13, <2>1, <2>2, <2>3, ProceedType, SetExportType DEF ExportComplete, n
<1>14. CASE ExportRecord(r)
  <2>1. n \in Chapter /\ "EXPORTED" \in ChapterStatus
    BY <1>2, <1>14 DEF ExportRecord, Answer, ChapterStatus
  <2>. QED
    BY <1>14, <2>1, AnswerType, SetStatusType DEF ExportRecord, n
<1>15. CASE RewriteWrite(r)
  <2>1. n \in Chapter
    BY <1>2, <1>15 DEF RewriteWrite, Answer
  <2>2. RewriteChapter(n) \/ UNCHANGED storeVars
    BY <1>15 DEF RewriteWrite, n
  <2>. QED
    BY <1>15, <2>1, <2>2, AnswerType, RewriteChapterType, StoreUnchangedType DEF RewriteWrite
<1>16. CASE BibleWrite(r)
  BY <1>3, <1>16, AnswerType, UpdateBibleType, StoreUnchangedType DEF BibleWrite
<1>17. CASE Configure(r)
  <2>1. n \in Chapter /\ request[r].plans \subseteq Plans
    BY <1>1, <1>2, <1>17 DEF Configure, Answer, Thread
  <2>2. PICK plan \in request[r].plans : SetJobConfig(n, request[r].id, plan)
    BY <1>17 DEF Configure, n
  <2>. QED
    BY <1>17, <2>1, <2>2, AnswerType, SetJobConfigType DEF Configure
<1>. QED
  BY <1>4, <1>5, <1>6, <1>7, <1>8, <1>9, <1>10, <1>11, <1>12, <1>13, <1>14, <1>15, <1>16, <1>17
  DEF Carry

LEMMA ConsoleNextType ==
  ASSUME StoreTypeOK, ThreadsOK, ConsoleNext
  PROVE  StoreTypeOK' /\ ThreadsOK'
<1>1. CASE Outage
  <2>1. StoreTypeOK'
    BY <1>1, StoreUnchangedType DEF Outage
  <2>2. ThreadsOK'
    BY <1>1, IdleType DEF Outage, ThreadsOK, ConsoleTypeOK, OpenHasChapter, Sound
  <2>. QED
    BY <2>1, <2>2
<1>. QED
  BY <1>1, BeginType, CarryType DEF ConsoleNext

-----------------------------------------------------------------------------
(* The system *)

(* What the type of a step rests on: the values, and that open work has a   *)
(* chapter, and a run where it needs one.                                   *)
TypeInv == StoreTypeOK /\ SlotsOK /\ ThreadsOK /\ RunsTypeOK /\ ReadersHaveRun

LEMMA ReadersInit == Init => ReadersHaveRun
<1>1. ASSUME Init, NEW w \in Worker
      PROVE  worker[w].pc = "ready"
  BY <1>1 DEF Init, WorkerInit, Free
<1>. QED
  BY <1>1 DEF ReadersHaveRun, Reading

LEMMA TypeInvInit == Init => TypeInv
BY StoreInitType, WorkerInitType, ConsoleInitType, RunsInitType, ReadersInit DEF Init, TypeInv

LEMMA TypeInvStutter ==
  ASSUME TypeInv, UNCHANGED vars
  PROVE  TypeInv'
BY StoreUnchangedType
DEF TypeInv, vars, workerVars, consoleVars, SlotsOK, WorkerTypeOK, BusyHasChapter,
    ThreadsOK, ConsoleTypeOK, OpenHasChapter, RunsTypeOK, ReadersHaveRun, Existent, KeyOf

LEMMA TypeInvNext == TypeInv /\ [Next]_vars => TypeInv'
<1>. SUFFICES ASSUME TypeInv, [Next]_vars
             PROVE  TypeInv'
  OBVIOUS
<1>1. CASE WorkerNext /\ UNCHANGED <<consoleVars, runs>>
  <2>1. ReadersHaveRun'
    BY <1>1, WorkerLeaves DEF TypeInv, ReadersHaveRun, Existent, KeyOf, Inner
  <2>. QED
    BY <1>1, <2>1, WorkerNextType
    DEF TypeInv, consoleVars, ThreadsOK, ConsoleTypeOK, OpenHasChapter, RunsTypeOK
<1>2. CASE ConsoleNext /\ UNCHANGED <<workerVars, runs>>
  BY <1>2, ConsoleNextType
  DEF TypeInv, workerVars, SlotsOK, WorkerTypeOK, BusyHasChapter, RunsTypeOK, ReadersHaveRun,
      Existent, KeyOf
<1>3. CASE (\E w \in Worker : Pipeline(w)) /\ UNCHANGED consoleVars
  BY <1>3, PipelineType, PipelineReaders
  DEF TypeInv, consoleVars, ThreadsOK, ConsoleTypeOK, OpenHasChapter
<1>4. CASE UNCHANGED vars
  BY <1>4, TypeInvStutter
<1>. QED
  BY <1>1, <1>2, <1>3, <1>4 DEF Next

LEMMA TypeInvAlways == Spec => []TypeInv
BY TypeInvInit, TypeInvNext, PTL DEF Spec

(* Every variable keeps its type, whatever requests, slots, kills and       *)
(* lapses interleave: no handler writes a value of another state machine    *)
(* (a job status into a chapter, a status read past its gate).              *)
THEOREM TypeCorrect == Spec => []TypeOK
<1>1. TypeInv => TypeOK
  BY DEF TypeInv, SlotsOK, ThreadsOK, TypeOK
<1>. QED
  BY <1>1, TypeInvAlways, PTL

=============================================================================
