----------------------------- MODULE NovelSafety -----------------------------
(***************************************************************************)
(* Safety of NovelSystem, for every value of its constants: the invariants  *)
(* that hold under every interleaving of requests, slots, kills, lapses and *)
(* outages.                                                                 *)
(*                                                                         *)
(* RunningHasLease and PublishedBelowCurrent are inductive.  The status of  *)
(* a chapter is not: a handler writes one it decided on earlier, from a row *)
(* that may have changed.  The strengthening says what every such pending   *)
(* write rests on, in terms of two facts that no step ever takes back: a    *)
(* text of the chapter passed a review, a file of it was written.           *)
(***************************************************************************)
EXTENDS NovelTypes

-----------------------------------------------------------------------------
(* Leases *)

LEMMA SweptRowLease ==
  ASSUME NEW row \in JobRow, row.status = "RUNNING" => row.lease # "none"
  PROVE  SweptRow(row).status = "RUNNING" => SweptRow(row).lease # "none"
BY DEF SweptRow, JobRow

LEMMA ClaimedRowLease ==
  ASSUME NEW row \in JobRow
  PROVE  ClaimedRow(row).lease # "none"
BY DEF ClaimedRow, JobRow

(* A step that keeps the job rows, or changes one to a row that is not      *)
(* RUNNING or has a lease, keeps the invariant.                             *)
LEMMA LeaseKept ==
  ASSUME StoreTypeOK, RunningHasLease, UNCHANGED job
  PROVE  RunningHasLease'
BY DEF RunningHasLease

LEMMA LeaseAt ==
  ASSUME StoreTypeOK, RunningHasLease, NEW n \in Chapter, NEW row,
         row.status = "RUNNING" => row.lease # "none",
         job' = [job EXCEPT ![n] = row]
  PROVE  RunningHasLease'
BY DEF StoreTypeOK, RunningHasLease

LEMMA LeaseStatus ==
  ASSUME StoreTypeOK, RunningHasLease, NEW n \in Chapter, NEW status, status # "RUNNING",
         job' = [job EXCEPT ![n].status = status]
  PROVE  RunningHasLease'
<1>1. [job[n] EXCEPT !.status = status].status # "RUNNING"
  BY DEF StoreTypeOK, JobRow
<1>2. job' = [job EXCEPT ![n] = [job[n] EXCEPT !.status = status]]
  OBVIOUS
<1>. QED
  BY <1>1, <1>2, LeaseAt

LEMMA WorkerLease ==
  ASSUME StoreTypeOK, SlotsOK, RunningHasLease, WorkerNext
  PROVE  RunningHasLease'
<1>1. ASSUME NEW w \in Worker, Claim(w)
      PROVE  RunningHasLease'
  <2>1. CASE \E n \in Chapter : ClaimJob(n)
    <3>1. PICK n \in Chapter : ClaimJob(n)
      BY <2>1
    <3>. SUFFICES ASSUME NEW m \in Chapter, job'[m].status = "RUNNING"
                 PROVE  job'[m].lease # "none"
      BY DEF RunningHasLease
    <3>2. job[m] \in JobRow /\ SweptRow(job[m]) \in JobRow
      BY SweptRowType DEF StoreTypeOK
    <3>3. CASE m = n
      BY <3>1, <3>2, <3>3, ClaimedRowLease DEF ClaimJob
    <3>4. CASE m # n
      BY <3>1, <3>2, <3>4, SweptRowLease DEF ClaimJob, RunningHasLease
    <3>. QED
      BY <3>3, <3>4
  <2>2. CASE ClaimNone
    BY <2>2, SweptRowLease DEF ClaimNone, RunningHasLease, StoreTypeOK
  <2>. QED
    BY <1>1, <2>1, <2>2 DEF Claim
<1>2. ASSUME NEW w \in Worker,
             ReadContext(w) \/ StartPlanning(w) \/ VoidChapter(w) \/ StartGenerating(w)
               \/ StartReviewing(w) \/ AutoRead(w) \/ AutoWrite(w) \/ CallFails(w) \/ Raise(w)
      PROVE  RunningHasLease'
  <2>1. UNCHANGED job
    BY <1>2 DEF ReadContext, StartPlanning, VoidChapter, StartGenerating, StartReviewing,
       AutoRead, AutoWrite, CallFails, Raise, Finalize, SetStatus, WriteFile, storeVars, queueVars
  <2>. QED
    BY <2>1, LeaseKept
<1>3. ASSUME NEW w \in Worker, VoidTheJob(w)
      PROVE  RunningHasLease'
  <2>1. worker[w].n \in Chapter
    BY <1>3 DEF VoidTheJob, At, Busy, SlotsOK, BusyHasChapter, Placed
  <2>. QED
    BY <1>3, <2>1, LeaseStatus, LeaseKept DEF VoidTheJob, VoidJob
<1>4. ASSUME NEW w \in Worker, Save(w)
      PROVE  RunningHasLease'
  <2>1. worker[w].n \in Chapter
    BY <1>4 DEF Save, At, Busy, SlotsOK, BusyHasChapter, Placed
  <2>2. PICK passed \in BOOLEAN :
          SaveGeneration(worker[w].n, worker[w].id, worker[w].text, passed)
    BY <1>4 DEF Save
  <2>. QED
    BY <2>1, <2>2, LeaseStatus, LeaseKept DEF SaveGeneration
<1>5. ASSUME NEW w \in Worker, WriteFailure(w)
      PROVE  RunningHasLease'
  <2>. DEFINE n == worker[w].n
             retry == worker[w].retry
             row == [job[n] EXCEPT !.status = IF retry THEN "PENDING" ELSE "FAILED",
                                   !.lease = "none", !.due = ~retry]
  <2>1. n \in Chapter
    BY <1>5 DEF WriteFailure, At, Busy, SlotsOK, BusyHasChapter, Placed
  <2>2. job' = [job EXCEPT ![n] = row] \/ UNCHANGED job
    BY <1>5 DEF WriteFailure, FailJob
  <2>3. row.status # "RUNNING"
    BY <2>1 DEF StoreTypeOK, JobRow
  <2>. HIDE DEF row
  <2>. QED
    BY <2>1, <2>2, <2>3, LeaseAt, LeaseKept
<1>6. ASSUME NEW p \in Process, Kill(p) \/ NextPass(p)
      PROVE  RunningHasLease'
  BY <1>6, LeaseKept DEF Kill, NextPass, storeVars, queueVars
<1>7. ASSUME NEW n \in Chapter, BackoffElapses(n) \/ LeaseLapses(n) \/ Overrun(n)
      PROVE  RunningHasLease'
  <2>1. job[n] \in JobRow
    BY DEF StoreTypeOK
  <2>2. CASE job' = [job EXCEPT ![n] = [job[n] EXCEPT !.due = TRUE]]
    <3>1. [job[n] EXCEPT !.due = TRUE].status = job[n].status
          /\ [job[n] EXCEPT !.due = TRUE].lease = job[n].lease
      BY <2>1 DEF JobRow
    <3>. QED
      BY <2>2, <3>1, LeaseAt DEF RunningHasLease
  <2>3. CASE job' = [job EXCEPT ![n] = [job[n] EXCEPT !.lease = "lapsed"]]
    <3>1. [job[n] EXCEPT !.lease = "lapsed"].lease # "none"
      BY <2>1 DEF JobRow
    <3>. QED
      BY <2>3, <3>1, LeaseAt
  <2>. QED
    BY <1>7, <2>2, <2>3 DEF BackoffElapses, LeaseLapses, Overrun, Lapse
<1>. QED
  BY <1>1, <1>2, <1>3, <1>4, <1>5, <1>6, <1>7 DEF WorkerNext, Work

LEMMA PipelineKeeps ==
  ASSUME NEW w \in Worker, Pipeline(w)
  PROVE  \/ UNCHANGED storeVars
         \/ SetStatus(worker[w].n, "REVIEWING") /\ worker[w].pc \in Busy
BY DEF Pipeline, FindRun, LoadMemory, Resume, CreateRun, StartStage, FinishStage, StageFails,
   Abort, StartFinalize, NoResult, MarkSucceeded, Finalize, At, Busy

LEMMA ConsoleLease ==
  ASSUME StoreTypeOK, ThreadsOK, RunningHasLease, ConsoleNext
  PROVE  RunningHasLease'
<1>1. CASE UNCHANGED job
  BY <1>1, LeaseKept
<1>2. ASSUME NEW n \in Chapter, CancelJob(n)
      PROVE  RunningHasLease'
  <2>. DEFINE row == [job[n] EXCEPT !.status = "CANCELLED", !.lease = "none"]
  <2>1. row.status # "RUNNING"
    BY DEF StoreTypeOK, JobRow
  <2>2. job' = [job EXCEPT ![n] = row]
    BY <1>2 DEF CancelJob
  <2>. HIDE DEF row
  <2>. QED
    BY <2>1, <2>2, LeaseAt
<1>3. ASSUME NEW n \in Chapter, QueueJob(n)
      PROVE  RunningHasLease'
  <2>1. CASE job' = [job EXCEPT ![n].status = "PENDING"]
    BY <2>1, LeaseStatus
  <2>2. CASE job' = [job EXCEPT ![n] = [NoJob EXCEPT !.status = "PENDING"]]
    <3>1. [NoJob EXCEPT !.status = "PENDING"].status # "RUNNING"
      BY DEF NoJob
    <3>. QED
      BY <2>2, <3>1, LeaseAt
  <2>. QED
    BY <1>1, <1>3, <2>1, <2>2 DEF QueueJob, storeVars, queueVars
<1>4. ASSUME NEW n \in Chapter, RewriteChapter(n)
      PROVE  RunningHasLease'
  <2>. DEFINE row == [NoJob EXCEPT !.id = job[n].id + 1, !.status = "PENDING"]
  <2>1. row.status # "RUNNING"
    BY DEF NoJob
  <2>2. job' = [job EXCEPT ![n] = row]
    BY <1>4 DEF RewriteChapter
  <2>. HIDE DEF row
  <2>. QED
    BY <2>1, <2>2, LeaseAt
<1>5. ASSUME NEW r \in Request, Begin(r)
      PROVE  UNCHANGED job \/ \E n \in Chapter : CancelJob(n)
  BY <1>5 DEF Begin, Continue, Pause, EditBible, Generate, Cancel, Review, Approve, EditTitle,
     Rollback, Rewrite, EditText, Export, ExportAgain, Publish, SetPaused, ManualPublish,
     storeVars, queueVars
<1>6. ASSUME NEW n \in Chapter, NEW id, NEW plan, SetJobConfig(n, id, plan)
      PROVE  RunningHasLease'
  <2>. DEFINE row == [job[n] EXCEPT !.plan = plan]
  <2>1. job[n] \in JobRow
    BY DEF StoreTypeOK
  <2>2. row.status = job[n].status /\ row.lease = job[n].lease
    BY <2>1 DEF JobRow
  <2>3. job' = [job EXCEPT ![n] = row] \/ UNCHANGED job
    BY <1>6 DEF SetJobConfig
  <2>. HIDE DEF row
  <2>. QED
    BY <1>1, <2>2, <2>3, LeaseAt DEF RunningHasLease
<1>7. ASSUME NEW r \in Request, Carry(r)
      PROVE  \/ UNCHANGED job
             \/ \E n \in Chapter : QueueJob(n) \/ RewriteChapter(n)
             \/ \E n \in Chapter : \E id, plan : SetJobConfig(n, id, plan)
  <2>1. request[r].step \in {"queue", "configure", "rewrite"} => request[r].n \in Chapter
    BY DEF ThreadsOK, OpenHasChapter
  <2>2. CASE Queue(r)
    BY <2>1, <2>2 DEF Queue
  <2>5. CASE Configure(r)
    BY <2>1, <2>5 DEF Configure, Answer
  <2>3. CASE RewriteWrite(r)
    BY <2>1, <2>3 DEF RewriteWrite, Answer, storeVars, queueVars
  <2>4. CASE ~Queue(r) /\ ~RewriteWrite(r) /\ ~Configure(r)
    BY <1>7, <2>4 DEF Carry, ContinueGate, ReviewStatus, ReviewWrite, ApproveWrite,
       EditWrite, ExportCreate, ExportWrite, ExportFails, ExportComplete, ExportRecord,
       BibleWrite, RecordReview, SetStatus, UpdateDraft, CreateExport, WriteFile, SetExport,
       UpdateBible, storeVars, queueVars
  <2>. QED
    BY <2>2, <2>3, <2>4, <2>5
<1>. QED
  BY <1>1, <1>2, <1>3, <1>4, <1>5, <1>6, <1>7 DEF ConsoleNext, Outage, storeVars, queueVars

(* Every RUNNING job has a lease, so that a job whose worker is gone is     *)
(* found by the sweep of some later claim_job.                              *)
THEOREM LeaseSafe == Spec => []RunningHasLease
<1>1. Init => RunningHasLease
  BY DEF Init, StoreInit, NoJob, RunningHasLease
<1>2. TypeInv /\ RunningHasLease /\ [Next]_vars => RunningHasLease'
  <2>1. (\E w \in Worker : Pipeline(w)) => UNCHANGED job
    BY PipelineKeeps DEF SetStatus, storeVars, queueVars
  <2>. QED
    BY <2>1, WorkerLease, ConsoleLease, LeaseKept
    DEF TypeInv, Next, vars, storeVars, queueVars
<1>. QED
  BY <1>1, <1>2, TypeInvAlways, PTL DEF Spec

-----------------------------------------------------------------------------
(* Publish records *)

LEMMA RecordsKept ==
  ASSUME PublishedBelowCurrent, UNCHANGED records, novel'.current = novel.current
  PROVE  PublishedBelowCurrent'
BY DEF PublishedBelowCurrent

LEMMA WorkerRecords ==
  ASSUME PublishedBelowCurrent, WorkerNext
  PROVE  PublishedBelowCurrent'
<1>1. ASSUME NEW w \in Worker, Work(w) \/ Raise(w)
      PROVE  UNCHANGED <<records, novel>>
  BY <1>1 DEF Work, Claim, ReadContext, StartPlanning, VoidChapter, VoidTheJob, StartGenerating,
     StartReviewing, Save, AutoRead, AutoWrite, CallFails, WriteFailure, Raise, ClaimJob,
     ClaimNone, Finalize, SetStatus, VoidJob, SaveGeneration, FailJob, WriteFile, storeVars,
     publishVars
<1>2. ASSUME NEW p \in Process, Kill(p) \/ NextPass(p)
      PROVE  UNCHANGED <<records, novel>>
  BY <1>2 DEF Kill, NextPass, storeVars, publishVars
<1>3. ASSUME NEW n \in Chapter, BackoffElapses(n) \/ LeaseLapses(n) \/ Overrun(n)
      PROVE  UNCHANGED <<records, novel>>
  BY <1>3 DEF BackoffElapses, LeaseLapses, Overrun, Lapse, publishVars
<1>. QED
  BY <1>1, <1>2, <1>3, RecordsKept DEF WorkerNext

LEMMA PublishRecords ==
  ASSUME StoreTypeOK, PublishedBelowCurrent, NEW n \in Chapter, NEW p \in Platform,
         ManualPublish(n, p)
  PROVE  PublishedBelowCurrent'
<1>1. n \in Nat /\ novel.current \in Nat
  BY ChapterAssumption DEF StoreTypeOK
<1>2. novel' = [novel EXCEPT !.current = IF n > novel.current THEN n ELSE novel.current]
  BY DEF ManualPublish
<1>3. novel'.current \in Nat /\ n <= novel'.current /\ novel.current <= novel'.current
  BY <1>1, <1>2 DEF StoreTypeOK
<1>4. \A m \in Chapter \ {n} : records'[m] = records[m]
  BY DEF ManualPublish, StoreTypeOK
<1>. SUFFICES ASSUME NEW m \in Chapter, records'[m] # {}
             PROVE  m <= novel'.current
  BY DEF PublishedBelowCurrent
<1>5. CASE m = n
  BY <1>3, <1>5
<1>6. CASE m # n
  <2>1. m \in Nat /\ m <= novel.current
    BY <1>4, <1>6, ChapterAssumption DEF PublishedBelowCurrent
  <2>. QED
    BY <1>1, <1>3, <2>1
<1>. QED
  BY <1>5, <1>6

LEMMA ConsoleRecords ==
  ASSUME StoreTypeOK, ThreadsOK, PublishedBelowCurrent, ConsoleNext
  PROVE  PublishedBelowCurrent'
<1>1. ASSUME NEW flag, SetPaused(flag)
      PROVE  PublishedBelowCurrent'
  BY <1>1, RecordsKept DEF SetPaused, publishVars, StoreTypeOK
<1>2. ASSUME NEW n \in Chapter, RewriteChapter(n)
      PROVE  PublishedBelowCurrent'
  BY <1>2 DEF RewriteChapter, StoreTypeOK, PublishedBelowCurrent
<1>3. ASSUME NEW r \in Request, Begin(r)
      PROVE  \/ UNCHANGED <<records, novel>>
             \/ \E flag \in BOOLEAN : SetPaused(flag)
             \/ \E n \in Chapter, p \in Platform : ManualPublish(n, p)
  BY <1>3 DEF Begin, Continue, Pause, EditBible, Generate, Cancel, Review, Approve, EditTitle,
     Rollback, Rewrite, EditText, Export, ExportAgain, Publish, CancelJob, storeVars, publishVars
<1>4. ASSUME NEW r \in Request, Carry(r)
      PROVE  UNCHANGED <<records, novel>> \/ \E n \in Chapter : RewriteChapter(n)
  <2>1. request[r].step = "rewrite" => request[r].n \in Chapter
    BY DEF ThreadsOK, OpenHasChapter
  <2>2. CASE RewriteWrite(r)
    BY <2>1, <2>2 DEF RewriteWrite, Answer, storeVars, publishVars
  <2>3. CASE ~RewriteWrite(r)
    BY <1>4, <2>3 DEF Carry, ContinueGate, Queue, Configure, SetJobConfig, ReviewStatus, ReviewWrite, ApproveWrite,
       EditWrite, ExportCreate, ExportWrite, ExportFails, ExportComplete, ExportRecord,
       BibleWrite, QueueJob, RecordReview, SetStatus, UpdateDraft, CreateExport, WriteFile,
       SetExport, UpdateBible, storeVars, publishVars
  <2>. QED
    BY <2>2, <2>3
<1>. QED
  BY <1>1, <1>2, <1>3, <1>4, RecordsKept, PublishRecords
  DEF ConsoleNext, Outage, storeVars, publishVars

(* current_chapter never falls behind the publish records, so that no gate  *)
(* that compares a number with it takes a published chapter for a draft.    *)
THEOREM RecordsSafe == Spec => []PublishedBelowCurrent
<1>1. Init => PublishedBelowCurrent
  BY DEF Init, StoreInit, PublishedBelowCurrent
<1>2. TypeInv /\ PublishedBelowCurrent /\ [Next]_vars => PublishedBelowCurrent'
  <2>1. (\E w \in Worker : Pipeline(w)) => UNCHANGED <<records, novel>>
    BY PipelineKeeps DEF SetStatus, storeVars, publishVars
  <2>. QED
    BY <2>1, WorkerRecords, ConsoleRecords, RecordsKept
    DEF TypeInv, Next, vars, storeVars, publishVars
<1>. QED
  BY <1>1, <1>2, TypeInvAlways, PTL DEF Spec

-----------------------------------------------------------------------------
(* Earned statuses *)

Passed(n)  == cleared[n] # {}
HasFile(n) == \E f \in Format : files[n][f] # {}

(* status may be written into chapter n. *)
Earned(n, status) ==
  /\ status \in Finished => Passed(n)
  /\ status \in OnDisk => HasFile(n)

RowsEarned ==
  \A n \in Chapter :
    /\ Earned(n, chapter[n].status)
    /\ chapter[n].verdict = "passed" => Passed(n)

(* What the writes that a handler still has to make rest on. *)
Rests(thread) ==
  /\ thread.step \in {"approve"} \cup Exporting => Passed(thread.n)
  /\ thread.step \in {"export.complete", "export.record"} => HasFile(thread.n)
  /\ thread.step = "review.write" => Earned(thread.n, thread.status)

ThreadsRest == \A r \in Request : Rests(request[r])

StatusInv == RowsEarned /\ ThreadsRest

(* No step takes a fact back. *)
Grows ==
  \A n \in Chapter : (Passed(n) => Passed(n)') /\ (HasFile(n) => HasFile(n)')

LEMMA SameFactsGrow ==
  ASSUME UNCHANGED <<cleared, files>>
  PROVE  Grows
BY DEF Grows, Passed, HasFile

LEMMA ClearedGrows ==
  ASSUME StoreTypeOK, UNCHANGED files, NEW n \in Chapter, NEW text \in Text,
         NEW passed \in BOOLEAN,
         cleared' = IF passed THEN [cleared EXCEPT ![n] = @ \cup {text}] ELSE cleared
  PROVE  Grows /\ (passed => Passed(n)')
<1>1. CASE passed
  <2>1. cleared'[n] = cleared[n] \cup {text}
    BY <1>1 DEF StoreTypeOK
  <2>2. \A m \in Chapter : m # n => cleared'[m] = cleared[m]
    BY <1>1 DEF StoreTypeOK
  <2>. QED
    BY <2>1, <2>2 DEF Grows, Passed, HasFile
<1>2. CASE ~passed
  BY <1>2, SameFactsGrow
<1>. QED
  BY <1>1, <1>2

LEMMA FilesGrow ==
  ASSUME StoreTypeOK, NEW n \in Chapter, NEW f \in Format, NEW text, WriteFile(n, f, text)
  PROVE  Grows /\ HasFile(n)'
<1>1. files' = [files EXCEPT ![n][f] = {text}] /\ UNCHANGED cleared
  BY DEF WriteFile, textVars
<1>2. files'[n][f] = {text}
  BY <1>1 DEF StoreTypeOK
<1>3. \A m \in Chapter : \A g \in Format : files[m][g] # {} => files'[m][g] # {}
  BY <1>1 DEF StoreTypeOK
<1>. QED
  BY <1>1, <1>2, <1>3 DEF Grows, Passed, HasFile

(* Rows and threads that do not change keep what they have earned. *)
LEMMA RowsKept ==
  ASSUME Grows, RowsEarned, UNCHANGED chapter
  PROVE  RowsEarned'
BY DEF Grows, RowsEarned, Earned

LEMMA RestsKept ==
  ASSUME Grows, ThreadsOK, ThreadsRest, NEW r \in Request, request'[r] = request[r]
  PROVE  Rests(request[r])'
<1>1. request[r].step \in {"approve", "review.write"} \cup Exporting => request[r].n \in Chapter
  BY DEF ThreadsOK, OpenHasChapter, Exporting
<1>. QED
  BY <1>1 DEF Grows, ThreadsRest, Rests, Earned, Exporting

LEMMA ThreadsKept ==
  ASSUME Grows, ThreadsOK, ThreadsRest, UNCHANGED request
  PROVE  ThreadsRest'
BY RestsKept DEF ThreadsRest

(* One row changes, to one that has earned its status and its verdict. *)
LEMMA RowAt ==
  ASSUME StoreTypeOK, Grows, RowsEarned, NEW n \in Chapter, NEW row,
         chapter' = [chapter EXCEPT ![n] = row],
         row.status \in Finished => Passed(n)',
         row.status \in OnDisk => HasFile(n)',
         row.verdict = "passed" => Passed(n)'
  PROVE  RowsEarned'
<1>. SUFFICES ASSUME NEW m \in Chapter
             PROVE  /\ Earned(m, chapter[m].status)'
                    /\ chapter'[m].verdict = "passed" => Passed(m)'
  BY DEF RowsEarned
<1>1. CASE m = n
  <2>1. chapter'[m] = row
    BY <1>1 DEF StoreTypeOK
  <2>. QED
    BY <1>1, <2>1 DEF Earned
<1>2. CASE m # n
  <2>1. chapter'[m] = chapter[m]
    BY <1>2 DEF StoreTypeOK
  <2>. QED
    BY <2>1 DEF RowsEarned, Earned, Grows
<1>. QED
  BY <1>1, <1>2

LEMMA StatusAt ==
  ASSUME StoreTypeOK, RowsEarned, NEW n \in Chapter, NEW status, Earned(n, status),
         chapter' = [chapter EXCEPT ![n].status = status], UNCHANGED <<cleared, files>>
  PROVE  Grows /\ RowsEarned'
<1>. DEFINE row == [chapter[n] EXCEPT !.status = status]
<1>1. chapter' = [chapter EXCEPT ![n] = row]
  OBVIOUS
<1>2. row.status = status /\ row.verdict = chapter[n].verdict
  BY DEF StoreTypeOK, ChapterRow
<1>3. Grows
  BY SameFactsGrow
<1>4. /\ status \in Finished => Passed(n)'
      /\ status \in OnDisk => HasFile(n)'
      /\ chapter[n].verdict = "passed" => Passed(n)'
  BY <1>3 DEF Earned, RowsEarned, Grows
<1>. HIDE DEF row
<1>. QED
  BY <1>1, <1>2, <1>3, <1>4, RowAt

(* A status that claims nothing may always be written. *)
LEMMA ModestStatus ==
  ASSUME NEW n, NEW status \in ACTIVE \cup {"CANCELLED", "FAILED"}
  PROVE  Earned(n, status)
BY DEF Earned, ACTIVE, Finished, OnDisk

-----------------------------------------------------------------------------
(* The transactions that write statuses, verdicts or files *)

LEMMA SaveEarned ==
  ASSUME StoreTypeOK, RowsEarned, NEW n \in Chapter, NEW id, NEW text \in Text,
         NEW passed \in BOOLEAN, SaveGeneration(n, id, text, passed)
  PROVE  Grows /\ RowsEarned'
<1>. DEFINE row == [status   |-> IF passed THEN "WAITING_APPROVAL" ELSE "FAILED",
                   body     |-> text,
                   verdict  |-> IF passed THEN "passed" ELSE "failed",
                   reviewed |-> text,
                   drafts   |-> Append(chapter[n].drafts, text)]
<1>1. Grows /\ (passed => Passed(n)')
  BY ClearedGrows DEF SaveGeneration, publishVars
<1>2. chapter' = [chapter EXCEPT ![n] = row]
  BY DEF SaveGeneration
<1>3. /\ row.status \notin Finished /\ row.status \notin OnDisk
      /\ row.verdict = "passed" => passed
  BY DEF Finished, OnDisk
<1>. HIDE DEF row
<1>. QED
  BY <1>1, <1>2, <1>3, RowAt

LEMMA ReviewEarned ==
  ASSUME StoreTypeOK, RowsEarned, NEW n \in Chapter, NEW text \in Text,
         NEW passed \in BOOLEAN, NEW status, Earned(n, status),
         RecordReview(n, text, passed, status)
  PROVE  Grows /\ RowsEarned'
<1>. DEFINE row == [chapter[n] EXCEPT !.status = status,
                                    !.verdict = IF passed THEN "passed" ELSE "failed",
                                    !.reviewed = text]
<1>1. Grows /\ (passed => Passed(n)')
  BY ClearedGrows DEF RecordReview, publishVars
<1>2. chapter' = [chapter EXCEPT ![n] = row]
  BY DEF RecordReview
<1>3. row.status = status /\ (row.verdict = "passed" => passed)
  BY DEF StoreTypeOK, ChapterRow
<1>4. /\ status \in Finished => Passed(n)'
      /\ status \in OnDisk => HasFile(n)'
  BY <1>1 DEF Earned, Grows
<1>. HIDE DEF row
<1>. QED
  BY <1>1, <1>2, <1>3, <1>4, RowAt

LEMMA DraftEarned ==
  ASSUME StoreTypeOK, RowsEarned, NEW n \in Chapter, NEW text, NEW saved,
         UpdateDraft(n, text, saved)
  PROVE  Grows /\ RowsEarned'
<1>. DEFINE row == [status |-> "REVIEWING", body |-> text, verdict |-> "none",
                   reviewed |-> NoBody, drafts |-> Append(chapter[n].drafts, saved)]
<1>1. Grows
  BY SameFactsGrow DEF UpdateDraft, publishVars
<1>2. chapter' = [chapter EXCEPT ![n] = row]
  BY DEF UpdateDraft
<1>3. row.status \notin Finished /\ row.status \notin OnDisk /\ row.verdict # "passed"
  BY DEF Finished, OnDisk
<1>. HIDE DEF row
<1>. QED
  BY <1>1, <1>2, <1>3, RowAt

LEMMA RewriteEarned ==
  ASSUME StoreTypeOK, RowsEarned, NEW n \in Chapter, RewriteChapter(n)
  PROVE  Grows /\ RowsEarned'
<1>. DEFINE row == [NoChapter EXCEPT !.status = "PENDING"]
<1>1. Grows
  BY SameFactsGrow DEF RewriteChapter
<1>2. chapter' = [chapter EXCEPT ![n] = row]
  BY DEF RewriteChapter
<1>3. row.status \notin Finished /\ row.status \notin OnDisk /\ row.verdict # "passed"
  BY DEF NoChapter, Finished, OnDisk
<1>. HIDE DEF row
<1>. QED
  BY <1>1, <1>2, <1>3, RowAt

LEMMA PublishEarned ==
  ASSUME StoreTypeOK, RowsEarned, NEW n \in Chapter, NEW p, ManualPublish(n, p)
  PROVE  Grows /\ RowsEarned'
<1>1. Earned(n, "EXPORTED") => Earned(n, "PUBLISHED_MANUALLY")
  BY DEF Earned, Finished, OnDisk
<1>2. Earned(n, "PUBLISHED_MANUALLY")
  BY <1>1 DEF ManualPublish, RowsEarned
<1>3. /\ chapter' = [chapter EXCEPT ![n].status = "PUBLISHED_MANUALLY"]
      /\ UNCHANGED <<cleared, files>>
  BY DEF ManualPublish
<1>. QED
  BY <1>2, <1>3, StatusAt

LEMMA SetStatusEarned ==
  ASSUME StoreTypeOK, RowsEarned, NEW n \in Chapter, NEW status, Earned(n, status),
         SetStatus(n, status)
  PROVE  Grows /\ RowsEarned'
BY StatusAt DEF SetStatus, publishVars

(* The writes of a job are modest. *)
LEMMA JobWritesEarned ==
  ASSUME StoreTypeOK, RowsEarned, UNCHANGED <<cleared, files>>, NEW n \in Chapter,
         \/ UNCHANGED chapter
         \/ \E status \in ACTIVE \cup {"CANCELLED", "FAILED"} :
              chapter' = [chapter EXCEPT ![n].status = status]
  PROVE  Grows /\ RowsEarned'
BY StatusAt, ModestStatus, RowsKept, SameFactsGrow

-----------------------------------------------------------------------------
(* The steps of the worker *)

LEMMA WorkerEarned ==
  ASSUME StoreTypeOK, SlotsOK, RowsEarned, WorkerNext
  PROVE  Grows /\ RowsEarned'
<1>1. ASSUME UNCHANGED <<chapter, cleared, files>>
      PROVE  Grows /\ RowsEarned'
  BY <1>1, SameFactsGrow, RowsKept
<1>2. ASSUME NEW w \in Worker,
             Claim(w) \/ ReadContext(w) \/ VoidTheJob(w) \/ AutoRead(w) \/ CallFails(w)
               \/ Raise(w)
      PROVE  UNCHANGED <<chapter, cleared, files>>
  BY <1>2 DEF Claim, ClaimJob, ClaimNone, ReadContext, VoidTheJob, VoidJob, AutoRead,
     CallFails, Raise, storeVars, textVars, publishVars
<1>3. ASSUME NEW p \in Process, Kill(p) \/ NextPass(p)
      PROVE  UNCHANGED <<chapter, cleared, files>>
  BY <1>3 DEF Kill, NextPass, storeVars, textVars, publishVars
<1>4. ASSUME NEW n \in Chapter, BackoffElapses(n) \/ LeaseLapses(n) \/ Overrun(n)
      PROVE  UNCHANGED <<chapter, cleared, files>>
  BY <1>4 DEF BackoffElapses, LeaseLapses, Overrun, Lapse, textVars, publishVars
<1>5. ASSUME NEW w \in Worker, worker[w].pc \in Busy
      PROVE  worker[w].n \in Chapter
  BY <1>5 DEF SlotsOK, BusyHasChapter, Placed
<1>6. ASSUME NEW w \in Worker,
             StartPlanning(w) \/ VoidChapter(w) \/ StartGenerating(w) \/ StartReviewing(w)
      PROVE  Grows /\ RowsEarned'
  <2>1. worker[w].n \in Chapter
    BY <1>5, <1>6 DEF StartPlanning, VoidChapter, StartGenerating, StartReviewing, At, Busy
  <2>2. \E status \in ACTIVE \cup {"CANCELLED", "FAILED"} : SetStatus(worker[w].n, status)
    BY <1>6 DEF StartPlanning, VoidChapter, StartGenerating, StartReviewing, Finalize, ACTIVE
  <2>. QED
    BY <2>1, <2>2, SetStatusEarned, ModestStatus
<1>7. ASSUME NEW w \in Worker, Save(w)
      PROVE  Grows /\ RowsEarned'
  <2>1. worker[w].n \in Chapter
    BY <1>5, <1>7 DEF Save, At, Busy
  <2>2. PICK passed \in BOOLEAN :
          SaveGeneration(worker[w].n, worker[w].id, worker[w].text, passed)
    BY <1>7 DEF Save
  <2>3. worker[w].text \in Text
    BY DEF SlotsOK, WorkerTypeOK, Slot
  <2>. QED
    BY <2>1, <2>2, <2>3, SaveEarned
<1>8. ASSUME NEW w \in Worker, WriteFailure(w)
      PROVE  Grows /\ RowsEarned'
  <2>1. worker[w].n \in Chapter
    BY <1>5, <1>8 DEF WriteFailure, At, Busy
  <2>2. \E status \in ACTIVE \cup {"CANCELLED", "FAILED"} :
          chapter' = [chapter EXCEPT ![worker[w].n].status = status]
    BY <1>8 DEF WriteFailure, FailJob, ACTIVE
  <2>3. UNCHANGED <<cleared, files>>
    BY <1>8 DEF WriteFailure, FailJob, publishVars
  <2>. QED
    BY <2>1, <2>2, <2>3, JobWritesEarned
<1>9. ASSUME NEW w \in Worker, AutoWrite(w)
      PROVE  Grows /\ RowsEarned'
  <2>1. worker[w].n \in Chapter
    BY <1>5, <1>9 DEF AutoWrite, At, Busy
  <2>2. CASE WriteFile(worker[w].n, Txt, worker[w].text)
    <3>1. Grows
      BY <2>1, <2>2, FilesGrow, WorkerAssumption
    <3>2. UNCHANGED chapter
      BY <2>2 DEF WriteFile, textVars
    <3>. QED
      BY <3>1, <3>2, RowsKept
  <2>3. CASE UNCHANGED storeVars
    BY <1>1, <2>3 DEF storeVars, textVars, publishVars
  <2>. QED
    BY <1>9, <2>2, <2>3 DEF AutoWrite
<1>. QED
  BY <1>1, <1>2, <1>3, <1>4, <1>6, <1>7, <1>8, <1>9 DEF WorkerNext, Work

LEMMA PipelineEarned ==
  ASSUME StoreTypeOK, SlotsOK, RowsEarned, NEW w \in Worker, Pipeline(w)
  PROVE  Grows /\ RowsEarned'
<1>1. CASE UNCHANGED storeVars
  BY <1>1, SameFactsGrow, RowsKept DEF storeVars, textVars, publishVars
<1>2. CASE SetStatus(worker[w].n, "REVIEWING") /\ worker[w].pc \in Busy
  <2>1. worker[w].n \in Chapter
    BY <1>2 DEF SlotsOK, BusyHasChapter, Placed
  <2>2. Earned(worker[w].n, "REVIEWING")
    BY ModestStatus DEF ACTIVE
  <2>. QED
    BY <1>2, <2>1, <2>2, SetStatusEarned
<1>. QED
  BY <1>1, <1>2, PipelineKeeps

-----------------------------------------------------------------------------
(* The steps of the console *)

(* r moves on to thread, whose pending writes rest on facts. *)
LEMMA ThreadAt ==
  ASSUME Grows, ThreadsOK, ThreadsRest, NEW r \in Request, NEW thread,
         request' = [request EXCEPT ![r] = thread],
         thread.step \in {"approve"} \cup Exporting => Passed(thread.n)',
         thread.step \in {"export.complete", "export.record"} => HasFile(thread.n)',
         thread.step = "review.write" => Earned(thread.n, thread.status)'
  PROVE  ThreadsRest'
<1>. SUFFICES ASSUME NEW q \in Request
             PROVE  Rests(request[q])'
  BY DEF ThreadsRest
<1>1. CASE q = r
  <2>1. request'[q] = thread
    BY <1>1 DEF ThreadsOK, ConsoleTypeOK
  <2>. QED
    BY <2>1 DEF Rests
<1>2. CASE q # r
  <2>1. request'[q] = request[q]
    BY <1>2 DEF ThreadsOK, ConsoleTypeOK
  <2>. QED
    BY <2>1, RestsKept
<1>. QED
  BY <1>1, <1>2

(* An answered thread has nothing left to write. *)
LEMMA IdleAt ==
  ASSUME Grows, ThreadsOK, ThreadsRest, NEW r \in Request,
         request' = [request EXCEPT ![r] = Idle]
  PROVE  ThreadsRest'
<1>1. Idle.step \notin {"approve", "review.write"} \cup Exporting
  BY DEF Idle, Exporting
<1>. QED
  BY <1>1, ThreadAt DEF Exporting

(* A thread that waits at a step whose write rests on nothing. *)
Undemanding == Step \ ({"approve", "review.write"} \cup Exporting)

LEMMA UndemandingAt ==
  ASSUME Grows, ThreadsOK, ThreadsRest, NEW r \in Request,
         \A q \in Request \ {r} : request'[q] = request[q],
         request'[r].step \in Undemanding
  PROVE  ThreadsRest'
<1>1. Rests(request[r])'
  BY DEF Rests, Undemanding, Exporting
<1>2. \A q \in Request \ {r} : Rests(request[q])'
  BY RestsKept
<1>. QED
  BY <1>1, <1>2 DEF ThreadsRest

LEMMA BeginEarned ==
  ASSUME StoreTypeOK, ThreadsOK, StatusInv, NEW r \in Request, Begin(r)
  PROVE  StatusInv'
<1>1. ASSUME UNCHANGED <<chapter, cleared, files>>
      PROVE  Grows /\ RowsEarned'
  BY <1>1, SameFactsGrow, RowsKept DEF StatusInv
<1>2. ASSUME UNCHANGED <<chapter, cleared, files>>, NEW op, NEW thread,
             thread.step \in Undemanding, Accept(r, op, thread)
      PROVE  StatusInv'
  <2>1. request'[r].step \in Undemanding /\ \A q \in Request \ {r} : request'[q] = request[q]
    BY <1>2 DEF Accept, ThreadsOK, ConsoleTypeOK
  <2>. QED
    BY <1>1, <1>2, <2>1, UndemandingAt DEF StatusInv
<1>3. ASSUME Continue(r) \/ Pause(r) \/ EditBible(r)
      PROVE  StatusInv'
  <2>1. UNCHANGED <<chapter, cleared, files>>
    BY <1>3 DEF Continue, Pause, EditBible, SetPaused, storeVars, textVars, publishVars
  <2>2. /\ \A m, plans :
             [Idle EXCEPT !.step = "continue.gate", !.n = m, !.plans = plans].step
               \in Undemanding
        /\ \A v : [Idle EXCEPT !.step = "bible", !.num = v].step \in Undemanding
        /\ Idle.step \in Undemanding
    BY DEF Idle, Undemanding, Step, Exporting
  <2>. QED
    BY <1>2, <1>3, <2>1, <2>2 DEF Continue, Pause, EditBible
<1>4. ASSUME NEW n \in Chapter, Generate(r, n) \/ Rewrite(r, n)
      PROVE  StatusInv'
  <2>1. UNCHANGED <<chapter, cleared, files>>
    BY <1>4 DEF Generate, Rewrite, storeVars, textVars, publishVars
  <2>2. /\ \A plans :
             [Idle EXCEPT !.step = "queue", !.n = n, !.plans = plans].step \in Undemanding
        /\ [Idle EXCEPT !.step = "rewrite", !.n = n].step \in Undemanding
    BY DEF Idle, Undemanding, Step, Exporting
  <2>. QED
    BY <1>2, <1>4, <2>1, <2>2 DEF Generate, Rewrite
<1>5. ASSUME NEW n \in Chapter, Review(r, n)
      PROVE  StatusInv'
  <2>. DEFINE thread(passed) == [Idle EXCEPT !.step = "review.status", !.n = n,
                                          !.text = chapter[n].body, !.ok = passed]
  <2>1. UNCHANGED <<chapter, cleared, files>>
    BY <1>5 DEF Review, storeVars, textVars, publishVars
  <2>2. \A passed : thread(passed).step \in Undemanding
    BY DEF Idle, Undemanding, Step, Exporting
  <2>3. \E passed \in BOOLEAN : Accept(r, "review", thread(passed))
    BY <1>5 DEF Review
  <2>. HIDE DEF thread
  <2>. QED
    BY <1>2, <2>1, <2>2, <2>3
<1>6. ASSUME NEW n \in Chapter,
             EditTitle(r, n) \/ Rollback(r, n) \/ \E text \in Text : EditText(r, n, text)
      PROVE  StatusInv'
  <2>. DEFINE title         == [Idle EXCEPT !.step = "edit", !.n = n, !.saved = chapter[n].body]
             draft(v)      == [Idle EXCEPT !.step = "edit", !.n = n, !.ok = TRUE,
                                          !.text = chapter[n].drafts[v],
                                          !.saved = chapter[n].drafts[v]]
             content(text) == [Idle EXCEPT !.step = "edit", !.n = n, !.text = text,
                                           !.saved = text, !.ok = TRUE]
  <2>1. UNCHANGED <<chapter, cleared, files>>
    BY <1>6 DEF EditTitle, Rollback, EditText, storeVars, textVars, publishVars
  <2>2. /\ title.step \in Undemanding
        /\ \A v : draft(v).step \in Undemanding
        /\ \A text : content(text).step \in Undemanding
    BY DEF Idle, Undemanding, Step, Exporting
  <2>3. \/ Accept(r, "retitle", title)
        \/ \E v \in DOMAIN chapter[n].drafts : Accept(r, "rollback", draft(v))
        \/ \E text \in Text : Accept(r, "edit", content(text))
    BY <1>6 DEF EditTitle, Rollback, EditText
  <2>. HIDE DEF title, draft, content
  <2>. QED
    BY <1>2, <2>1, <2>2, <2>3
<1>7. ASSUME NEW n \in Chapter, NEW f \in Format, ExportAgain(r, n, f)
      PROVE  StatusInv'
  <2>1. UNCHANGED <<chapter, cleared, files>>
    BY <1>7 DEF ExportAgain, storeVars, textVars, publishVars
  <2>2. Idle.step \in Undemanding
    BY DEF Idle, Undemanding, Step, Exporting
  <2>. QED
    BY <1>2, <1>7, <2>1, <2>2 DEF ExportAgain
<1>8. ASSUME NEW n \in Chapter, Cancel(r, n)
      PROVE  StatusInv'
  <2>1. \/ UNCHANGED chapter
        \/ \E status \in ACTIVE \cup {"CANCELLED", "FAILED"} :
             chapter' = [chapter EXCEPT ![n].status = status]
    BY <1>8 DEF Cancel, CancelJob
  <2>2. UNCHANGED <<cleared, files>> /\ request' = [request EXCEPT ![r] = Idle]
    BY <1>8 DEF Cancel, CancelJob, Accept, publishVars
  <2>. QED
    BY <2>1, <2>2, JobWritesEarned, IdleAt DEF StatusInv
<1>9. ASSUME NEW n \in Chapter, Approve(r, n)
      PROVE  StatusInv'
  <2>. DEFINE thread == [Idle EXCEPT !.step = "approve", !.n = n]
  <2>1. UNCHANGED <<chapter, cleared, files>> /\ request' = [request EXCEPT ![r] = thread]
    BY <1>9 DEF Approve, Accept, storeVars, textVars, publishVars
  <2>2. thread.step = "approve" /\ thread.n = n
    BY DEF Idle
  <2>3. Passed(n)
    BY <1>9 DEF Approve, Approvable, StatusInv, RowsEarned
  <2>4. Grows /\ RowsEarned' /\ Passed(n)'
    BY <1>1, <2>1, <2>3 DEF Grows
  <2>. HIDE DEF thread
  <2>. QED
    BY <2>1, <2>2, <2>4, ThreadAt DEF StatusInv, Exporting
<1>10. ASSUME NEW n \in Chapter, NEW f \in Format, Export(r, n, f)
      PROVE  StatusInv'
  <2>. DEFINE thread == [Idle EXCEPT !.step = "export.create", !.n = n, !.fmt = f,
                                   !.text = chapter[n].body]
  <2>1. UNCHANGED <<chapter, cleared, files>> /\ request' = [request EXCEPT ![r] = thread]
    BY <1>10 DEF Export, Accept, storeVars, textVars, publishVars
  <2>2. thread.step = "export.create" /\ thread.n = n
    BY DEF Idle
  <2>3. Passed(n)
    BY <1>10 DEF Export, Exportable, StatusInv, RowsEarned
  <2>4. Grows /\ RowsEarned' /\ Passed(n)'
    BY <1>1, <2>1, <2>3 DEF Grows
  <2>. HIDE DEF thread
  <2>. QED
    BY <2>1, <2>2, <2>4, ThreadAt DEF StatusInv, Exporting
<1>11. ASSUME NEW n \in Chapter, NEW p \in Platform, Publish(r, n, p)
      PROVE  StatusInv'
  <2>1. Grows /\ RowsEarned'
    BY <1>11, PublishEarned DEF Publish, StatusInv
  <2>2. request' = [request EXCEPT ![r] = Idle]
    BY <1>11 DEF Publish, Accept
  <2>. QED
    BY <2>1, <2>2, IdleAt DEF StatusInv
<1>. QED
  BY <1>3, <1>4, <1>5, <1>6, <1>7, <1>8, <1>9, <1>10, <1>11 DEF Begin

LEMMA CarryEarned ==
  ASSUME StoreTypeOK, ThreadsOK, StatusInv, NEW r \in Request, Carry(r)
  PROVE  StatusInv'
<1>. DEFINE n == request[r].n
<1>1. request[r].step \notin {"idle", "bible"} => n \in Chapter
  BY DEF ThreadsOK, OpenHasChapter
<1>2. Rests(request[r]) /\ RowsEarned /\ ThreadsRest
  BY DEF StatusInv, ThreadsRest
<1>3. ASSUME Grows, RowsEarned', NEW step, Answer(r, step)
      PROVE  StatusInv'
  BY <1>2, <1>3, IdleAt DEF Answer, StatusInv
<1>4. ASSUME UNCHANGED <<chapter, cleared, files>>
      PROVE  Grows /\ RowsEarned'
  BY <1>2, <1>4, SameFactsGrow, RowsKept
<1>5. CASE ContinueGate(r)
  <2>1. Grows /\ RowsEarned'
    BY <1>4, <1>5 DEF ContinueGate, storeVars, textVars, publishVars
  <2>2. CASE Answer(r, "continue.gate")
    BY <1>3, <2>1, <2>2
  <2>3. CASE Proceed(r, "continue.gate", "queue")
    <3>1. request'[r].step = "queue" /\ \A q \in Request \ {r} : request'[q] = request[q]
      BY <2>3 DEF Proceed, ThreadsOK, ConsoleTypeOK, Thread
    <3>2. "queue" \in Undemanding
      BY DEF Undemanding, Step, Exporting
    <3>. QED
      BY <1>2, <2>1, <3>1, <3>2, UndemandingAt DEF StatusInv
  <2>. QED
    BY <1>5, <2>2, <2>3 DEF ContinueGate
<1>6. CASE Queue(r)
  <2>1. n \in Chapter
    BY <1>1, <1>6 DEF Queue
  <2>2. UNCHANGED <<cleared, files>>
    BY <1>6 DEF Queue, QueueJob, storeVars, textVars, publishVars
  <2>3. UNCHANGED chapter \/ chapter' = [chapter EXCEPT ![n].status = "PENDING"]
    BY <1>6 DEF Queue, QueueJob, storeVars, textVars
  <2>4. "PENDING" \in ACTIVE
    BY DEF ACTIVE
  <2>5. Grows /\ RowsEarned'
    BY <1>2, <2>1, <2>2, <2>3, <2>4, JobWritesEarned
  <2>6. /\ request'[r].step \in {"idle", "configure"}
        /\ \A q \in Request \ {r} : request'[q] = request[q]
    BY <1>6 DEF Queue, Idle, ThreadsOK, ConsoleTypeOK, Thread
  <2>7. {"idle", "configure"} \subseteq Undemanding
    BY DEF Undemanding, Step, Exporting
  <2>. QED
    BY <1>2, <2>5, <2>6, <2>7, UndemandingAt DEF StatusInv
<1>7. CASE ReviewStatus(r)
  <2>1. n \in Chapter
    BY <1>1, <1>7 DEF ReviewStatus
  <2>2. Earned(n, StatusAfterReview(chapter[n].status, request[r].ok))
    BY <1>2, <2>1 DEF RowsEarned, StatusAfterReview, Earned, Finished, OnDisk
  <2>3. /\ request'[r].step = "review.write" /\ request'[r].n = n
        /\ request'[r].status = StatusAfterReview(chapter[n].status, request[r].ok)
        /\ \A q \in Request \ {r} : request'[q] = request[q]
    BY <1>7 DEF ReviewStatus, ThreadsOK, ConsoleTypeOK, Thread
  <2>4. UNCHANGED <<chapter, cleared, files>> /\ Grows /\ RowsEarned'
    BY <1>4, <1>7 DEF ReviewStatus, storeVars, textVars, publishVars
  <2>5. Earned(request[r].n, request[r].status)'
    BY <2>2, <2>3, <2>4 DEF Earned, Passed, HasFile
  <2>6. Rests(request[r])'
    BY <2>3, <2>5 DEF Rests, Exporting
  <2>7. \A q \in Request \ {r} : Rests(request[q])'
    BY <1>2, <2>3, <2>4, RestsKept
  <2>. QED
    BY <2>4, <2>6, <2>7 DEF StatusInv, ThreadsRest
<1>8. CASE ReviewWrite(r)
  <2>1. n \in Chapter /\ request[r].text \in Text /\ request[r].ok \in BOOLEAN
    BY <1>1, <1>8 DEF ReviewWrite, Answer, ThreadsOK, ConsoleTypeOK, Thread
  <2>2. Earned(n, request[r].status)
    BY <1>2, <1>8 DEF ReviewWrite, Answer, Rests
  <2>3. Grows /\ RowsEarned'
    BY <1>2, <1>8, <2>1, <2>2, ReviewEarned DEF ReviewWrite
  <2>. QED
    BY <1>3, <1>8, <2>3 DEF ReviewWrite
<1>9. CASE ApproveWrite(r)
  <2>1. n \in Chapter /\ Earned(n, "DRAFT_READY")
    BY <1>1, <1>2, <1>9 DEF ApproveWrite, Answer, Rests, Earned, OnDisk
  <2>2. Grows /\ RowsEarned'
    BY <1>2, <1>9, <2>1, SetStatusEarned DEF ApproveWrite
  <2>. QED
    BY <1>3, <1>9, <2>2 DEF ApproveWrite
<1>10. CASE EditWrite(r)
  <2>1. n \in Chapter
    BY <1>1, <1>10 DEF EditWrite, Answer
  <2>2. Grows /\ RowsEarned'
    BY <1>2, <1>10, <2>1, DraftEarned DEF EditWrite
  <2>. QED
    BY <1>3, <1>10, <2>2 DEF EditWrite
<1>11. ASSUME NEW step, step \in Exporting, Grows, Passed(n)',
              step \in {"export.complete", "export.record"} => HasFile(n)',
              RowsEarned', request'[r].step = step, request'[r].n = n,
              \A q \in Request \ {r} : request'[q] = request[q]
       PROVE  StatusInv'
  <2>1. Rests(request[r])'
    BY <1>11 DEF Rests, Exporting
  <2>2. \A q \in Request \ {r} : Rests(request[q])'
    BY <1>2, <1>11, RestsKept
  <2>. QED
    BY <1>11, <2>1, <2>2 DEF StatusInv, ThreadsRest
<1>12. CASE ExportCreate(r)
  <2>1. n \in Chapter /\ Passed(n)
    BY <1>1, <1>2, <1>12 DEF ExportCreate, Rests, Exporting
  <2>2. Grows /\ RowsEarned'
    BY <1>4, <1>12 DEF ExportCreate, CreateExport, textVars
  <2>3. /\ request'[r].step = "export.write" /\ request'[r].n = n
        /\ \A q \in Request \ {r} : request'[q] = request[q]
    BY <1>12 DEF ExportCreate, ThreadsOK, ConsoleTypeOK, Thread
  <2>. QED
    BY <1>11, <2>1, <2>2, <2>3 DEF Exporting, Grows
<1>13. CASE ExportWrite(r)
  <2>1. n \in Chapter /\ request[r].fmt \in Format /\ Passed(n)
    BY <1>1, <1>2, <1>13 DEF ExportWrite, Proceed, Rests, Exporting, ThreadsOK, OpenHasChapter
  <2>2. WriteFile(n, request[r].fmt, request[r].text)
    BY <1>13 DEF ExportWrite
  <2>3. /\ request'[r].step = "export.complete" /\ request'[r].n = n
        /\ \A q \in Request \ {r} : request'[q] = request[q]
    BY <1>13 DEF ExportWrite, Proceed, ThreadsOK, ConsoleTypeOK, Thread
  <2>4. Grows /\ HasFile(n)'
    BY <2>1, <2>2, <2>3, FilesGrow
  <2>5. RowsEarned'
    BY <1>2, <2>2, <2>4, RowsKept DEF WriteFile, textVars
  <2>. QED
    BY <1>11, <2>1, <2>3, <2>4, <2>5 DEF Exporting, Grows
<1>14. CASE ExportFails(r)
  <2>1. Grows /\ RowsEarned'
    BY <1>4, <1>14 DEF ExportFails, SetExport, textVars
  <2>. QED
    BY <1>3, <1>14, <2>1 DEF ExportFails
<1>15. CASE ExportComplete(r)
  <2>1. n \in Chapter /\ Passed(n) /\ HasFile(n)
    BY <1>1, <1>2, <1>15 DEF ExportComplete, Proceed, Rests, Exporting
  <2>2. Grows /\ RowsEarned'
    BY <1>4, <1>15 DEF ExportComplete, SetExport, textVars
  <2>3. /\ request'[r].step = "export.record" /\ request'[r].n = n
        /\ \A q \in Request \ {r} : request'[q] = request[q]
    BY <1>15 DEF ExportComplete, Proceed, ThreadsOK, ConsoleTypeOK, Thread
  <2>. QED
    BY <1>11, <2>1, <2>2, <2>3 DEF Exporting, Grows
<1>16. CASE ExportRecord(r)
  <2>1. n \in Chapter /\ Earned(n, "EXPORTED")
    BY <1>1, <1>2, <1>16 DEF ExportRecord, Answer, Rests, Exporting, Earned
  <2>2. Grows /\ RowsEarned'
    BY <1>2, <1>16, <2>1, SetStatusEarned DEF ExportRecord
  <2>. QED
    BY <1>3, <1>16, <2>2 DEF ExportRecord
<1>17. CASE RewriteWrite(r)
  <2>1. n \in Chapter
    BY <1>1, <1>17 DEF RewriteWrite, Answer
  <2>2. Grows /\ RowsEarned'
    BY <1>2, <1>4, <1>17, <2>1, RewriteEarned DEF RewriteWrite, storeVars, textVars, publishVars
  <2>. QED
    BY <1>3, <1>17, <2>2 DEF RewriteWrite
<1>18. CASE BibleWrite(r)
  <2>1. Grows /\ RowsEarned'
    BY <1>4, <1>18 DEF BibleWrite, UpdateBible, storeVars, textVars, publishVars
  <2>. QED
    BY <1>3, <1>18, <2>1 DEF BibleWrite
<1>19. CASE Configure(r)
  <2>1. Grows /\ RowsEarned'
    BY <1>4, <1>19 DEF Configure, SetJobConfig, textVars, publishVars
  <2>. QED
    BY <1>3, <1>19, <2>1 DEF Configure
<1>. QED
  BY <1>5, <1>6, <1>7, <1>8, <1>9, <1>10, <1>12, <1>13, <1>14, <1>15, <1>16, <1>17, <1>18, <1>19
  DEF Carry

-----------------------------------------------------------------------------
(* The statuses *)

LEMMA StatusInit == Init => StatusInv
BY DEF Init, StoreInit, NoChapter, ConsoleInit, Idle, StatusInv, RowsEarned, ThreadsRest,
   Rests, Earned, Finished, OnDisk, Exporting

LEMMA StatusNext == TypeInv /\ StatusInv /\ [Next]_vars => StatusInv'
<1>. SUFFICES ASSUME TypeInv, StatusInv, [Next]_vars
             PROVE  StatusInv'
  OBVIOUS
<1>1. StoreTypeOK /\ SlotsOK /\ ThreadsOK /\ RowsEarned /\ ThreadsRest
  BY DEF TypeInv, StatusInv
<1>2. CASE \/ WorkerNext /\ UNCHANGED consoleVars
           \/ (\E w \in Worker : Pipeline(w)) /\ UNCHANGED consoleVars
  BY <1>1, <1>2, WorkerEarned, PipelineEarned, ThreadsKept DEF StatusInv, consoleVars
<1>3. ASSUME NEW r \in Request, Begin(r) \/ Carry(r)
      PROVE  StatusInv'
  BY <1>1, <1>3, BeginEarned, CarryEarned
<1>4. CASE Outage
  <2>1. Grows /\ RowsEarned'
    BY <1>1, <1>4, SameFactsGrow, RowsKept DEF Outage, storeVars, textVars, publishVars
  <2>2. ThreadsRest'
    BY <1>4 DEF Outage, ThreadsRest, Rests, Idle, Exporting
  <2>. QED
    BY <2>1, <2>2 DEF StatusInv
<1>5. CASE UNCHANGED vars
  <2>1. Grows /\ UNCHANGED <<chapter, request>>
    BY <1>5, SameFactsGrow DEF vars, storeVars, textVars, publishVars, consoleVars
  <2>. QED
    BY <1>1, <2>1, RowsKept, ThreadsKept DEF StatusInv
<1>. QED
  BY <1>2, <1>3, <1>4, <1>5 DEF Next, ConsoleNext

LEMMA StatusAlways == Spec => []StatusInv
BY StatusInit, StatusNext, TypeInvAlways, PTL DEF Spec

(* No chapter is approved, exported or published without a review that it   *)
(* passed at some time, whatever requests and workers race.                 *)
THEOREM ApprovalSafe == Spec => []ApprovedOnlyAfterPass
<1>1. StatusInv => ApprovedOnlyAfterPass
  BY DEF StatusInv, RowsEarned, Earned, Passed, ApprovedOnlyAfterPass
<1>. QED
  BY <1>1, StatusAlways, PTL

(* No chapter says that it was exported before a file of it was written.    *)
THEOREM ExportSafe == Spec => []ExportedHasFile
<1>1. StatusInv => ExportedHasFile
  BY DEF StatusInv, RowsEarned, Earned, HasFile, ExportedHasFile
<1>. QED
  BY <1>1, StatusAlways, PTL

=============================================================================
