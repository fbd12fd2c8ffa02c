------------------------------- MODULE NovelQueue -----------------------------
(***************************************************************************)
(* The job queue, for any number of slots, processes, chapters, requests    *)
(* and faults, under the condition that its runs state too: no lease lapses *)
(* while its job is processed, the user cancels pending jobs only, and a    *)
(* chapter is written by one call.  Without each of them a job can have two *)
(* holders: a running job that is cancelled, or whose lease has lapsed, can *)
(* be claimed again, and a stage that fails puts its job back while its     *)
(* slot goes on.                                                            *)
(*                                                                         *)
(* That a job has one holder is not inductive.  The strengthening says what *)
(* a holder can find in its job row: RUNNING under a live lease until its   *)
(* result is saved, SUCCEEDED from there on.  No claim takes such a row.    *)
(*                                                                         *)
(* Most steps of a slot differ in what they write to chapters only.  The    *)
(* proofs therefore speak of five kinds of steps (a slot takes a job, goes  *)
(* on with it, settles it, lets go of it; time passes) and of what each     *)
(* does to slots and job rows; one lemma shows that there are no others.    *)
(***************************************************************************)
EXTENDS NovelTypes, FiniteSetTheorems

PlainQueue ==
  /\ LeaseMayLapse = FALSE
  /\ CancelOf \subseteq {"PENDING"}
  /\ Plans = {<<>>}

-----------------------------------------------------------------------------
(* The invariant *)

Single == Busy \ (Piped \cup {"abort"})
Shown  == {"export", "write"}     \* the result is saved, its file is not

Plain(slot) == slot.by # "stage" /\ (slot.pc \in Busy => slot.pc \in Single)

SlotsPlain == \A w \in Worker : Plain(worker[w])

JobsPlain ==
  \A n \in Chapter :
    /\ job[n].status = "NONE" => job[n].id = 0 /\ job[n].attempts = 0
    /\ job[n].status = "RUNNING" => job[n].due

(* A slot may be left with the row of an earlier incarnation. *)
SlotsOld ==
  \A w \in Worker : worker[w].pc \in Busy => worker[w].id <= job[worker[w].n].id

Right(slot, row) ==
  \/ row.status = "RUNNING" /\ row.lease = "live" /\ slot.pc \notin Shown
  \/ row.status = "SUCCEEDED" /\ slot.pc \in Shown \cup {"fail"}

SlotsRight ==
  \A w \in Worker : \A n \in Chapter : Holds(w, n) => Right(worker[w], job[n])

QueueInv == SlotsPlain /\ JobsPlain /\ SlotsOld /\ SlotsRight /\ AtMostOneWorker

-----------------------------------------------------------------------------
(* Attempts.  A job that can be claimed, and a request that may put a job   *)
(* (back) into the queue, are each worth one more attempt.                  *)

Claimable(n) ==
  \/ job[n].status = "PENDING"
  \/ job[n].status = "RUNNING" /\ Holders(n) = {}

Opening  == {"continue.gate", "queue", "rewrite"}
Opens(n) == {r \in Request : request[r].step \in Opening /\ request[r].n = n}

Accepted == MaxRequests - budget
Allowed  == MaxAttempts - 1 + (MaxFaults - faults) + Accepted

OpensCounted ==
  \A n \in Chapter :
    /\ IsFiniteSet(Opens(n))
    /\ Cardinality(Opens(n)) + (IF job[n].status = "NONE" THEN 0 ELSE 1) <= Accepted

Weight(n) == job[n].attempts + (IF Claimable(n) THEN 1 ELSE 0)

TriesCounted == \A n \in Chapter : Weight(n) + Cardinality(Opens(n)) <= Allowed

RetriesRight ==
  \A w \in Worker : \A n \in Chapter :
    Holds(w, n) /\ worker[w].pc = "fail" /\ worker[w].retry => job[n].attempts < MaxAttempts

CountInv == faults <= MaxFaults /\ OpensCounted /\ TriesCounted /\ RetriesRight

-----------------------------------------------------------------------------
(* Chapters. *)

QueueOnly == Ops \subseteq {"generate", "cancel", "pause", "continue"}

FirstIds == \A n \in Chapter : job[n].id = 0

(* The status of a chapter, by that of its job. *)
ChapterSays(status) ==
  CASE status = "NONE"      -> {"ABSENT"}
    [] status \in Queued    -> ACTIVE \cup {"CANCELLED", "FAILED"}
    [] status = "SUCCEEDED" -> {"WAITING_APPROVAL"}
    [] status = "FAILED"    -> {"FAILED"}
    [] status = "CANCELLED" -> {"CANCELLED", "FAILED"}

ChapterRight == \A n \in Chapter : chapter[n].status \in ChapterSays(job[n].status)

VoidRight ==
  \A w \in Worker : At(w, "voidjob") => chapter[worker[w].n].status = "CANCELLED"

ChapterInv == FirstIds /\ ChapterRight /\ VoidRight

-----------------------------------------------------------------------------
(* The kinds of steps of the worker. *)

Others(w) == \A v \in Worker \ {w} : worker'[v] = worker[v]
Onward(w) ==
  /\ Others(w)
  /\ worker'[w].pc \in Busy /\ Plain(worker'[w])
  /\ worker'[w].n = worker[w].n /\ worker'[w].id = worker[w].id

(* The chapter of a slot gets a status. *)
Stamps(n, status) ==
  /\ chapter'[n].status = status
  /\ \A m \in Chapter \ {n} : chapter'[m].status = chapter[m].status

(* Claim, when there is a job. *)
Takes(w, n) ==
  /\ worker[w].pc \notin Busy
  /\ Others(w) /\ Plain(worker'[w])
  /\ worker'[w].pc = "context" /\ worker'[w].n = n /\ worker'[w].id = job[n].id
  /\ SweptRow(job[n]).status = "PENDING" /\ job[n].due
  /\ \A m \in Chapter \ {n} : job'[m] = SweptRow(job[m])
  /\ job'[n].id = job[n].id /\ job'[n].status = "RUNNING" /\ job'[n].lease = "live"
  /\ job'[n].due /\ job'[n].attempts = OneMore(job[n].attempts)
  /\ chapter' = chapter /\ faults' = faults

(* The slot goes on with its job. *)
Carries(w) ==
  LET n == worker[w].n IN
  /\ worker[w].pc \in Busy
  /\ Onward(w)
  /\ worker'[w].pc \in Shown => worker[w].pc \in Shown
  /\ worker[w].pc \in Shown \cup {"fail"} =>
       worker'[w].pc \in Shown \cup {"fail"} /\ chapter' = chapter
  /\ worker'[w].pc = "fail" /\ worker'[w].retry /\ job[n].id = worker[w].id =>
       job[n].attempts < MaxAttempts
  /\ chapter' = chapter \/ \E status \in ACTIVE \cup {"CANCELLED"} : Stamps(n, status)
  /\ worker'[w].pc = "voidjob" => chapter'[n].status = "CANCELLED"
  /\ job' = job /\ faults' <= faults

(* The slot writes the outcome of its try to the job row (when that is      *)
(* still there) and to the chapter.  It goes on, if at all, with a success. *)
Settles(w) ==
  LET n == worker[w].n IN
  /\ worker[w].pc \in Busy
  /\ Others(w) /\ Plain(worker'[w])
  /\ \E outcome \in {"PENDING", "SUCCEEDED", "FAILED", "CANCELLED"} :
       /\ job[n].id = worker[w].id => job'[n].status = outcome
       /\ outcome = "PENDING" => worker[w].pc = "fail" /\ worker[w].retry
       /\ worker'[w].pc \in Busy => Onward(w) /\ worker'[w].pc = "export" /\ outcome = "SUCCEEDED"
       /\ \/ outcome \in {"PENDING", "FAILED"} /\ Stamps(n, outcome)
          \/ outcome = "SUCCEEDED" /\ Stamps(n, "WAITING_APPROVAL")
          \/ outcome = "CANCELLED" /\ worker[w].pc = "voidjob" /\ chapter' = chapter
  /\ job'[n].id = job[n].id /\ job'[n].attempts = job[n].attempts
  /\ \A m \in Chapter : m # n \/ job[n].id # worker[w].id => job'[m] = job[m]
  /\ faults' = faults

(* Slots end: after the last step of a success, or by a fault. *)
LetsGo ==
  /\ \A w \in Worker :
       worker'[w] = worker[w] \/ (worker'[w].pc \notin Busy /\ Plain(worker'[w]))
  /\ \/ faults' = faults - 1
     \/ /\ faults' = faults
        /\ \A w \in Worker :
             worker'[w] = worker[w] \/ worker[w].pc \notin Busy \/ worker[w].pc = "write"
  /\ job' = job /\ chapter' = chapter

(* Time passes. *)
Ticks ==
  /\ \A n \in Chapter :
       /\ job'[n].status = job[n].status
       /\ job'[n].id = job[n].id /\ job'[n].attempts = job[n].attempts
       /\ job[n].due => job'[n].due
       /\ job'[n].lease = job[n].lease \/ Abandoned(n)
  /\ worker' = worker /\ chapter' = chapter /\ faults' = faults

WorkerKind ==
  \/ \E w \in Worker : Carries(w) \/ Settles(w) \/ \E n \in Chapter : Takes(w, n)
  \/ LetsGo
  \/ Ticks

LEMMA FreePlain ==
  ASSUME NEW pc \in {"ready", "done"}
  PROVE  Plain(Free(pc)) /\ Free(pc).pc \notin Busy
BY DEF Free, Plain, Busy

LEMMA SlotMoves ==
  ASSUME SlotsOK, NEW w \in Worker, NEW slot, worker' = [worker EXCEPT ![w] = slot]
  PROVE  worker'[w] = slot /\ Others(w)
BY DEF SlotsOK, WorkerTypeOK, Others

LEMMA BusyType ==
  ASSUME SlotsOK, SlotsPlain, NEW w \in Worker
  PROVE  /\ worker[w] \in Slot /\ Plain(worker[w])
         /\ worker[w].pc \in Busy => worker[w].n \in Chapter
BY DEF SlotsOK, WorkerTypeOK, BusyHasChapter, Placed, SlotsPlain

LEMMA GoesOn ==
  ASSUME SlotsOK, SlotsPlain, NEW w \in Worker, NEW pc \in Single, Goto(w, pc)
  PROVE  Onward(w) /\ worker'[w].pc = pc
<1>1. worker[w] \in Slot /\ Plain(worker[w])
  BY BusyType
<1>2. worker'[w] = [worker[w] EXCEPT !.pc = pc] /\ Others(w)
  BY DEF Goto, SlotsOK, WorkerTypeOK, Others
<1>. QED
  BY <1>1, <1>2 DEF Onward, Plain, Slot, Single

LEMMA FinishesPlain ==
  ASSUME SlotsOK, NEW w \in Worker, Finish(w)
  PROVE  worker'[w] = Free("done") /\ Others(w)
         /\ worker'[w].pc \notin Busy /\ Plain(worker'[w])
BY SlotMoves, FreePlain DEF Finish

LEMMA FailsOn ==
  ASSUME StoreTypeOK, SlotsOK, SlotsPlain, NEW w \in Worker, worker[w].pc \in Busy,
         NEW limit \in {0, MaxAttempts}, NEW by \in {"service", "loop"},
         ReadAttempts(w, limit, by)
  PROVE  /\ Onward(w) /\ worker'[w].pc = "fail"
         /\ worker'[w].retry /\ job[worker[w].n].id = worker[w].id =>
              job[worker[w].n].attempts < MaxAttempts
<1>1. PICK retry \in Retries(w, limit) :
        worker' = [worker EXCEPT ![w] = [worker[w] EXCEPT !.pc = "fail", !.retry = retry, !.by = by]]
  BY DEF ReadAttempts
<1>2. worker[w] \in Slot /\ Plain(worker[w])
  BY BusyType
<1>3. worker'[w] = [worker[w] EXCEPT !.pc = "fail", !.retry = retry, !.by = by] /\ Others(w)
  BY <1>1, SlotMoves
<1>4. "fail" \in Busy /\ "fail" \in Single
  BY DEF Busy, Single, Piped
<1>5. Onward(w) /\ worker'[w].pc = "fail" /\ worker'[w].retry = retry
  BY <1>2, <1>3, <1>4 DEF Onward, Plain, Slot
<1>6. retry /\ job[worker[w].n].id = worker[w].id =>
        job[worker[w].n].attempts < limit
  BY DEF Retries
<1>7. CASE limit = MaxAttempts
  BY <1>5, <1>6, <1>7
<1>8. CASE limit = 0
  <2>1. job[worker[w].n].attempts \in Nat
    BY BusyType DEF StoreTypeOK, JobRow
  <2>. QED
    BY <1>5, <1>6, <1>8, <2>1, WorkerAssumption
<1>. QED
  BY <1>7, <1>8

LEMMA StatusStamped ==
  ASSUME StoreTypeOK, NEW n \in Chapter, NEW status, SetStatus(n, status)
  PROVE  Stamps(n, status) /\ UNCHANGED job
<1>1. chapter[n] \in ChapterRow
  BY DEF StoreTypeOK
<1>. QED
  BY <1>1 DEF SetStatus, Stamps, StoreTypeOK, ChapterRow, queueVars

(* The job row of slot w, when it is still there, gets a row. *)
LEMMA RowSettled ==
  ASSUME StoreTypeOK, NEW n \in Chapter, NEW id, NEW row,
         row.id = job[n].id, row.attempts = job[n].attempts,
         job' = IF job[n].id = id THEN [job EXCEPT ![n] = row] ELSE job
  PROVE  /\ job[n].id = id => job'[n].status = row.status
         /\ job'[n].id = job[n].id /\ job'[n].attempts = job[n].attempts
         /\ \A m \in Chapter : m # n \/ job[n].id # id => job'[m] = job[m]
BY DEF StoreTypeOK

LEMMA VoidSettles ==
  ASSUME StoreTypeOK, SlotsOK, SlotsPlain, NEW w \in Worker, VoidTheJob(w)
  PROVE  Settles(w)
<1>. DEFINE n == worker[w].n
           row == [job[n] EXCEPT !.status = "CANCELLED"]
<1>1. worker[w].pc = "voidjob" /\ "voidjob" \in Busy /\ n \in Chapter
  BY BusyType DEF VoidTheJob, At, Busy
<1>2. Others(w) /\ worker'[w].pc \notin Busy /\ Plain(worker'[w])
  BY FinishesPlain DEF VoidTheJob
<1>3. job[n] \in JobRow
  BY <1>1 DEF StoreTypeOK
<1>4. row.status = "CANCELLED" /\ row.id = job[n].id /\ row.attempts = job[n].attempts
  BY <1>3 DEF JobRow
<1>5. job' = IF job[n].id = worker[w].id THEN [job EXCEPT ![n] = row] ELSE job
  BY DEF VoidTheJob, VoidJob
<1>6. chapter' = chapter /\ faults' = faults
  BY DEF VoidTheJob, VoidJob, textVars
<1>. HIDE DEF row
<1>7. /\ job[n].id = worker[w].id => job'[n].status = "CANCELLED"
      /\ job'[n].id = job[n].id /\ job'[n].attempts = job[n].attempts
      /\ \A m \in Chapter : m # n \/ job[n].id # worker[w].id => job'[m] = job[m]
  BY <1>1, <1>4, <1>5, RowSettled
<1>. QED
  BY <1>1, <1>2, <1>6, <1>7 DEF Settles

LEMMA SaveSettles ==
  ASSUME PlainQueue, StoreTypeOK, SlotsOK, SlotsPlain, NEW w \in Worker, Save(w)
  PROVE  Settles(w)
<1>. DEFINE n == worker[w].n
<1>1. worker[w].pc = "save" /\ "save" \in Busy /\ n \in Chapter /\ worker[w] \in Slot
  BY BusyType DEF Save, At, Busy
<1>2. PICK passed \in BOOLEAN :
        /\ SaveGeneration(n, worker[w].id, worker[w].text, passed)
        /\ IF passed /\ AutoExport THEN Goto(w, "export") ELSE Finalized(w)
  BY DEF Save
<1>. DEFINE outcome == IF passed THEN "SUCCEEDED" ELSE "FAILED"
           row == [job[n] EXCEPT !.status = outcome]
<1>3. worker[w].plan = <<>>
  BY <1>1 DEF PlainQueue, Slot
<1>4. \/ Onward(w) /\ worker'[w].pc = "export" /\ passed
      \/ Others(w) /\ Plain(worker'[w]) /\ worker'[w].pc \notin Busy
  <2>1. "export" \in Single
    BY DEF Single, Busy, Piped
  <2>. QED
    BY <1>2, <1>3, <2>1, GoesOn, FinishesPlain DEF Finalized
<1>5. Others(w) /\ Plain(worker'[w])
  BY <1>4 DEF Onward
<1>6. job[n] \in JobRow /\ chapter[n] \in ChapterRow
  BY <1>1 DEF StoreTypeOK
<1>7. row.status = outcome /\ row.id = job[n].id /\ row.attempts = job[n].attempts
  BY <1>6 DEF JobRow
<1>8. job' = IF job[n].id = worker[w].id THEN [job EXCEPT ![n] = row] ELSE job
  BY <1>2 DEF SaveGeneration
<1>9. Stamps(n, IF passed THEN "WAITING_APPROVAL" ELSE "FAILED") /\ faults' = faults
  BY <1>1, <1>2, <1>6 DEF Save, SaveGeneration, Stamps, StoreTypeOK, ChapterRow
<1>. HIDE DEF row
<1>10. /\ job[n].id = worker[w].id => job'[n].status = outcome
       /\ job'[n].id = job[n].id /\ job'[n].attempts = job[n].attempts
       /\ \A m \in Chapter : m # n \/ job[n].id # worker[w].id => job'[m] = job[m]
  BY <1>1, <1>7, <1>8, RowSettled
<1>. QED
  BY <1>1, <1>4, <1>5, <1>9, <1>10 DEF Settles

LEMMA FailureSettles ==
  ASSUME StoreTypeOK, SlotsOK, SlotsPlain, NEW w \in Worker, WriteFailure(w)
  PROVE  Settles(w)
<1>. DEFINE n == worker[w].n
           outcome == IF worker[w].retry THEN "PENDING" ELSE "FAILED"
           row == [job[n] EXCEPT !.status = outcome, !.lease = "none", !.due = ~worker[w].retry]
<1>1. worker[w].pc = "fail" /\ "fail" \in Busy /\ n \in Chapter /\ worker[w].by # "stage"
  BY BusyType DEF WriteFailure, At, Busy, Plain
<1>2. Others(w) /\ worker'[w].pc \notin Busy /\ Plain(worker'[w])
  BY <1>1, FinishesPlain DEF WriteFailure
<1>3. job[n] \in JobRow /\ chapter[n] \in ChapterRow
  BY <1>1 DEF StoreTypeOK
<1>4. row.status = outcome /\ row.id = job[n].id /\ row.attempts = job[n].attempts
  BY <1>3 DEF JobRow
<1>5. job' = IF job[n].id = worker[w].id THEN [job EXCEPT ![n] = row] ELSE job
  BY DEF WriteFailure, FailJob
<1>6. Stamps(n, outcome) /\ faults' = faults
  BY <1>1, <1>3 DEF WriteFailure, FailJob, Stamps, StoreTypeOK, ChapterRow
<1>. HIDE DEF row
<1>7. /\ job[n].id = worker[w].id => job'[n].status = outcome
      /\ job'[n].id = job[n].id /\ job'[n].attempts = job[n].attempts
      /\ \A m \in Chapter : m # n \/ job[n].id # worker[w].id => job'[m] = job[m]
  BY <1>1, <1>4, <1>5, RowSettled
<1>. QED
  BY <1>1, <1>2, <1>6, <1>7 DEF Settles

LEMMA ClaimTakes ==
  ASSUME StoreTypeOK, SlotsOK, SlotsPlain, NEW w \in Worker, NEW n \in Chapter, At(w, "ready"),
         ClaimJob(n), UNCHANGED faults,
         worker' = [worker EXCEPT ![w] =
                      [Free("context") EXCEPT !.n = n, !.id = job[n].id, !.plan = job[n].plan]]
  PROVE  Takes(w, n)
<1>1. worker[w].pc \notin Busy
  BY DEF At, Busy
<1>2. /\ Others(w) /\ Plain(worker'[w])
      /\ worker'[w].pc = "context" /\ worker'[w].n = n /\ worker'[w].id = job[n].id
  <2>. DEFINE slot == [Free("context") EXCEPT !.n = n, !.id = job[n].id, !.plan = job[n].plan]
  <2>1. slot.pc = "context" /\ slot.n = n /\ slot.id = job[n].id /\ slot.by = "service"
    BY DEF Free
  <2>2. worker' = [worker EXCEPT ![w] = slot]
    OBVIOUS
  <2>. HIDE DEF slot
  <2>3. worker'[w] = slot /\ Others(w)
    BY <2>2, SlotMoves
  <2>. QED
    BY <2>1, <2>3 DEF Plain, Single, Busy, Piped
<1>3. SweptRow(job[n]).status = "PENDING" /\ job[n].due
  BY DEF ClaimJob, Ready
<1>4. /\ job'[n] = ClaimedRow(SweptRow(job[n]))
      /\ \A m \in Chapter \ {n} : job'[m] = SweptRow(job[m])
  BY DEF ClaimJob
<1>5. job[n] \in JobRow
  BY DEF StoreTypeOK
<1>6. SweptRow(job[n]) \in JobRow /\ SweptRow(job[n]).id = job[n].id
      /\ SweptRow(job[n]).due = job[n].due /\ SweptRow(job[n]).attempts = job[n].attempts
  BY <1>5 DEF SweptRow, JobRow, JobStatus, Lease
<1>7. /\ job'[n].id = job[n].id /\ job'[n].status = "RUNNING" /\ job'[n].lease = "live"
      /\ job'[n].due /\ job'[n].attempts = OneMore(job[n].attempts)
  BY <1>3, <1>4, <1>6 DEF ClaimedRow, JobRow
<1>8. chapter' = chapter /\ faults' = faults
  BY DEF ClaimJob, textVars
<1>. QED
  BY <1>1, <1>2, <1>3, <1>4, <1>7, <1>8 DEF Takes

(* No job is ready: there is nothing to sweep either. *)
LEMMA ClaimNoneLetsGo ==
  ASSUME StoreTypeOK, SlotsOK, SlotsPlain, JobsPlain, NEW w \in Worker, At(w, "ready"),
         ClaimNone, Finish(w), UNCHANGED faults
  PROVE  LetsGo
<1>1. \A n \in Chapter : SweptRow(job[n]) = job[n]
  <2>. SUFFICES ASSUME NEW n \in Chapter, job[n].status = "RUNNING", job[n].lease = "lapsed"
               PROVE  FALSE
    BY DEF SweptRow
  <2>1. job[n].due /\ job[n] \in JobRow
    BY DEF JobsPlain, StoreTypeOK
  <2>2. SweptRow(job[n]).status = "PENDING"
    BY <2>1 DEF SweptRow, JobRow
  <2>. QED
    BY <2>1, <2>2 DEF ClaimNone, Ready
<1>2. job' = job /\ chapter' = chapter
  BY <1>1 DEF ClaimNone, StoreTypeOK, textVars
<1>3. worker'[w].pc \notin Busy /\ Plain(worker'[w]) /\ Others(w) /\ worker[w].pc \notin Busy
  BY FinishesPlain DEF At, Busy
<1>. QED
  BY <1>2, <1>3 DEF LetsGo, Others

(* The steps that stamp the chapter on the way to the result. *)
LEMMA WorkCarries ==
  ASSUME PlainQueue, StoreTypeOK, SlotsOK, SlotsPlain, NEW w \in Worker,
         \/ ReadContext(w) \/ StartPlanning(w) \/ VoidChapter(w) \/ StartGenerating(w)
         \/ StartReviewing(w)
  PROVE  Carries(w)
<1>. DEFINE n == worker[w].n
<1>1. /\ worker[w].pc \in {"context", "plan", "void", "compose", "call"}
      /\ worker[w].pc \in Busy /\ worker[w].pc \notin Shown \cup {"fail"}
  BY DEF ReadContext, StartPlanning, VoidChapter, StartGenerating, StartReviewing, At, Busy, Shown
<1>2. n \in Chapter /\ worker[w] \in Slot /\ Plain(worker[w])
  BY <1>1, BusyType
<1>3. worker[w].plan = <<>>
  BY <1>2 DEF PlainQueue, Slot
<1>4. /\ Onward(w) /\ worker'[w].pc \notin Shown \cup {"fail"}
      /\ worker'[w].pc = "voidjob" => VoidChapter(w)
  <2>1. {"plan", "void", "compose", "voidjob", "call", "save"} \subseteq Single
    BY DEF Single, Busy, Piped
  <2>2. CASE ReadContext(w)
    <3>. DEFINE slot == [worker[w] EXCEPT !.pc = "plan", !.paused = novel.paused]
    <3>1. slot.pc = "plan" /\ slot.n = n /\ slot.id = worker[w].id /\ slot.by = worker[w].by
      BY <1>2 DEF Slot
    <3>2. worker' = [worker EXCEPT ![w] = slot]
      BY <2>2 DEF ReadContext
    <3>. HIDE DEF slot
    <3>. QED
      BY <1>2, <2>1, <3>1, <3>2, SlotMoves DEF Onward, Plain, Single, Shown
  <2>3. CASE StartReviewing(w)
    <3>1. PICK text \in Body : worker' = [worker EXCEPT ![w] = [@ EXCEPT !.pc = "save", !.text = text]]
      BY <2>3 DEF StartReviewing, Finalize
    <3>. DEFINE slot == [worker[w] EXCEPT !.pc = "save", !.text = text]
    <3>2. slot.pc = "save" /\ slot.n = n /\ slot.id = worker[w].id /\ slot.by = worker[w].by
      BY <1>2 DEF Slot
    <3>3. worker' = [worker EXCEPT ![w] = slot]
      BY <3>1
    <3>. HIDE DEF slot
    <3>. QED
      BY <1>2, <2>1, <3>2, <3>3, SlotMoves DEF Onward, Plain, Single, Shown
  <2>4. CASE StartPlanning(w)
    <3>1. Goto(w, "void") \/ Goto(w, "compose")
      BY <1>3, <2>4 DEF StartPlanning
    <3>. QED
      BY <2>1, <3>1, GoesOn DEF Shown
  <2>5. CASE VoidChapter(w)
    BY <2>1, <2>5, GoesOn DEF VoidChapter, Shown
  <2>6. CASE StartGenerating(w)
    BY <2>1, <2>6, GoesOn DEF StartGenerating, Shown
  <2>. QED
    BY <2>2, <2>3, <2>4, <2>5, <2>6
<1>5. /\ job' = job /\ faults' = faults
      /\ chapter' = chapter \/ \E status \in ACTIVE \cup {"CANCELLED"} : Stamps(n, status)
      /\ VoidChapter(w) => chapter'[n].status = "CANCELLED"
  <2>1. {"PLANNING", "GENERATING", "REVIEWING"} \subseteq ACTIVE
    BY DEF ACTIVE
  <2>2. CASE ReadContext(w)
    BY <2>2 DEF ReadContext, VoidChapter, At, storeVars, queueVars, textVars
  <2>3. CASE VoidChapter(w)
    BY <1>2, <2>3, StatusStamped DEF VoidChapter, Stamps
  <2>4. CASE StartPlanning(w)
    BY <1>2, <2>1, <2>4, StatusStamped DEF StartPlanning, VoidChapter, At
  <2>5. CASE StartGenerating(w)
    BY <1>2, <2>1, <2>5, StatusStamped DEF StartGenerating, VoidChapter, At
  <2>6. CASE StartReviewing(w)
    BY <1>2, <2>1, <2>6, StatusStamped DEF StartReviewing, Finalize, VoidChapter, At
  <2>. QED
    BY <2>2, <2>3, <2>4, <2>5, <2>6
<1>6. faults \in Nat
  BY DEF SlotsOK, WorkerTypeOK
<1>. QED
  BY <1>1, <1>4, <1>5, <1>6 DEF Carries

(* The steps that lead to fail_job, and the second read of the export. *)
LEMMA FailureCarries ==
  ASSUME StoreTypeOK, SlotsOK, SlotsPlain, NEW w \in Worker,
         NEW limit \in {0, MaxAttempts}, NEW by \in {"service", "loop"},
         ReadAttempts(w, limit, by), worker[w].pc \in Busy, UNCHANGED storeVars, faults' <= faults
  PROVE  Carries(w)
<1>1. /\ Onward(w) /\ worker'[w].pc = "fail"
      /\ worker'[w].retry /\ job[worker[w].n].id = worker[w].id =>
           job[worker[w].n].attempts < MaxAttempts
  BY FailsOn
<1>2. job' = job /\ chapter' = chapter
  BY DEF storeVars, queueVars, textVars
<1>. QED
  BY <1>1, <1>2 DEF Carries, Shown

LEMMA ExportCarries ==
  ASSUME StoreTypeOK, SlotsOK, SlotsPlain, NEW w \in Worker, AutoRead(w)
  PROVE  Carries(w)
<1>1. worker[w].pc = "export" /\ "export" \in Busy /\ worker[w] \in Slot /\ Plain(worker[w])
  BY BusyType DEF AutoRead, At, Busy
<1>2. faults' = faults /\ faults \in Nat /\ UNCHANGED storeVars
  BY DEF AutoRead, SlotsOK, WorkerTypeOK
<1>3. CASE ReadAttempts(w, MaxAttempts, "loop")
  BY <1>1, <1>2, <1>3, FailureCarries
<1>4. CASE ~ReadAttempts(w, MaxAttempts, "loop")
  <2>. DEFINE slot == [worker[w] EXCEPT !.pc = "write", !.text = chapter[worker[w].n].body]
  <2>1. worker' = [worker EXCEPT ![w] = slot]
    BY <1>4 DEF AutoRead
  <2>2. slot.pc = "write" /\ slot.n = worker[w].n /\ slot.id = worker[w].id
        /\ slot.by = worker[w].by
    BY <1>1 DEF Slot
  <2>. HIDE DEF slot
  <2>3. Onward(w) /\ worker'[w].pc = "write"
    BY <1>1, <2>1, <2>2, SlotMoves DEF Onward, Plain, Single, Busy, Piped
  <2>. QED
    BY <1>1, <1>2, <2>3 DEF Carries, Shown, storeVars, queueVars, textVars
<1>. QED
  BY <1>3, <1>4

LEMMA WorkerKinds ==
  ASSUME PlainQueue, StoreTypeOK, SlotsOK, SlotsPlain, JobsPlain, WorkerNext
  PROVE  WorkerKind
<1>1. ASSUME NEW w \in Worker, Work(w)
      PROVE  WorkerKind
  <2>1. CASE Claim(w)
    <3>1. CASE \E n \in Chapter :
                 /\ ClaimJob(n)
                 /\ worker' = [worker EXCEPT ![w] =
                      [Free("context") EXCEPT !.n = n, !.id = job[n].id, !.plan = job[n].plan]]
      BY <2>1, <3>1, ClaimTakes DEF Claim, WorkerKind
    <3>2. CASE ClaimNone /\ Finish(w)
      BY <2>1, <3>2, ClaimNoneLetsGo DEF Claim, WorkerKind
    <3>. QED
      BY <2>1, <3>1, <3>2 DEF Claim
  <2>2. CASE \/ ReadContext(w) \/ StartPlanning(w) \/ VoidChapter(w) \/ StartGenerating(w)
             \/ StartReviewing(w)
    BY <2>2, WorkCarries DEF WorkerKind
  <2>3. CASE VoidTheJob(w)
    BY <2>3, VoidSettles DEF WorkerKind
  <2>4. CASE Save(w)
    BY <2>4, SaveSettles DEF WorkerKind
  <2>5. CASE AutoRead(w)
    BY <2>5, ExportCarries DEF WorkerKind
  <2>6. CASE AutoWrite(w)
    <3>1. worker[w].pc = "write" /\ worker[w] \in Slot
      BY <2>6, BusyType DEF AutoWrite, At
    <3>2. Finish(w)
      BY <2>6, <3>1 DEF AutoWrite, Finalized, PlainQueue, Slot
    <3>3. worker'[w].pc \notin Busy /\ Plain(worker'[w]) /\ Others(w)
      BY <3>2, FinishesPlain
    <3>4. job' = job /\ chapter' = chapter /\ faults' = faults
      BY <2>6 DEF AutoWrite, WriteFile, storeVars, queueVars, textVars
    <3>. QED
      BY <3>1, <3>3, <3>4 DEF LetsGo, Others, WorkerKind
  <2>7. CASE CallFails(w)
    <3>1. worker[w].pc \in Busy /\ UNCHANGED storeVars /\ faults' = faults /\ faults \in Nat
          /\ \E limit \in {0, MaxAttempts} : ReadAttempts(w, limit, "service")
      BY <2>7 DEF CallFails, At, Busy, SlotsOK, WorkerTypeOK
    <3>. QED
      BY <3>1, FailureCarries DEF WorkerKind
  <2>8. CASE WriteFailure(w)
    BY <2>8, FailureSettles DEF WorkerKind
  <2>. QED
    BY <1>1, <2>1, <2>2, <2>3, <2>4, <2>5, <2>6, <2>7, <2>8 DEF Work
<1>2. ASSUME NEW w \in Worker, Raise(w)
      PROVE  WorkerKind
  <2>1. faults' = faults - 1 /\ faults \in Nat /\ UNCHANGED storeVars /\ worker[w].pc \in Busy
    BY <1>2 DEF Raise, Fault, SlotsOK, WorkerTypeOK
  <2>2. CASE Finish(w)
    BY <2>1, <2>2, FinishesPlain DEF LetsGo, Others, WorkerKind, storeVars, queueVars, textVars
  <2>3. CASE ReadAttempts(w, MaxAttempts, "loop")
    BY <2>1, <2>3, FailureCarries DEF WorkerKind
  <2>. QED
    BY <1>2, <2>2, <2>3 DEF Raise
<1>3. ASSUME NEW p \in Process, Kill(p) \/ NextPass(p)
      PROVE  WorkerKind
  <2>1. \A w \in Worker : worker'[w] = worker[w] \/ (worker'[w] = Free("ready") /\ Home[w] = p)
    BY <1>3 DEF Kill, NextPass
  <2>2. job' = job /\ chapter' = chapter
    BY <1>3 DEF Kill, NextPass, storeVars, queueVars, textVars
  <2>3. \/ faults' = faults - 1
        \/ faults' = faults /\ \A w \in Worker : Home[w] = p => worker[w].pc \notin Busy
    BY <1>3 DEF Kill, NextPass, Fault, At, Busy
  <2>. QED
    BY <2>1, <2>2, <2>3, FreePlain DEF LetsGo, WorkerKind
<1>4. ASSUME NEW n \in Chapter, BackoffElapses(n) \/ LeaseLapses(n) \/ Overrun(n)
      PROVE  WorkerKind
  <2>1. job[n] \in JobRow
    BY DEF StoreTypeOK
  <2>2. CASE BackoffElapses(n)
    <3>1. job' = [job EXCEPT ![n] = [job[n] EXCEPT !.due = TRUE]] /\ UNCHANGED workerVars
          /\ UNCHANGED chapter
      BY <2>2 DEF BackoffElapses, textVars
    <3>. QED
      BY <2>1, <3>1 DEF Ticks, WorkerKind, StoreTypeOK, JobRow, workerVars
  <2>3. CASE LeaseLapses(n)
    <3>1. job' = [job EXCEPT ![n] = [job[n] EXCEPT !.lease = "lapsed"]]
          /\ UNCHANGED <<worker, faults, chapter>> /\ Abandoned(n)
      BY <2>3 DEF LeaseLapses, Lapse, textVars
    <3>. QED
      BY <2>1, <3>1 DEF Ticks, WorkerKind, StoreTypeOK, JobRow
  <2>. QED
    BY <1>4, <2>2, <2>3 DEF Overrun, PlainQueue
<1>. QED
  BY <1>1, <1>2, <1>3, <1>4 DEF WorkerNext

-----------------------------------------------------------------------------
(* The kinds of steps of the console, as far as job rows go. *)

SameRow(n) ==
  /\ job'[n].status = job[n].status /\ job'[n].id = job[n].id
  /\ job'[n].attempts = job[n].attempts
  /\ job'[n].lease = job[n].lease /\ job'[n].due = job[n].due

Keeps == \A n \in Chapter : SameRow(n)

(* create_job: a new row, or the row of a failed or cancelled job. *)
Queues(n) ==
  /\ job[n].status \in {"NONE", "FAILED", "CANCELLED"} /\ job'[n].status = "PENDING"
  /\ job'[n].id = job[n].id /\ job'[n].attempts = job[n].attempts
  /\ \A m \in Chapter \ {n} : job'[m] = job[m]
  /\ \/ job[n].status = "NONE" /\ (chapter[n].status = "ABSENT" => Stamps(n, "PENDING"))
     \/ job[n].status # "NONE" /\ chapter' = chapter

Cancels(n) ==
  /\ job[n].status = "PENDING" /\ job'[n].status = "CANCELLED"
  /\ job'[n].id = job[n].id /\ job'[n].attempts = job[n].attempts
  /\ \A m \in Chapter \ {n} : job'[m] = job[m]
  /\ IF chapter[n].status \in ACTIVE THEN Stamps(n, "CANCELLED") ELSE chapter' = chapter

Renews(n) ==
  /\ job[n].status \notin Queued /\ job'[n].status = "PENDING"
  /\ job'[n].id = job[n].id + 1 /\ job'[n].attempts = 0
  /\ \A m \in Chapter \ {n} : job'[m] = job[m]

ConsoleKind(n) == Queues(n) \/ Cancels(n) \/ Renews(n)

LEMMA RowKept == ASSUME UNCHANGED job PROVE Keeps
BY DEF Keeps, SameRow

LEMMA QueueKind ==
  ASSUME StoreTypeOK, JobsPlain, NEW n \in Chapter, QueueJob(n)
  PROVE  Keeps \/ Queues(n)
<1>1. job[n] \in JobRow
  BY DEF StoreTypeOK
<1>2. CASE job[n].status \in Queued \cup {"SUCCEEDED"}
  BY <1>2, RowKept DEF QueueJob, Queued, storeVars, queueVars
<1>3. CASE job[n].status \in {"FAILED", "CANCELLED"}
  <2>1. job' = [job EXCEPT ![n] = [job[n] EXCEPT !.status = "PENDING"]] /\ chapter' = chapter
    BY <1>3 DEF QueueJob, Queued, textVars
  <2>. QED
    BY <1>1, <1>3, <2>1 DEF Queues, StoreTypeOK, JobRow
<1>4. CASE job[n].status = "NONE"
  <2>. DEFINE row == [NoJob EXCEPT !.status = "PENDING"]
  <2>1. job' = [job EXCEPT ![n] = row]
    BY <1>4 DEF QueueJob, Queued
  <2>2. row.status = "PENDING" /\ row.id = job[n].id /\ row.attempts = job[n].attempts
    BY <1>4 DEF NoJob, JobsPlain
  <2>3. chapter[n].status = "ABSENT" => Stamps(n, "PENDING")
    BY <1>4 DEF QueueJob, Queued, Stamps, StoreTypeOK, ChapterRow
  <2>. HIDE DEF row
  <2>. QED
    BY <1>4, <2>1, <2>2, <2>3 DEF Queues, StoreTypeOK
<1>. QED
  BY <1>1, <1>2, <1>3, <1>4 DEF JobRow, JobStatus, Queued

LEMMA CancelKind ==
  ASSUME StoreTypeOK, NEW n \in Chapter, job[n].status = "PENDING", CancelJob(n)
  PROVE  Cancels(n)
<1>1. job[n] \in JobRow
  BY DEF StoreTypeOK
<1>2. IF chapter[n].status \in ACTIVE THEN Stamps(n, "CANCELLED") ELSE chapter' = chapter
  BY DEF CancelJob, Stamps, StoreTypeOK, ChapterRow
<1>. QED
  BY <1>1, <1>2 DEF CancelJob, Cancels, StoreTypeOK, JobRow

LEMMA RewriteKind ==
  ASSUME StoreTypeOK, NEW n \in Chapter, RewriteChapter(n)
  PROVE  Renews(n)
BY DEF RewriteChapter, Rewritable, Renews, StoreTypeOK, NoJob

LEMMA ConfigKind ==
  ASSUME StoreTypeOK, NEW n \in Chapter, NEW id, NEW plan, SetJobConfig(n, id, plan)
  PROVE  Keeps
<1>1. job[n] \in JobRow
  BY DEF StoreTypeOK
<1>. DEFINE row == [job[n] EXCEPT !.plan = plan]
<1>2. job' = [job EXCEPT ![n] = row] \/ UNCHANGED job
  BY DEF SetJobConfig
<1>3. /\ row.status = job[n].status /\ row.id = job[n].id /\ row.attempts = job[n].attempts
      /\ row.lease = job[n].lease /\ row.due = job[n].due
  BY <1>1 DEF JobRow
<1>. HIDE DEF row
<1>. QED
  BY <1>2, <1>3, RowKept DEF Keeps, SameRow, StoreTypeOK

(* A request begins. *)
LEMMA BeginKinds ==
  ASSUME PlainQueue, StoreTypeOK, NEW r \in Request, Begin(r)
  PROVE  Keeps \/ \E n \in Chapter : Cancels(n)
<1>1. \/ UNCHANGED job
      \/ \E n \in Chapter : job[n].status \in CancelOf /\ CancelJob(n)
  BY DEF Begin, Continue, Pause, EditBible, Generate, Cancel, Review, Approve, EditTitle,
     Rollback, Rewrite, EditText, Export, ExportAgain, Publish, SetPaused, ManualPublish,
     storeVars, queueVars
<1>. QED
  BY <1>1, RowKept, CancelKind DEF PlainQueue

(* A handler goes on: the two steps that (re)open a job, and the others. *)
LEMMA CarryKinds ==
  ASSUME StoreTypeOK, ThreadsOK, JobsPlain, NEW r \in Request, Carry(r)
  PROVE  \/ Keeps
         \/ Queue(r) /\ Queues(request[r].n)
         \/ RewriteWrite(r) /\ Renews(request[r].n)
<1>1. request[r].step \in {"queue", "configure", "rewrite"} => request[r].n \in Chapter
  BY DEF ThreadsOK, OpenHasChapter
<1>2. CASE Queue(r)
  BY <1>1, <1>2, QueueKind DEF Queue
<1>3. CASE Configure(r)
  BY <1>1, <1>3, ConfigKind DEF Configure, Answer
<1>4. CASE RewriteWrite(r)
  <2>1. request[r].n \in Chapter
    BY <1>1, <1>4 DEF RewriteWrite, Answer
  <2>. QED
    BY <1>4, <2>1, RewriteKind, RowKept DEF RewriteWrite, storeVars, queueVars
<1>5. CASE ~Queue(r) /\ ~Configure(r) /\ ~RewriteWrite(r)
  <2>1. UNCHANGED job
    BY <1>5 DEF Carry, ContinueGate, ReviewStatus, ReviewWrite, ApproveWrite,
       EditWrite, ExportCreate, ExportWrite, ExportFails, ExportComplete, ExportRecord,
       BibleWrite, RecordReview, SetStatus, UpdateDraft, CreateExport, WriteFile, SetExport,
       UpdateBible, storeVars, queueVars
  <2>. QED
    BY <2>1, RowKept
<1>. QED
  BY <1>2, <1>3, <1>4, <1>5

(* With plans empty, no step of the pipeline is taken. *)
LEMMA NoPipeline ==
  ASSUME PlainQueue, SlotsOK, SlotsPlain, NEW w \in Worker
  PROVE  ~Pipeline(w)
<1>1. worker[w].pc \notin Piped \cup {"abort"}
  BY BusyType DEF Plain, Single, Busy, Piped
<1>. QED
  BY <1>1 DEF Pipeline, FindRun, LoadMemory, Resume, CreateRun, StartStage, FinishStage,
     StageFails, Abort, StartFinalize, NoResult, MarkSucceeded, At, Piped

-----------------------------------------------------------------------------
(* One holder *)

LEMMA HoldsAt ==
  ASSUME SlotsOK, NEW w \in Worker, NEW n, Holds(w, n)
  PROVE  worker[w].n = n /\ n \in Chapter /\ worker[w].pc \in Busy /\ worker[w].id = job[n].id
BY BusyType DEF Holds, SlotsOK, BusyHasChapter, Placed

LEMMA QueueInit == Init => QueueInv
<1>. SUFFICES ASSUME Init PROVE QueueInv
  OBVIOUS
<1>1. \A w \in Worker : worker[w] = Free("ready") /\ worker[w].pc \notin Busy /\ Plain(worker[w])
  BY FreePlain DEF Init, WorkerInit
<1>2. \A n \in Chapter : job[n] = NoJob
  BY DEF Init, StoreInit
<1>. QED
  BY <1>1, <1>2 DEF QueueInv, SlotsPlain, JobsPlain, SlotsOld, SlotsRight, AtMostOneWorker,
     Holders, Holds, NoJob

(* A slot that holds a job after a step of slot w, and is not w, held it    *)
(* before, as no row gets another id.                                       *)
LEMMA OtherHolds ==
  ASSUME SlotsOK, NEW w \in Worker, Others(w), \A n \in Chapter : job'[n].id = job[n].id,
         NEW v \in Worker \ {w}, NEW n \in Chapter
  PROVE  Holds(v, n)' <=> Holds(v, n)
BY DEF Others, Holds

LEMMA QueueTakes ==
  ASSUME StoreTypeOK, SlotsOK, QueueInv, NEW w \in Worker, NEW n \in Chapter, Takes(w, n)
  PROVE  QueueInv'
<1>. USE DEF QueueInv
<1>1. \A m \in Chapter : job[m] \in JobRow /\ SweptRow(job[m]) \in JobRow
  BY SweptRowType DEF StoreTypeOK
<1>2. \A m \in Chapter :
        /\ SweptRow(job[m]).id = job[m].id /\ SweptRow(job[m]).attempts = job[m].attempts
        /\ SweptRow(job[m]).due = job[m].due
        /\ SweptRow(job[m]).status \in {job[m].status, "PENDING"}
  BY <1>1, SweptFacts
<1>3. \A m \in Chapter : job'[m].id = job[m].id
  BY <1>2 DEF Takes
<1>4. \A v \in Worker \ {w}, m \in Chapter : Holds(v, m)' <=> Holds(v, m)
  BY <1>3, OtherHolds DEF Takes
<1>5. \A m \in Chapter : Holds(w, m)' => m = n
  BY DEF Takes, Holds
(* Nobody holds the job that is taken: a held one is running under a live   *)
(* lease, or has succeeded.                                                 *)
<1>6. \A v \in Worker : ~Holds(v, n)
  <2>. SUFFICES ASSUME NEW v \in Worker, Holds(v, n) PROVE FALSE
    OBVIOUS
  <2>1. Right(worker[v], job[n])
    BY DEF SlotsRight
  <2>. QED
    BY <2>1 DEF Right, SweptRow, Takes
<1>7. SlotsPlain'
  BY DEF SlotsPlain, Takes, Others
<1>8. JobsPlain'
  BY <1>2 DEF JobsPlain, Takes
<1>9. SlotsOld'
  <2>. SUFFICES ASSUME NEW v \in Worker, worker'[v].pc \in Busy
               PROVE  worker'[v].id <= job'[worker'[v].n].id
    BY DEF SlotsOld
  <2>1. CASE v = w
    BY <1>1, <1>3, <2>1 DEF Takes, JobRow
  <2>2. CASE v # w
    BY <1>3, <2>2, BusyType DEF Takes, Others, SlotsOld
  <2>. QED
    BY <2>1, <2>2
<1>10. SlotsRight'
  <2>. SUFFICES ASSUME NEW v \in Worker, NEW m \in Chapter, Holds(v, m)'
               PROVE  Right(worker'[v], job'[m])
    BY DEF SlotsRight
  <2>1. CASE v = w
    BY <1>5, <2>1 DEF Takes, Right, Shown
  <2>2. CASE v # w
    <3>1. Holds(v, m) /\ m # n /\ Right(worker[v], job[m])
      BY <1>4, <1>6, <2>2 DEF SlotsRight
    <3>2. job'[m] = job[m] /\ worker'[v] = worker[v]
      BY <2>2, <3>1 DEF Takes, Others, SweptRow, Right
    <3>. QED
      BY <3>1, <3>2
  <2>. QED
    BY <2>1, <2>2
<1>11. AtMostOneWorker'
  BY <1>4, <1>5, <1>6 DEF AtMostOneWorker, Holders
<1>. QED
  BY <1>7, <1>8, <1>9, <1>10, <1>11

LEMMA QueueCarries ==
  ASSUME SlotsOK, QueueInv, NEW w \in Worker, Carries(w)
  PROVE  QueueInv'
<1>. USE DEF QueueInv
<1>1. job' = job /\ \A v \in Worker, n \in Chapter : Holds(v, n)' <=> Holds(v, n)
  BY DEF Carries, Onward, Others, Holds
<1>2. SlotsPlain' /\ SlotsOld'
  BY DEF SlotsPlain, SlotsOld, Carries, Onward, Others
<1>3. JobsPlain' /\ AtMostOneWorker'
  BY <1>1 DEF JobsPlain, AtMostOneWorker, Holders
<1>4. SlotsRight'
  <2>. SUFFICES ASSUME NEW v \in Worker, NEW n \in Chapter, Holds(v, n)
               PROVE  Right(worker'[v], job[n])
    BY <1>1 DEF SlotsRight
  <2>1. Right(worker[v], job[n])
    BY DEF SlotsRight
  <2>2. CASE v = w
    BY <2>1, <2>2 DEF Right, Carries, Shown
  <2>3. CASE v # w
    BY <2>1, <2>3 DEF Carries, Onward, Others
  <2>. QED
    BY <2>2, <2>3
<1>. QED
  BY <1>2, <1>3, <1>4

(* The other slots do not hold the job that slot w settles. *)
LEMMA QueueSettles ==
  ASSUME SlotsOK, QueueInv, NEW w \in Worker, Settles(w)
  PROVE  QueueInv'
<1>. USE DEF QueueInv
<1>. DEFINE n == worker[w].n
<1>1. n \in Chapter /\ worker[w].pc \in Busy /\ Others(w)
  BY BusyType DEF Settles
<1>2. \A m \in Chapter : job'[m].id = job[m].id /\ (m # n => job'[m] = job[m])
  BY <1>1 DEF Settles
<1>3. \A v \in Worker \ {w}, m \in Chapter : Holds(v, m)' <=> Holds(v, m)
  BY <1>1, <1>2, OtherHolds
<1>4. \A m \in Chapter : Holds(w, m)' => Holds(w, m)
  BY <1>2 DEF Settles, Onward, Holds
<1>5. \A v \in Worker \ {w} : Holds(v, n) => job[n].id # worker[w].id
  BY <1>1 DEF AtMostOneWorker, Holders, Holds
<1>6. SlotsPlain'
  BY DEF SlotsPlain, Settles, Others
<1>7. SlotsOld'
  <2>. SUFFICES ASSUME NEW v \in Worker, worker'[v].pc \in Busy
               PROVE  worker'[v].id <= job'[worker'[v].n].id
    BY DEF SlotsOld
  <2>1. worker[v].pc \in Busy /\ worker'[v].n = worker[v].n /\ worker'[v].id = worker[v].id
    BY DEF Settles, Onward, Others
  <2>. QED
    BY <1>2, <2>1, BusyType DEF SlotsOld
<1>8. JobsPlain'
  <2>1. \A m \in Chapter : m # n \/ job[n].id # worker[w].id => job'[m] = job[m]
    BY <1>1 DEF Settles
  <2>2. job[n].id = worker[w].id => job'[n].status \notin {"NONE", "RUNNING"}
    BY DEF Settles
  <2>. QED
    BY <2>1, <2>2 DEF JobsPlain
<1>9. SlotsRight'
  <2>. SUFFICES ASSUME NEW v \in Worker, NEW m \in Chapter, Holds(v, m)'
               PROVE  Right(worker'[v], job'[m])
    BY DEF SlotsRight
  <2>1. CASE v = w
    <3>1. Holds(w, m) /\ worker'[w].pc \in Busy /\ m = n /\ job[n].id = worker[w].id
      BY <1>4, <2>1 DEF Holds
    <3>2. worker'[w].pc = "export" /\ job'[n].status = "SUCCEEDED"
      BY <3>1 DEF Settles
    <3>. QED
      BY <2>1, <3>1, <3>2 DEF Right, Shown
  <2>2. CASE v # w
    <3>1. Holds(v, m) /\ Right(worker[v], job[m]) /\ worker'[v] = worker[v]
      BY <1>1, <1>3, <2>2 DEF SlotsRight, Others
    <3>2. job'[m] = job[m]
      BY <1>2, <1>5, <2>2, <3>1 DEF Settles
    <3>. QED
      BY <3>1, <3>2
  <2>. QED
    BY <2>1, <2>2
<1>10. AtMostOneWorker'
  BY <1>3, <1>4 DEF AtMostOneWorker, Holders
<1>. QED
  BY <1>6, <1>7, <1>8, <1>9, <1>10

LEMMA QueueLetsGo ==
  ASSUME QueueInv, LetsGo
  PROVE  QueueInv'
<1>. USE DEF QueueInv
<1>1. job' = job /\ \A v \in Worker : worker'[v].pc \in Busy => worker'[v] = worker[v]
  BY DEF LetsGo
<1>2. \A v \in Worker, n \in Chapter : Holds(v, n)' => Holds(v, n) /\ worker'[v] = worker[v]
  BY <1>1 DEF Holds
<1>3. SlotsPlain'
  BY DEF SlotsPlain, LetsGo
<1>4. JobsPlain' /\ SlotsOld' /\ SlotsRight'
  BY <1>1, <1>2 DEF JobsPlain, SlotsOld, SlotsRight
<1>5. AtMostOneWorker'
  BY <1>2 DEF AtMostOneWorker, Holders
<1>. QED
  BY <1>3, <1>4, <1>5

(* Time and the console leave the slots alone; a job row that they reopen,  *)
(* or cancel has no holder.                                                 *)
Unheld(n) ==
  /\ job'[n].status \notin {"NONE", "RUNNING"} /\ Abandoned(n)
  /\ job'[n].id = job[n].id

Aside(n) ==
  /\ job'[n].status = job[n].status /\ job'[n].id = job[n].id
  /\ job'[n].attempts = job[n].attempts
  /\ job[n].due => job'[n].due
  /\ job'[n].lease = job[n].lease \/ Abandoned(n)

LEMMA QueueRows ==
  ASSUME SlotsOK, QueueInv, worker' = worker,
         \A n \in Chapter : Aside(n) \/ Unheld(n)
  PROVE  QueueInv'
<1>. USE DEF QueueInv
<1>1. \A n \in Chapter : job'[n].id = job[n].id
  BY DEF Aside, Unheld
<1>2. \A w \in Worker, n \in Chapter : Holds(w, n)' <=> Holds(w, n)
  BY <1>1 DEF Holds
<1>3. \A w \in Worker, n \in Chapter : Holds(w, n) => Aside(n)
  BY DEF Unheld, Abandoned
<1>4. SlotsPlain' /\ AtMostOneWorker'
  BY <1>2 DEF SlotsPlain, AtMostOneWorker, Holders
<1>5. SlotsOld'
  BY <1>1, BusyType DEF SlotsOld
<1>6. SlotsRight'
  <2>. SUFFICES ASSUME NEW w \in Worker, NEW n \in Chapter, Holds(w, n)'
               PROVE  Right(worker[w], job'[n])
    BY DEF SlotsRight
  <2>1. Holds(w, n) /\ Aside(n) /\ Right(worker[w], job[n])
    BY <1>2, <1>3 DEF SlotsRight
  <2>2. job'[n].lease = job[n].lease /\ job'[n].status = job[n].status
    BY <2>1 DEF Aside, Abandoned
  <2>. QED
    BY <2>1, <2>2 DEF Right
<1>7. JobsPlain'
  BY DEF JobsPlain, Aside, Unheld
<1>. QED
  BY <1>4, <1>5, <1>6, <1>7

LEMMA NobodyHolds ==
  ASSUME QueueInv, NEW n \in Chapter, job[n].status \in {"NONE", "PENDING", "FAILED", "CANCELLED"}
  PROVE  Abandoned(n) /\ Holders(n) = {}
BY DEF QueueInv, SlotsRight, Right, Abandoned, Holders

(* A rewrite finds a job that has succeeded, perhaps with its slot still at *)
(* the export: that slot is left with the old id.                           *)
LEMMA QueueRenews ==
  ASSUME StoreTypeOK, SlotsOK, QueueInv, worker' = worker, NEW n \in Chapter, Renews(n)
  PROVE  QueueInv'
<1>. USE DEF QueueInv
<1>1. \A m \in Chapter : job[m].id \in Nat
  BY DEF StoreTypeOK, JobRow
<1>2. \A w \in Worker : worker[w].id \in Nat
  BY BusyType DEF Slot
<1>3. \A w \in Worker : ~Holds(w, n)'
  BY <1>1, <1>2 DEF Renews, Holds, SlotsOld
<1>4. \A w \in Worker, m \in Chapter : Holds(w, m)' => Holds(w, m) /\ job'[m] = job[m]
  BY <1>3 DEF Renews, Holds
<1>5. SlotsPlain' /\ AtMostOneWorker' /\ SlotsRight'
  BY <1>4 DEF SlotsPlain, AtMostOneWorker, Holders, SlotsRight
<1>6. SlotsOld'
  <2>. SUFFICES ASSUME NEW w \in Worker, worker[w].pc \in Busy
               PROVE  worker[w].id <= job'[worker[w].n].id
    BY DEF SlotsOld
  <2>1. worker[w].n \in Chapter /\ worker[w].id <= job[worker[w].n].id
    BY BusyType DEF SlotsOld
  <2>. QED
    BY <1>1, <1>2, <2>1 DEF Renews
<1>7. JobsPlain'
  BY DEF JobsPlain, Renews
<1>. QED
  BY <1>5, <1>6, <1>7

LEMMA QueueNext ==
  ASSUME PlainQueue
  PROVE  TypeInv /\ QueueInv /\ [Next]_vars => QueueInv'
<1>. SUFFICES ASSUME TypeInv, QueueInv, [Next]_vars PROVE QueueInv'
  OBVIOUS
<1>1. StoreTypeOK /\ SlotsOK /\ ThreadsOK /\ SlotsPlain /\ JobsPlain
  BY DEF TypeInv, QueueInv
<1>2. CASE UNCHANGED <<job, worker>>
  BY <1>1, <1>2, QueueRows DEF Aside
<1>3. CASE WorkerNext
  <2>1. WorkerKind
    BY <1>1, <1>3, WorkerKinds
  <2>2. CASE Ticks
    BY <1>1, <2>2, QueueRows DEF Ticks, Aside
  <2>. QED
    BY <1>1, <2>1, <2>2, QueueTakes, QueueCarries, QueueSettles, QueueLetsGo DEF WorkerKind
<1>4. CASE ConsoleNext /\ UNCHANGED workerVars
  <2>1. worker' = worker
    BY <1>4 DEF workerVars
  <2>2. CASE Keeps
    BY <1>1, <2>1, <2>2, QueueRows DEF Keeps, SameRow, Aside
  <2>3. ASSUME NEW n \in Chapter, Cancels(n) \/ Queues(n)
        PROVE  QueueInv'
    <3>1. Unheld(n)
      BY <2>3, NobodyHolds DEF Cancels, Queues, Unheld
    <3>2. \A m \in Chapter : m # n => Aside(m)
      BY <2>3 DEF Cancels, Queues, Aside
    <3>. QED
      BY <1>1, <2>1, <3>1, <3>2, QueueRows
  <2>4. ASSUME NEW n \in Chapter, Renews(n)
        PROVE  QueueInv'
    BY <1>1, <2>1, <2>4, QueueRenews
  <2>5. CASE Outage
    BY <1>2, <2>1, <2>5 DEF Outage, storeVars, queueVars
  <2>6. ASSUME NEW r \in Request, Begin(r)
        PROVE  QueueInv'
    BY <1>1, <2>2, <2>3, <2>6, BeginKinds
  <2>7. ASSUME NEW r \in Request, Carry(r)
        PROVE  QueueInv'
    <3>1. Queue(r) \/ RewriteWrite(r) => request[r].n \in Chapter
      BY <1>1 DEF Queue, RewriteWrite, Answer, ThreadsOK, OpenHasChapter
    <3>. QED
      BY <1>1, <2>2, <2>3, <2>4, <2>7, <3>1, CarryKinds
  <2>. QED
    BY <1>4, <2>5, <2>6, <2>7 DEF ConsoleNext
<1>. QED
  BY <1>1, <1>2, <1>3, <1>4, NoPipeline DEF Next, vars, storeVars, queueVars, workerVars

LEMMA QueueAlways ==
  ASSUME PlainQueue
  PROVE  Spec => []QueueInv
<1>1. TypeInv /\ QueueInv /\ [Next]_vars => QueueInv'
  BY QueueNext
<1>. QED
  BY <1>1, QueueInit, TypeInvAlways, PTL DEF Spec

(* "One chapter has only one active generation job": claim_job, the sweep,  *)
(* retries, kills, rewrites and requests never give two slots one job.      *)
THEOREM OneHolder ==
  ASSUME PlainQueue
  PROVE  Spec => []AtMostOneWorker
<1>1. Spec => []QueueInv
  BY QueueAlways
<1>. QED
  BY <1>1, PTL DEF QueueInv

-----------------------------------------------------------------------------
(* Attempts *)

LEMMA CountTypes ==
  ASSUME TypeInv, CountInv, NEW n \in Chapter
  PROVE  /\ job[n].attempts \in Nat /\ Weight(n) \in Nat
         /\ Cardinality(Opens(n)) \in Nat
         /\ MaxAttempts \in Nat /\ MaxFaults \in Nat /\ faults \in Nat
         /\ MaxRequests \in Nat /\ budget \in Nat /\ Accepted \in Int /\ Allowed \in Int
<1>1. job[n].attempts \in Nat
  BY DEF TypeInv, StoreTypeOK, JobRow
<1>2. Cardinality(Opens(n)) \in Nat
  BY FS_CardinalityType DEF CountInv, OpensCounted
<1>3. faults \in Nat /\ budget \in Nat
  BY DEF TypeInv, SlotsOK, WorkerTypeOK, ThreadsOK, ConsoleTypeOK
<1>. QED
  BY <1>1, <1>2, <1>3, WorkerAssumption, ConsoleAssumption DEF Weight, Accepted, Allowed

LEMMA CountInit == Init => CountInv
<1>. SUFFICES ASSUME Init PROVE CountInv
  OBVIOUS
<1>1. \A w \in Worker : worker[w] = Free("ready") /\ worker[w].pc \notin Busy
  BY FreePlain DEF Init, WorkerInit
<1>2. \A n \in Chapter : job[n].status = "NONE" /\ job[n].attempts = 0
  BY DEF Init, StoreInit, NoJob
<1>3. \A n \in Chapter : IsFiniteSet(Opens(n)) /\ Cardinality(Opens(n)) = 0
  <2>1. \A n \in Chapter : Opens(n) = {}
    BY DEF Init, ConsoleInit, Opens, Opening, Idle
  <2>. QED
    BY <2>1, FS_EmptySet
<1>4. faults = MaxFaults /\ budget = MaxRequests
  BY DEF Init, WorkerInit, ConsoleInit
<1>5. RetriesRight
  BY <1>1 DEF RetriesRight, Holds
<1>6. Accepted = 0 /\ Allowed = MaxAttempts - 1
  BY <1>4, WorkerAssumption, ConsoleAssumption DEF Allowed, Accepted
<1>7. OpensCounted
  <2>. SUFFICES ASSUME NEW n \in Chapter
               PROVE  /\ IsFiniteSet(Opens(n))
                      /\ Cardinality(Opens(n)) + (IF job[n].status = "NONE" THEN 0 ELSE 1) <= Accepted
    BY DEF OpensCounted
  <2>1. (IF job[n].status = "NONE" THEN 0 ELSE 1) = 0
    BY <1>2
  <2>. QED
    BY <1>3, <1>6, <2>1
<1>8. TriesCounted
  <2>. SUFFICES ASSUME NEW n \in Chapter PROVE Weight(n) + Cardinality(Opens(n)) <= Allowed
    BY DEF TriesCounted
  <2>1. ~Claimable(n)
    BY <1>2 DEF Claimable
  <2>2. Weight(n) = 0 + 0
    BY <1>2, <2>1 DEF Weight
  <2>. QED
    BY <1>3, <1>6, <2>2, WorkerAssumption
<1>. QED
  BY <1>4, <1>5, <1>7, <1>8, WorkerAssumption DEF CountInv

(* What a step of the worker has to show: the weight of a job grows with    *)
(* the faults only, or stays within the tries of a job that is not given up.*)
LEMMA WeightsCount ==
  ASSUME TypeInv, CountInv, UNCHANGED consoleVars, faults' \in Nat, faults' <= faults,
         \A n \in Chapter : job'[n].status # "NONE" => job[n].status # "NONE",
         \A n \in Chapter :
           \/ Weight(n)' <= Weight(n) + (faults - faults')
           \/ Weight(n)' <= MaxAttempts /\ job[n].status # "NONE",
         \A n \in Chapter : Weight(n)' \in Nat,
         RetriesRight'
  PROVE  CountInv'
<1>1. \A n \in Chapter : Opens(n)' = Opens(n)
  BY DEF consoleVars, Opens
<1>2. Accepted' = Accepted
  BY DEF consoleVars, Accepted
<1>3. OpensCounted'
  BY <1>1, <1>2, CountTypes DEF CountInv, OpensCounted
<1>4. TriesCounted'
  <2>. SUFFICES ASSUME NEW n \in Chapter
               PROVE  Weight(n)' + Cardinality(Opens(n)) <= Allowed'
    BY <1>1 DEF TriesCounted
  <2>. DEFINE opens == Cardinality(Opens(n))
  <2>1. /\ opens \in Nat /\ Weight(n) \in Nat /\ Accepted \in Int
        /\ MaxAttempts \in Nat /\ MaxFaults \in Nat /\ faults \in Nat
    BY CountTypes
  <2>2. Weight(n) + opens <= MaxAttempts - 1 + (MaxFaults - faults) + Accepted
    BY DEF CountInv, TriesCounted, Allowed
  <2>3. job[n].status # "NONE" => opens + 1 <= Accepted
    BY DEF CountInv, OpensCounted
  <2>4. Allowed' = MaxAttempts - 1 + (MaxFaults - faults') + Accepted
    BY <1>2 DEF Allowed
  <2>5. faults <= MaxFaults /\ Weight(n)' \in Nat
    BY DEF CountInv
  <2>. HIDE DEF opens
  <2>6. \/ Weight(n)' <= Weight(n) + (faults - faults')
        \/ Weight(n)' <= MaxAttempts /\ job[n].status # "NONE"
    OBVIOUS
  <2>7. Weight(n)' + opens <= Allowed'
    BY <2>1, <2>2, <2>3, <2>4, <2>5, <2>6
  <2>. QED
    BY <2>7 DEF opens
<1>5. (faults <= MaxFaults)'
  BY WorkerAssumption DEF CountInv, TypeInv, SlotsOK, WorkerTypeOK
<1>. QED
  BY <1>3, <1>4, <1>5 DEF CountInv

LEMMA CountTakes ==
  ASSUME TypeInv, QueueInv, CountInv, UNCHANGED consoleVars,
         NEW w \in Worker, NEW n \in Chapter, Takes(w, n)
  PROVE  CountInv'
<1>. DEFINE Rows == \A m \in Chapter : job[m] \in JobRow
<1>1. SlotsOK /\ SlotsPlain /\ faults' = faults /\ faults \in Nat /\ Rows
  BY DEF TypeInv, QueueInv, Takes, SlotsOK, WorkerTypeOK, StoreTypeOK
<1>2. \A m \in Chapter \ {n} :
        /\ job'[m].id = job[m].id /\ job'[m].attempts = job[m].attempts
        /\ \/ job'[m].status = job[m].status
           \/ job'[m].status = "PENDING" /\ job[m].status = "RUNNING" /\ job[m].lease = "lapsed"
  BY <1>1, SweptFacts DEF Takes
<1>3. job'[n].id = job[n].id /\ job'[n].status = "RUNNING"
      /\ job'[n].attempts \in {job[n].attempts, job[n].attempts + 1}
  BY DEF Takes, OneMore
<1>4. \A v \in Worker \ {w}, m \in Chapter : Holds(v, m)' <=> Holds(v, m)
  BY <1>1, <1>2, <1>3, OtherHolds DEF Takes
<1>5. \A m \in Chapter : (Holds(w, m)' <=> m = n) /\ ~Holds(w, m)
  BY <1>3 DEF Takes, Holds, Busy
<1>6. job[n].status = "PENDING" \/ (job[n].status = "RUNNING" /\ job[n].lease = "lapsed")
  BY <1>1, SweptFacts DEF Takes
<1>7. \A m \in Chapter : \A v \in Worker :
        (job[m].status = "PENDING" \/ (job[m].status = "RUNNING" /\ job[m].lease = "lapsed"))
          => ~Holds(v, m)
  BY DEF QueueInv, SlotsRight, Right
<1>8. Claimable(n) /\ ~Claimable(n)'
  BY <1>3, <1>5, <1>6, <1>7 DEF Claimable, Holders
<1>9. \A m \in Chapter \ {n} : Claimable(m)' => Claimable(m)
  BY <1>2, <1>4, <1>5, <1>7 DEF Claimable, Holders
<1>10. \A m \in Chapter : Weight(m)' <= Weight(m) /\ Weight(m)' \in Nat
  BY <1>1, <1>2, <1>3, <1>8, <1>9 DEF Weight, JobRow
<1>11. RetriesRight'
  <2>. SUFFICES ASSUME NEW v \in Worker, NEW m \in Chapter, Holds(v, m)',
                      worker'[v].pc = "fail", worker'[v].retry
               PROVE  job'[m].attempts < MaxAttempts
    BY DEF RetriesRight
  <2>1. v # w /\ Holds(v, m) /\ worker'[v] = worker[v]
    BY <1>4 DEF Takes, Others
  <2>2. m # n
    BY <1>6, <1>7, <2>1
  <2>. QED
    BY <1>2, <2>1, <2>2 DEF CountInv, RetriesRight
<1>12. \A m \in Chapter : job'[m].status # "NONE" => job[m].status # "NONE"
  BY <1>2, <1>6
<1>13. \A m \in Chapter : Weight(m) + (faults - faults') = Weight(m)
  BY <1>1, CountTypes
<1>. QED
  BY <1>1, <1>10, <1>11, <1>12, <1>13, WeightsCount

LEMMA CountCarries ==
  ASSUME TypeInv, TypeInv', CountInv, UNCHANGED consoleVars, NEW w \in Worker, Carries(w)
  PROVE  CountInv'
<1>1. job' = job /\ \A v \in Worker, n \in Chapter : Holds(v, n)' <=> Holds(v, n)
  BY DEF Carries, Onward, Others, Holds
<1>2. \A n \in Chapter : Weight(n)' = Weight(n) /\ Weight(n) \in Nat
  BY <1>1, CountTypes DEF Weight, Claimable, Holders
<1>3. RetriesRight'
  BY <1>1 DEF RetriesRight, CountInv, Carries, Onward, Others, Holds
<1>4. faults \in Nat /\ faults' \in Nat /\ faults' <= faults
  BY DEF TypeInv, SlotsOK, WorkerTypeOK, Carries
<1>5. \A n \in Chapter : Weight(n)' <= Weight(n) + (faults - faults')
  BY <1>2, <1>4
<1>. QED
  BY <1>1, <1>2, <1>3, <1>4, <1>5, WeightsCount

LEMMA CountSettles ==
  ASSUME TypeInv, TypeInv', QueueInv, CountInv, UNCHANGED consoleVars,
         NEW w \in Worker, Settles(w)
  PROVE  CountInv'
<1>. DEFINE n == worker[w].n
<1>1. SlotsOK /\ SlotsPlain /\ faults' = faults /\ faults \in Nat
  BY DEF TypeInv, QueueInv, Settles, SlotsOK, WorkerTypeOK
<1>2. n \in Chapter /\ worker[w].pc \in Busy /\ Others(w)
  BY <1>1, BusyType DEF Settles
<1>3. \A m \in Chapter : job'[m].id = job[m].id /\ job'[m].attempts = job[m].attempts
  BY <1>2 DEF Settles
<1>4. \A m \in Chapter : m # n \/ job[n].id # worker[w].id => job'[m] = job[m]
  BY <1>2 DEF Settles
<1>5. \A v \in Worker \ {w}, m \in Chapter : Holds(v, m)' <=> Holds(v, m)
  BY <1>1, <1>2, <1>3, OtherHolds
<1>6. \A m \in Chapter : Holds(w, m) => m = n /\ job[n].id = worker[w].id
  BY DEF Holds
<1>7. \A m \in Chapter : Holds(w, m)' => Holds(w, m)
  BY <1>3 DEF Settles, Onward, Holds
<1>8. ASSUME NEW m \in Chapter, ~(m = n /\ job[n].id = worker[w].id)
      PROVE  Weight(m)' = Weight(m)
  <2>1. Holders(m)' = Holders(m)
    BY <1>5, <1>6, <1>7, <1>8 DEF Holders
  <2>2. job'[m] = job[m]
    BY <1>4, <1>8
  <2>. QED
    BY <2>1, <2>2 DEF Weight, Claimable
<1>9. ASSUME NEW m \in Chapter, m = n, job[m].id = worker[w].id
      PROVE  /\ job[m].status # "NONE"
             /\ Weight(m)' <= Weight(m) \/ Weight(m)' <= MaxAttempts
  <2>1. Holds(w, m)
    BY <1>2, <1>9 DEF Holds
  <2>2. job[m].status \in {"RUNNING", "SUCCEEDED"}
    BY <2>1 DEF QueueInv, SlotsRight, Right
  <2>3. PICK outcome \in {"PENDING", "SUCCEEDED", "FAILED", "CANCELLED"} :
          /\ job'[m].status = outcome
          /\ outcome = "PENDING" => worker[w].pc = "fail" /\ worker[w].retry
    BY <1>9 DEF Settles
  <2>4. job[m].attempts \in Nat /\ Weight(m) \in Nat /\ MaxAttempts \in Nat
    BY <1>2, CountTypes
  <2>5. CASE outcome = "PENDING"
    <3>1. job[m].attempts < MaxAttempts
      BY <1>2, <2>1, <2>3, <2>5 DEF CountInv, RetriesRight
    <3>2. Weight(m)' <= job[m].attempts + 1
      BY <1>2, <1>3, <2>4 DEF Weight
    <3>3. Weight(m)' \in Nat
      BY <1>2, <1>3, <2>4 DEF Weight
    <3>. QED
      BY <2>2, <2>4, <3>1, <3>2, <3>3
  <2>6. CASE outcome # "PENDING"
    <3>1. ~Claimable(m)'
      BY <2>3, <2>6 DEF Claimable
    <3>2. Weight(m)' = job[m].attempts + 0
      BY <1>2, <1>3, <3>1 DEF Weight
    <3>3. job[m].attempts <= Weight(m)
      BY <2>4 DEF Weight
    <3>. QED
      BY <2>2, <2>4, <3>2, <3>3
  <2>. QED
    BY <2>5, <2>6
<1>10. \A m \in Chapter : Weight(m)' \in Nat /\ Weight(m) \in Nat
  <2>1. \A m \in Chapter : job'[m].attempts \in Nat /\ job[m].attempts \in Nat
    BY <1>3, CountTypes
  <2>. QED
    BY <2>1 DEF Weight
<1>11. \A m \in Chapter :
         \/ Weight(m)' <= Weight(m) + (faults - faults')
         \/ Weight(m)' <= MaxAttempts /\ job[m].status # "NONE"
  <2>. SUFFICES ASSUME NEW m \in Chapter
               PROVE  \/ Weight(m)' <= Weight(m)
                      \/ Weight(m)' <= MaxAttempts /\ job[m].status # "NONE"
    BY <1>1, <1>10
  <2>1. CASE m = n /\ job[n].id = worker[w].id
    BY <1>9, <2>1
  <2>2. CASE ~(m = n /\ job[n].id = worker[w].id)
    BY <1>8, <1>10, <2>2
  <2>. QED
    BY <2>1, <2>2
<1>12. \A m \in Chapter : job'[m].status # "NONE" => job[m].status # "NONE"
  BY <1>4, <1>9
<1>13. RetriesRight'
  <2>. SUFFICES ASSUME NEW v \in Worker, NEW m \in Chapter, Holds(v, m)',
                      worker'[v].pc = "fail", worker'[v].retry
               PROVE  job'[m].attempts < MaxAttempts
    BY DEF RetriesRight
  <2>1. "fail" \in Busy
    BY DEF Busy
  <2>2. v # w
    BY <2>1 DEF Settles
  <2>. QED
    BY <1>2, <1>3, <1>5, <2>2 DEF CountInv, RetriesRight, Others
<1>. QED
  BY <1>1, <1>10, <1>11, <1>12, <1>13, WeightsCount

LEMMA CountLetsGo ==
  ASSUME TypeInv, TypeInv', QueueInv, CountInv, UNCHANGED consoleVars, LetsGo
  PROVE  CountInv'
<1>1. job' = job /\ \A v \in Worker, n \in Chapter : Holds(v, n)' => Holds(v, n) /\ worker'[v] = worker[v]
  BY DEF LetsGo, Holds
<1>2. \A n \in Chapter : job[n].attempts \in Nat /\ Weight(n) \in Nat /\ Weight(n)' \in Nat
  BY <1>1, CountTypes DEF Weight
<1>3. faults \in Nat /\ faults' \in Nat /\ faults' \in {faults, faults - 1}
  BY DEF TypeInv, SlotsOK, WorkerTypeOK, LetsGo
<1>4. \A n \in Chapter : Weight(n)' <= Weight(n) + (faults - faults')
  <2>. SUFFICES ASSUME NEW n \in Chapter
               PROVE  Weight(n)' <= Weight(n) + (faults - faults')
    OBVIOUS
  <2>1. CASE faults' = faults - 1
    <3>1. Weight(n)' <= job[n].attempts + 1 /\ job[n].attempts <= Weight(n)
      BY <1>1, <1>2 DEF Weight
    <3>. QED
      BY <1>2, <1>3, <2>1, <3>1
  <2>2. CASE faults' = faults /\ Claimable(n)' /\ ~Claimable(n)
    <3>1. job[n].status = "RUNNING" /\ Holders(n)' = {}
      BY <1>1, <2>2 DEF Claimable
    <3>2. PICK v \in Worker : Holds(v, n) /\ ~Holds(v, n)'
      BY <2>2, <3>1 DEF Claimable, Holders
    <3>3. worker[v].pc \in Busy /\ worker[v].pc # "write"
      BY <3>1, <3>2 DEF Holds, QueueInv, SlotsRight, Right, Shown
    <3>4. worker'[v] = worker[v]
      BY <1>3, <2>2, <3>3 DEF LetsGo
    <3>. QED
      BY <1>1, <3>2, <3>4 DEF Holds
  <2>3. CASE faults' = faults /\ (Claimable(n)' => Claimable(n))
    <3>1. Weight(n)' <= Weight(n)
      BY <1>1, <1>2, <2>3 DEF Weight
    <3>. QED
      BY <1>2, <1>3, <2>3, <3>1
  <2>. QED
    BY <1>3, <2>1, <2>2, <2>3
<1>5. RetriesRight'
  BY <1>1 DEF RetriesRight, CountInv
<1>. QED
  BY <1>1, <1>2, <1>3, <1>4, <1>5, WeightsCount

LEMMA CountTicks ==
  ASSUME TypeInv, TypeInv', CountInv, UNCHANGED consoleVars, Ticks
  PROVE  CountInv'
<1>1. \A n \in Chapter :
        /\ job'[n].status = job[n].status /\ job'[n].attempts = job[n].attempts
        /\ job'[n].id = job[n].id
  BY DEF Ticks
<1>2. \A v \in Worker, n \in Chapter : Holds(v, n)' <=> Holds(v, n)
  BY <1>1 DEF Ticks, Holds
<1>3. \A n \in Chapter : Weight(n)' = Weight(n) /\ Weight(n) \in Nat
  BY <1>1, <1>2, CountTypes DEF Weight, Claimable, Holders
<1>4. faults' = faults /\ faults \in Nat
  BY DEF Ticks, TypeInv, SlotsOK, WorkerTypeOK
<1>5. RetriesRight'
  BY <1>1, <1>2 DEF RetriesRight, CountInv, Ticks
<1>6. \A n \in Chapter : Weight(n)' <= Weight(n) + (faults - faults')
  BY <1>3, <1>4
<1>. QED
  BY <1>1, <1>3, <1>4, <1>5, <1>6, WeightsCount

(* Requests that may still open a job: one more when a request is accepted, *)
(* fewer when a handler goes on.                                            *)
LEMMA BeginAccepts ==
  ASSUME NEW r \in Request, Begin(r)
  PROVE  \E op, thread : Accept(r, op, thread)
BY DEF Begin, Continue, Pause, EditBible, Generate, Cancel, Review, Approve, EditTitle,
   Rollback, Rewrite, EditText, Export, ExportAgain, Publish

LEMMA AcceptOpens ==
  ASSUME ThreadsOK, NEW r \in Request, NEW op, NEW thread, Accept(r, op, thread)
  PROVE  budget' = budget - 1 /\ \A n \in Chapter : Opens(n)' \subseteq Opens(n) \cup {r}
BY DEF Accept, Opens, ThreadsOK, ConsoleTypeOK

(* The handler of r has gone past the steps that may open a job, or kept    *)
(* its chapter.                                                             *)
LEMMA ThreadOpens ==
  ASSUME ThreadsOK, NEW r \in Request, NEW thread,
         request' = [request EXCEPT ![r] = thread],
         thread.step \in Opening => request[r].step \in Opening /\ thread.n = request[r].n
  PROVE  /\ \A n \in Chapter : Opens(n)' \subseteq Opens(n)
         /\ thread.step \notin Opening => \A n \in Chapter : r \notin Opens(n)'
BY DEF Opens, ThreadsOK, ConsoleTypeOK

LEMMA CarryOpens ==
  ASSUME ThreadsOK, NEW r \in Request, Carry(r)
  PROVE  /\ budget' = budget
         /\ \A n \in Chapter : Opens(n)' \subseteq Opens(n)
         /\ Queue(r) \/ RewriteWrite(r) =>
              /\ request[r].n \in Chapter /\ r \in Opens(request[r].n)
              /\ \A n \in Chapter : r \notin Opens(n)'
<1>. DEFINE Fewer == \A n \in Chapter : Opens(n)' \subseteq Opens(n)
           Past  == \A n \in Chapter : r \notin Opens(n)'
<1>1. request[r] \in Thread
  BY DEF ThreadsOK, ConsoleTypeOK
<1>2. Idle.step \notin Opening
  BY DEF Idle, Opening
<1>3. budget' = budget
  BY DEF Carry, ContinueGate, Queue, Configure, ReviewStatus, ReviewWrite, ApproveWrite,
     EditWrite, ExportCreate, ExportWrite, ExportFails, ExportComplete, ExportRecord,
     RewriteWrite, BibleWrite, Answer, Proceed
<1>4. ASSUME \E step : Answer(r, step)
      PROVE  Fewer /\ Past
  BY <1>2, <1>4, ThreadOpens DEF Answer
<1>5. ASSUME ContinueGate(r) /\ Proceed(r, "continue.gate", "queue")
      PROVE  Fewer
  <2>. DEFINE thread == [request[r] EXCEPT !.step = "queue"]
  <2>1. thread.n = request[r].n /\ request' = [request EXCEPT ![r] = thread]
    BY <1>1, <1>5 DEF Proceed, Thread
  <2>2. request[r].step \in Opening
    BY <1>5 DEF Proceed, Opening
  <2>. HIDE DEF thread
  <2>. QED
    BY <2>1, <2>2, ThreadOpens
<1>6. ASSUME Queue(r)
      PROVE  Fewer /\ Past
  <2>. DEFINE thread == [request[r] EXCEPT !.step = "configure", !.id = job[request[r].n].id]
  <2>1. thread.step \notin Opening
    BY <1>1 DEF Thread, Opening
  <2>2. request' = [request EXCEPT ![r] = IF request[r].plans = {} THEN Idle ELSE thread]
    BY <1>6 DEF Queue
  <2>. HIDE DEF thread
  <2>. QED
    BY <1>2, <2>1, <2>2, ThreadOpens
<1>7. ASSUME ReviewStatus(r)
      PROVE  Fewer /\ Past
  <2>. DEFINE thread == [request[r] EXCEPT !.step = "review.write",
                         !.status = StatusAfterReview(chapter[request[r].n].status, request[r].ok)]
  <2>1. thread.step \notin Opening
    BY <1>1 DEF Thread, Opening
  <2>2. request' = [request EXCEPT ![r] = thread]
    BY <1>7 DEF ReviewStatus
  <2>. HIDE DEF thread
  <2>. QED
    BY <2>1, <2>2, ThreadOpens
<1>8. ASSUME ExportCreate(r)
      PROVE  Fewer /\ Past
  <2>. DEFINE thread == [request[r] EXCEPT !.step = "export.write", !.id = job[request[r].n].id]
  <2>1. thread.step \notin Opening
    BY <1>1 DEF Thread, Opening
  <2>2. request' = [request EXCEPT ![r] = thread]
    BY <1>8 DEF ExportCreate
  <2>. HIDE DEF thread
  <2>. QED
    BY <2>1, <2>2, ThreadOpens
<1>9. ASSUME \E step : \E next \in {"export.complete", "export.record"} : Proceed(r, step, next)
      PROVE  Fewer /\ Past
  <2>1. PICK next \in {"export.complete", "export.record"} :
          request' = [request EXCEPT ![r] = [request[r] EXCEPT !.step = next]]
    BY <1>9 DEF Proceed
  <2>. DEFINE thread == [request[r] EXCEPT !.step = next]
  <2>2. thread.step \notin Opening
    BY <1>1 DEF Thread, Opening
  <2>3. request' = [request EXCEPT ![r] = thread]
    BY <2>1
  <2>. HIDE DEF thread
  <2>. QED
    BY <2>2, <2>3, ThreadOpens
<1>10. \/ \E step : Answer(r, step)
       \/ ContinueGate(r) /\ Proceed(r, "continue.gate", "queue")
       \/ Queue(r) \/ ReviewStatus(r) \/ ExportCreate(r)
       \/ \E step : \E next \in {"export.complete", "export.record"} : Proceed(r, step, next)
  BY DEF Carry, ContinueGate, Configure, ReviewWrite, ApproveWrite, EditWrite, ExportWrite,
     ExportFails, ExportComplete, ExportRecord, RewriteWrite, BibleWrite
<1>11. Fewer
  BY <1>4, <1>5, <1>6, <1>7, <1>8, <1>9, <1>10
<1>12. ASSUME Queue(r) \/ RewriteWrite(r)
       PROVE  /\ request[r].n \in Chapter /\ r \in Opens(request[r].n)
              /\ Past
  <2>1. request[r].step \in {"queue", "rewrite"}
    BY <1>12 DEF Queue, RewriteWrite, Answer
  <2>2. request[r].n \in Chapter
    BY <2>1 DEF ThreadsOK, OpenHasChapter
  <2>3. RewriteWrite(r) => \E step : Answer(r, step)
    BY DEF RewriteWrite
  <2>4. Past
    BY <1>4, <1>6, <1>12, <2>3
  <2>. QED
    BY <2>1, <2>2, <2>4 DEF Opens, Opening
<1>. QED
  BY <1>3, <1>11, <1>12

(* What a step of the console has to show: a job gets heavier, or begins,   *)
(* only when a request that may open it is gone.                            *)
Opened(n) ==
  /\ IsFiniteSet(Opens(n)') /\ Cardinality(Opens(n)') \in Nat
  /\ job'[n].id \in {job[n].id, job[n].id + 1}
  /\ job'[n].attempts \in {job[n].attempts, 0}
  /\ \/ /\ Cardinality(Opens(n)') <= Cardinality(Opens(n)) + (budget - budget')
        /\ job'[n].status = "NONE" \/ job[n].status # "NONE"
        /\ Weight(n)' <= Weight(n)
     \/ /\ Cardinality(Opens(n)') + 1 <= Cardinality(Opens(n)) /\ budget' = budget
        /\ Weight(n)' <= Weight(n) + 1 \/ Weight(n)' <= 1

LEMMA OpensCount ==
  ASSUME TypeInv, TypeInv', QueueInv, CountInv, UNCHANGED workerVars,
         \A n \in Chapter : Opened(n)
  PROVE  CountInv'
<1>. DEFINE spent == budget - budget'
<1>1. /\ budget \in Nat /\ budget' \in Nat /\ faults' = faults /\ faults \in Nat
      /\ MaxRequests \in Nat /\ MaxFaults \in Nat /\ MaxAttempts \in Nat \ {0}
  BY WorkerAssumption, ConsoleAssumption
  DEF TypeInv, ThreadsOK, ConsoleTypeOK, SlotsOK, WorkerTypeOK, workerVars
<1>2. spent \in Int /\ Accepted \in Int /\ Accepted' = Accepted + spent
  BY <1>1 DEF Accepted
<1>3. Allowed \in Int /\ Allowed' = Allowed + spent
  <2>1. Allowed' = MaxAttempts - 1 + (MaxFaults - faults) + (Accepted + spent)
    BY <1>1, <1>2 DEF Allowed
  <2>. HIDE DEF spent
  <2>. QED
    BY <1>1, <1>2, <2>1 DEF Allowed
<1>4. ASSUME NEW n \in Chapter
      PROVE  /\ Cardinality(Opens(n)') + (IF job'[n].status = "NONE" THEN 0 ELSE 1) <= Accepted'
             /\ Weight(n)' + Cardinality(Opens(n)') <= Allowed'
  <2>. DEFINE opens == Cardinality(Opens(n))
             later == Cardinality(Opens(n)')
             there == IF job[n].status = "NONE" THEN 0 ELSE 1
             now   == IF job'[n].status = "NONE" THEN 0 ELSE 1
             less  == Weight(n)
             more  == Weight(n)'
  <2>1. /\ opens \in Nat /\ later \in Nat /\ less \in Nat /\ there \in {0, 1} /\ now \in {0, 1}
        /\ faults <= MaxFaults
    BY CountTypes DEF CountInv, Opened
  <2>2. more \in Nat
    BY DEF Weight, TypeInv, StoreTypeOK, JobRow
  <2>3. opens + there <= Accepted /\ less + opens <= Allowed
    BY DEF CountInv, OpensCounted, TriesCounted
  <2>4. Allowed = MaxAttempts - 1 + (MaxFaults - faults) + Accepted
    BY DEF Allowed
  <2>5. \/ later <= opens + spent /\ now <= there /\ more <= less
        \/ later + 1 <= opens /\ spent = 0 /\ (more <= less + 1 \/ more <= 1)
    <3>1. \/ later <= opens + spent /\ (job'[n].status = "NONE" \/ job[n].status # "NONE")
             /\ more <= less
          \/ later + 1 <= opens /\ budget' = budget /\ (more <= less + 1 \/ more <= 1)
      BY DEF Opened
    <3>2. job'[n].status = "NONE" \/ job[n].status # "NONE" => now <= there
      OBVIOUS
    <3>3. budget' = budget => spent = 0
      BY <1>1
    <3>. HIDE DEF spent, opens, later, there, now, less, more
    <3>. QED
      BY <3>1, <3>2, <3>3
  <2>. HIDE DEF spent, opens, later, there, now, less, more
  <2>6. later + now <= Accepted + spent
    BY <1>2, <2>1, <2>3, <2>5
  <2>7. opens <= Accepted
    BY <1>2, <2>1, <2>3
  <2>8. Accepted <= Allowed
    BY <1>1, <1>2, <2>1, <2>4
  <2>9. more + later <= Allowed + spent
    BY <1>2, <1>3, <2>1, <2>2, <2>3, <2>5, <2>7, <2>8
  <2>. QED
    BY <1>2, <1>3, <2>6, <2>9 DEF later, now, more
<1>5. OpensCounted' /\ TriesCounted'
  BY <1>4 DEF OpensCounted, TriesCounted, Opened
<1>6. RetriesRight'
  <2>. SUFFICES ASSUME NEW w \in Worker, NEW n \in Chapter, Holds(w, n)',
                      worker'[w].pc = "fail", worker'[w].retry
               PROVE  job'[n].attempts < MaxAttempts
    BY DEF RetriesRight
  <2>1. worker' = worker /\ worker[w].pc \in Busy /\ worker[w].n = n /\ worker[w].id = job'[n].id
    BY DEF workerVars, Holds
  <2>2. worker[w].id <= job[n].id /\ job[n].id \in Nat /\ worker[w].id \in Nat
    BY <2>1 DEF QueueInv, SlotsOld, TypeInv, StoreTypeOK, JobRow, SlotsOK, WorkerTypeOK, Slot
  <2>3. Holds(w, n)
    BY <2>1, <2>2 DEF Holds, Opened
  <2>4. job[n].attempts < MaxAttempts
    BY <2>1, <2>3 DEF CountInv, RetriesRight
  <2>. QED
    BY <2>4, WorkerAssumption DEF Opened
<1>7. (faults <= MaxFaults)'
  BY DEF CountInv, workerVars
<1>. QED
  BY <1>5, <1>6, <1>7 DEF CountInv

(* The weight of a job whose row keeps its status, or is cancelled.         *)
LEMMA WeightKept ==
  ASSUME TypeInv, worker' = worker, NEW n \in Chapter, job'[n].attempts = job[n].attempts,
         job'[n].id = job[n].id, job'[n].status \in {job[n].status, "CANCELLED"}
  PROVE  Weight(n)' <= Weight(n)
<1>1. Holders(n)' = Holders(n)
  BY DEF Holders, Holds
<1>2. job[n].attempts \in Nat
  BY DEF TypeInv, StoreTypeOK, JobRow
<1>. QED
  BY <1>1, <1>2 DEF Weight, Claimable

LEMMA CountConsole ==
  ASSUME PlainQueue, TypeInv, TypeInv', QueueInv, CountInv, ConsoleNext, UNCHANGED workerVars
  PROVE  CountInv'
<1>1. worker' = worker /\ StoreTypeOK /\ ThreadsOK /\ JobsPlain
  BY DEF workerVars, TypeInv, QueueInv
<1>2. budget \in Nat /\ budget' \in Nat
  BY DEF TypeInv, ThreadsOK, ConsoleTypeOK
<1>3. \A n \in Chapter : /\ IsFiniteSet(Opens(n)) /\ Cardinality(Opens(n)) \in Nat
                         /\ job[n].attempts \in Nat /\ job[n].id \in Nat
  BY CountTypes DEF CountInv, OpensCounted, TypeInv, StoreTypeOK, JobRow
<1>. DEFINE Fewer == \A n \in Chapter : Opens(n)' \subseteq Opens(n)
           Calm(n) == /\ job'[n].id = job[n].id /\ job'[n].attempts = job[n].attempts
                      /\ job'[n].status \in {job[n].status, "CANCELLED"}
                      /\ job'[n].status = "NONE" \/ job[n].status # "NONE"
                      /\ Weight(n)' <= Weight(n)
<1>4. Keeps => \A n \in Chapter : Calm(n)
  BY <1>1, WeightKept DEF Keeps, SameRow
<1>5. \A n \in Chapter : Cancels(n) => \A m \in Chapter : Calm(m)
  BY <1>1, WeightKept DEF Cancels
<1>6. ASSUME Fewer
      PROVE  \A n \in Chapter : /\ IsFiniteSet(Opens(n)') /\ Cardinality(Opens(n)') \in Nat
                                /\ Cardinality(Opens(n)') <= Cardinality(Opens(n))
  BY <1>3, <1>6, FS_Subset, FS_CardinalityType
<1>7. CASE Outage
  <2>1. Keeps /\ budget' = budget
    BY <1>7, RowKept DEF Outage, storeVars, queueVars
  <2>2. Fewer
    BY <1>7 DEF Outage, Opens, Opening, Idle
  <2>. QED
    BY <1>2, <1>3, <1>4, <1>6, <2>1, <2>2, OpensCount DEF Opened
<1>8. ASSUME NEW r \in Request, Begin(r)
      PROVE  CountInv'
  <2>1. budget' = budget - 1 /\ \A n \in Chapter : Opens(n)' \subseteq Opens(n) \cup {r}
    BY <1>1, <1>8, BeginAccepts, AcceptOpens
  <2>2. \A n \in Chapter : Calm(n)
    BY <1>1, <1>4, <1>5, <1>8, BeginKinds
  <2>3. ASSUME NEW n \in Chapter
        PROVE  /\ IsFiniteSet(Opens(n)') /\ Cardinality(Opens(n)') \in Nat
               /\ Cardinality(Opens(n)') <= Cardinality(Opens(n)) + 1
    <3>1. /\ IsFiniteSet(Opens(n) \cup {r})
          /\ Cardinality(Opens(n) \cup {r}) <= Cardinality(Opens(n)) + 1
          /\ Cardinality(Opens(n) \cup {r}) \in Nat
      BY <1>3, FS_AddElement, FS_CardinalityType
    <3>2. /\ IsFiniteSet(Opens(n)') /\ Cardinality(Opens(n)') \in Nat
          /\ Cardinality(Opens(n)') <= Cardinality(Opens(n) \cup {r})
      BY <2>1, <3>1, FS_Subset, FS_CardinalityType
    <3>. QED
      BY <1>3, <3>1, <3>2
  <2>. QED
    BY <1>2, <1>3, <2>1, <2>2, <2>3, OpensCount DEF Opened
<1>9. ASSUME NEW r \in Request, Carry(r)
      PROVE  CountInv'
  <2>1. budget' = budget /\ Fewer
    BY <1>1, <1>9, CarryOpens
  <2>2. CASE Keeps
    BY <1>2, <1>3, <1>4, <1>6, <2>1, <2>2, OpensCount DEF Opened
  <2>3. ASSUME NEW n \in Chapter, n = request[r].n, Queue(r) \/ RewriteWrite(r),
               Queues(n) \/ Renews(n)
        PROVE  CountInv'
    <3>1. r \in Opens(n) /\ r \notin Opens(n)'
      BY <1>1, <1>9, <2>3, CarryOpens
    <3>2. Cardinality(Opens(n)') + 1 <= Cardinality(Opens(n))
      <4>1. Opens(n)' \subseteq Opens(n) /\ Opens(n)' # Opens(n)
        BY <2>1, <3>1
      <4>. QED
        BY <1>3, <1>6, <2>1, <4>1, FS_Subset
    <3>3. \/ job'[n].attempts = job[n].attempts /\ job'[n].id = job[n].id
          \/ job'[n].attempts = 0 /\ job'[n].id = job[n].id + 1
      BY <2>3 DEF Queues, Renews
    <3>4. Weight(n)' <= Weight(n) + 1 \/ Weight(n)' <= 1
      BY <1>3, <3>3 DEF Weight
    <3>5. \A m \in Chapter \ {n} : job'[m] = job[m] /\ Calm(m)
      BY <1>1, <2>3, WeightKept DEF Queues, Renews
    <3>. QED
      BY <1>2, <1>3, <1>6, <2>1, <3>2, <3>3, <3>4, <3>5, OpensCount DEF Opened
  <2>4. Queue(r) \/ RewriteWrite(r) => request[r].n \in Chapter
    BY <1>1, <1>9, CarryOpens
  <2>. QED
    BY <1>1, <1>9, <2>2, <2>3, <2>4, CarryKinds
<1>. QED
  BY <1>7, <1>8, <1>9 DEF ConsoleNext

LEMMA CountNext ==
  ASSUME PlainQueue, TypeInv, TypeInv', QueueInv, CountInv, [Next]_vars
  PROVE  CountInv'
<1>1. StoreTypeOK /\ SlotsOK /\ SlotsPlain /\ JobsPlain
  BY DEF TypeInv, QueueInv
<1>2. CASE WorkerNext /\ UNCHANGED consoleVars
  <2>1. WorkerKind
    BY <1>1, <1>2, WorkerKinds
  <2>. QED
    BY <1>2, <2>1, CountTakes, CountCarries, CountSettles, CountLetsGo, CountTicks DEF WorkerKind
<1>3. CASE ConsoleNext /\ UNCHANGED workerVars
  BY <1>3, CountConsole
<1>4. CASE UNCHANGED vars
  <2>1. UNCHANGED <<job, worker, faults, request, budget>>
    BY <1>4 DEF vars, consoleVars, workerVars, storeVars, queueVars
  <2>2. \A n \in Chapter : Holders(n)' = Holders(n) /\ Opens(n)' = Opens(n)
    BY <2>1 DEF Holders, Holds, Opens
  <2>3. \A n \in Chapter : Weight(n)' = Weight(n)
    BY <2>1, <2>2 DEF Weight, Claimable
  <2>4. Accepted' = Accepted /\ Allowed' = Allowed
    BY <2>1 DEF Accepted, Allowed
  <2>5. OpensCounted' /\ TriesCounted'
    BY <2>1, <2>2, <2>3, <2>4 DEF CountInv, OpensCounted, TriesCounted
  <2>6. RetriesRight'
    BY <2>1 DEF CountInv, RetriesRight, Holds
  <2>. QED
    BY <2>1, <2>5, <2>6 DEF CountInv
<1>. QED
  BY <1>1, <1>2, <1>3, <1>4, NoPipeline DEF Next

LEMMA CountAlways ==
  ASSUME PlainQueue
  PROVE  Spec => []CountInv
<1>1. TypeInv /\ TypeInv' /\ QueueInv /\ CountInv /\ [Next]_vars => CountInv'
  BY CountNext
<1>. QED
  BY <1>1, CountInit, TypeInvAlways, QueueAlways, PTL DEF Spec

(* No job is tried more often than MaxAttempts and one more time for each   *)
(* later request and each fault: neither the sweep of lost jobs nor the     *)
(* failure handler, which reads attempts in one step and decides on what it *)
(* read in another, gives a job a try that nothing accounts for.            *)
THEOREM AttemptsSafe ==
  ASSUME PlainQueue
  PROVE  Spec => []AttemptsBounded
<1>1. TypeInv /\ CountInv => AttemptsBounded
  <2>. SUFFICES ASSUME TypeInv, CountInv, NEW n \in Chapter
               PROVE  job[n].attempts < MaxAttempts + (MaxFaults - faults) + (MaxRequests - budget)
    BY DEF AttemptsBounded
  <2>1. Weight(n) + Cardinality(Opens(n)) <= Allowed /\ job[n].attempts <= Weight(n)
    BY CountTypes DEF CountInv, TriesCounted, Weight
  <2>2. job[n].attempts <= Allowed
    BY <2>1, CountTypes
  <2>. QED
    BY <2>2, CountTypes DEF Allowed, Accepted
<1>2. Spec => []CountInv
  BY CountAlways
<1>. QED
  BY <1>1, <1>2, TypeInvAlways, PTL

-----------------------------------------------------------------------------
(* The abstract queue *)

(* AttemptCap is a bound of the model alone: a cap that AttemptsBounded     *)
(* keeps out of reach.                                                      *)
AmpleCap == MaxAttempts + MaxFaults + MaxRequests <= AttemptCap

(* No handler is at a step of an operation that is not offered. *)
Served ==
  \A r \in Request :
    /\ request[r].step = "rewrite" => "rewrite" \in Ops
    /\ QueueOnly => request[r].step \in {"idle", "continue.gate", "queue", "configure"}

LEMMA ServedInit == Init => Served
BY DEF Init, ConsoleInit, Served, Idle

LEMMA ThreadServed ==
  ASSUME Served, NEW r \in Request, \A q \in Request \ {r} : request'[q] = request[q],
         request'[r].step = "rewrite" => "rewrite" \in Ops,
         QueueOnly => request'[r].step \in {"idle", "continue.gate", "queue", "configure"}
  PROVE  Served'
BY DEF Served

LEMMA ServedNext == TypeInv /\ Served /\ [Next]_vars => Served'
<1>. SUFFICES ASSUME TypeInv, Served, [Next]_vars PROVE Served'
  OBVIOUS
<1>1. ThreadsOK /\ \A r \in Request : request[r] \in Thread
  BY DEF TypeInv, ThreadsOK, ConsoleTypeOK
<1>2. CASE UNCHANGED request
  BY <1>2 DEF Served
<1>3. CASE Outage
  BY <1>3 DEF Outage, Served, Idle
<1>4. ASSUME NEW r \in Request, Begin(r)
      PROVE  Served'
  <2>2. /\ \A q \in Request \ {r} : request'[q] = request[q]
        /\ \/ request'[r].step \in {"idle", "continue.gate", "queue"}
           \/ request'[r].step = "rewrite" /\ "rewrite" \in Ops
           \/ /\ request'[r].step # "rewrite"
              /\ \E op \in Ops : op \notin {"generate", "cancel", "pause", "continue"}
    <3>. USE <1>1 DEF Accept, Idle, ThreadsOK, ConsoleTypeOK
    <3>1. CASE \E n \in Chapter : Generate(r, n)
      BY <3>1 DEF Generate
    <3>2. CASE \E n \in Chapter : Cancel(r, n)
      BY <3>2 DEF Cancel
    <3>3. CASE \E n \in Chapter : Review(r, n)
      BY <3>3 DEF Review
    <3>4. CASE \E n \in Chapter : Approve(r, n)
      BY <3>4 DEF Approve
    <3>5. CASE \E n \in Chapter : EditTitle(r, n)
      BY <3>5 DEF EditTitle
    <3>6. CASE \E n \in Chapter : Rollback(r, n)
      BY <3>6 DEF Rollback
    <3>7. CASE \E n \in Chapter : Rewrite(r, n)
      BY <3>7 DEF Rewrite
    <3>8. CASE \E n \in Chapter : \E text \in Text : EditText(r, n, text)
      BY <3>8 DEF EditText
    <3>9. CASE \E n \in Chapter : \E f \in Format : Export(r, n, f)
      BY <3>9 DEF Export
    <3>10. CASE \E n \in Chapter : \E f \in Format : ExportAgain(r, n, f)
      BY <3>10 DEF ExportAgain
    <3>11. CASE \E n \in Chapter : \E p \in Platform : Publish(r, n, p)
      BY <3>11 DEF Publish
    <3>12. CASE Continue(r)
      <4>1. PICK plans : Accept(r, "continue", [Idle EXCEPT !.step = "continue.gate",
                                                  !.n = novel.current + 1, !.plans = plans])
        BY ONLY <3>12 DEF Continue
      <4>2. request'[r].step = "continue.gate" /\ \A q \in Request \ {r} : request'[q] = request[q]
        BY <4>1
      <4>. QED
        BY <4>2
    <3>14. CASE Pause(r)
      BY <3>14 DEF Pause
    <3>13. CASE EditBible(r)
      BY <3>13 DEF EditBible
    <3>. QED
      BY <1>4, <3>1, <3>2, <3>3, <3>4, <3>5, <3>6, <3>7, <3>8, <3>9, <3>10, <3>11, <3>12, <3>13,
         <3>14 DEF Begin
  <2>. QED
    BY <2>2, ThreadServed DEF QueueOnly
<1>5. ASSUME NEW r \in Request, Carry(r)
      PROVE  Served'
  <2>1. /\ \A q \in Request \ {r} : request'[q] = request[q]
        /\ request'[r].step # "rewrite"
        /\ request[r].step \in {"idle", "continue.gate", "queue", "configure"} =>
             request'[r].step \in {"idle", "queue", "configure"}
    <3>. USE <1>1 DEF ThreadsOK, ConsoleTypeOK
    <3>1. CASE ContinueGate(r)
      BY <1>1, <3>1 DEF ContinueGate, Proceed, Answer, Idle, Thread, ThreadsOK, ConsoleTypeOK
    <3>2. CASE Queue(r)
      BY <1>1, <3>2 DEF Queue, Idle, Thread
    <3>3. CASE \/ Configure(r) \/ ReviewWrite(r) \/ ApproveWrite(r) \/ EditWrite(r)
               \/ ExportFails(r) \/ ExportRecord(r) \/ RewriteWrite(r) \/ BibleWrite(r)
      BY <3>3 DEF Configure, ReviewWrite, ApproveWrite, EditWrite, ExportFails, ExportRecord,
         RewriteWrite, BibleWrite, Answer, Idle
    <3>4. CASE \/ ReviewStatus(r) \/ ExportCreate(r) \/ ExportWrite(r) \/ ExportComplete(r)
      BY <1>1, <3>4 DEF ReviewStatus, ExportCreate, ExportWrite, ExportComplete, Proceed, Thread
    <3>. QED
      BY <1>5, <3>1, <3>2, <3>3, <3>4 DEF Carry
  <2>. QED
    BY <1>1, <2>1, ThreadServed DEF Served
<1>. QED
  BY <1>2, <1>3, <1>4, <1>5 DEF Next, ConsoleNext, vars, consoleVars

(* A step that the abstract queue does not see. *)
LEMMA Unseen ==
  ASSUME \A n \in Chapter : /\ job'[n].status = job[n].status
                            /\ job'[n].attempts = job[n].attempts
                            /\ Holders(n)' = Holders(n)
  PROVE  UNCHANGED Lifecycle!jobVars
BY DEF Lifecycle!jobVars

LEMMA LifeTakes ==
  ASSUME TypeInv, QueueInv, CountInv, AmpleCap, NEW w \in Worker, NEW n \in Chapter, Takes(w, n)
  PROVE  Lifecycle!Claim(n, w)
<1>1. SlotsOK /\ \A m \in Chapter : job[m] \in JobRow
  BY DEF TypeInv, StoreTypeOK
<1>2. \A m \in Chapter \ {n} :
        /\ job'[m].id = job[m].id /\ job'[m].attempts = job[m].attempts
        /\ \/ job'[m].status = job[m].status
           \/ job'[m].status = "PENDING" /\ job[m].status = "RUNNING" /\ job[m].lease = "lapsed"
  BY <1>1, SweptFacts DEF Takes
<1>3. job'[n].id = job[n].id /\ job'[n].status = "RUNNING"
  BY DEF Takes
<1>4. job'[n].attempts = job[n].attempts + 1
  <2>1. Weight(n) + Cardinality(Opens(n)) <= Allowed /\ job[n].attempts <= Weight(n)
    BY CountTypes DEF CountInv, TriesCounted, Weight
  <2>2. job[n].attempts <= Allowed
    BY <2>1, CountTypes
  <2>3. job[n].attempts < AttemptCap
    BY <2>2, CountTypes, CapAssumption DEF Allowed, Accepted, AmpleCap
  <2>. QED
    BY <2>3 DEF Takes, OneMore
<1>5. \A m \in Chapter : \A v \in Worker :
        (job[m].status = "PENDING" \/ (job[m].status = "RUNNING" /\ job[m].lease = "lapsed"))
          => ~Holds(v, m)
  BY DEF QueueInv, SlotsRight, Right
<1>6. job[n].status = "PENDING" \/ (job[n].status = "RUNNING" /\ job[n].lease = "lapsed")
  BY <1>1, SweptFacts DEF Takes
<1>7. \A v \in Worker \ {w}, m \in Chapter : Holds(v, m)' <=> Holds(v, m)
  BY <1>1, <1>2, <1>3, OtherHolds DEF Takes
<1>8. \A m \in Chapter : (Holds(w, m)' <=> m = n) /\ ~Holds(w, m)
  BY <1>3 DEF Takes, Holds, Busy
<1>9. Holders(n) = {} /\ Holders(n)' = {w} /\ \A m \in Chapter \ {n} : Holders(m)' = Holders(m)
  BY <1>5, <1>6, <1>7, <1>8 DEF Holders
<1>. DEFINE returned == {k \in Chapter \ {n} : job'[k].status # job[k].status}
<1>10. /\ returned \subseteq Chapter \ {n}
       /\ \A k \in returned : job[k].status = "RUNNING" /\ Holders(k) = {}
       /\ \A k \in Chapter : job'[k].status = IF k = n THEN "RUNNING"
                                              ELSE IF k \in returned THEN "PENDING" ELSE job[k].status
  BY <1>2, <1>3, <1>5 DEF Holders
<1>. HIDE DEF returned
<1>11. returned \in SUBSET {k \in Chapter \ {n} : Lifecycle!Lost(k)}
  BY <1>10 DEF Lifecycle!Lost
<1>12. Lifecycle!Lost(n) \/ job[n].status = "PENDING"
  BY <1>6, <1>9 DEF Lifecycle!Lost
<1>13. \A k \in Chapter : job'[k].attempts = IF k = n THEN job[k].attempts + 1 ELSE job[k].attempts
  BY <1>2, <1>4
<1>14. \A k \in Chapter : Holders(k)' = IF k = n THEN {w} ELSE Holders(k)
  BY <1>9
<1>15. \E back \in SUBSET {k \in Chapter \ {n} : Lifecycle!Lost(k)} :
         \A k \in Chapter : job'[k].status = IF k = n THEN "RUNNING"
                                             ELSE IF k \in back THEN "PENDING" ELSE job[k].status
  BY <1>10, <1>11
<1>. QED
  BY <1>9, <1>12, <1>13, <1>14, <1>15 DEF Lifecycle!Claim

LEMMA LifeSettles ==
  ASSUME SlotsOK, QueueInv, NEW w \in Worker, Settles(w)
  PROVE  Lifecycle!Settle(worker[w].n, w) \/ UNCHANGED Lifecycle!jobVars
<1>. SUFFICES ASSUME NEW n \in Chapter, n = worker[w].n
             PROVE  Lifecycle!Settle(n, w) \/ UNCHANGED Lifecycle!jobVars
  BY BusyType DEF Settles, QueueInv
<1>1. worker[w].pc \in Busy /\ Others(w)
  BY DEF Settles
<1>2. \A m \in Chapter : job'[m].id = job[m].id /\ job'[m].attempts = job[m].attempts
  BY <1>1 DEF Settles
<1>3. \A m \in Chapter : m # n \/ job[n].id # worker[w].id => job'[m] = job[m]
  BY <1>1 DEF Settles
<1>4. \A v \in Worker \ {w}, m \in Chapter : Holds(v, m)' <=> Holds(v, m)
  BY <1>1, <1>2, OtherHolds
<1>5. \A m \in Chapter : Holds(w, m) <=> m = n /\ job[n].id = worker[w].id
  BY <1>1 DEF Holds
<1>6. \A m \in Chapter : Holds(w, m)' => Holds(w, m)
  BY <1>2 DEF Settles, Onward, Holds
<1>7. \A m \in Chapter \ {n} : Holders(m)' = Holders(m)
  BY <1>4, <1>5, <1>6 DEF Holders
<1>8. CASE job[n].id # worker[w].id
  <2>1. Holders(n)' = Holders(n)
    BY <1>1, <1>4, <1>5, <1>6, <1>8 DEF Holders
  <2>. QED
    BY <1>3, <1>7, <1>8, <2>1, Unseen
<1>9. CASE job[n].id = worker[w].id
  <2>1. Holders(n) = {w}
    BY <1>1, <1>5, <1>9 DEF QueueInv, AtMostOneWorker, Holders
  <2>2. Holders(n)' \in {{w}, {}}
    <3>1. \A v \in Worker \ {w} : ~Holds(v, n)
      BY <2>1 DEF Holders
    <3>. QED
      BY <1>1, <1>4, <3>1 DEF Holders
  <2>3. /\ job'[n].status \in {"SUCCEEDED", "FAILED", "CANCELLED", "PENDING"}
        /\ Holders(n)' # {} => job'[n].status = "SUCCEEDED"
    <3>1. Holders(n)' # {} => worker'[w].pc \in Busy
      BY <2>2 DEF Holders, Holds
    <3>. QED
      BY <1>9, <3>1 DEF Settles
  <2>4. \A m \in Chapter : /\ job'[m].status = IF m = n THEN job'[n].status ELSE job[m].status
                           /\ Holders(m)' = IF m = n THEN Holders(n)' ELSE Holders(m)
    BY <1>3, <1>7
  <2>5. \E s \in Lifecycle!Settled \cup {"PENDING"}, kept \in {{w}, {}} :
          /\ kept # {} => s = "SUCCEEDED"
          /\ \A m \in Chapter : /\ job'[m].status = IF m = n THEN s ELSE job[m].status
                                /\ Holders(m)' = IF m = n THEN kept ELSE Holders(m)
    BY <2>2, <2>3, <2>4 DEF Lifecycle!Settled
  <2>. QED
    BY <1>2, <2>1, <2>5 DEF Lifecycle!Settle
<1>. QED
  BY <1>8, <1>9

LEMMA LifeLetsGo ==
  ASSUME QueueInv, LetsGo
  PROVE  \E js \in SUBSET Chapter : Lifecycle!Release(js)
<1>1. job' = job /\ \A w \in Worker, n \in Chapter : Holds(w, n)' => Holds(w, n)
  BY DEF LetsGo, Holds
<1>2. \A n \in Chapter : Holders(n)' \in {Holders(n), {}}
  BY <1>1 DEF QueueInv, AtMostOneWorker, Holders
<1>. DEFINE js == {n \in Chapter : Holders(n)' = {}}
<1>3. js \in SUBSET Chapter /\ \A n \in Chapter : Holders(n)' = IF n \in js THEN {} ELSE Holders(n)
  BY <1>2
<1>. HIDE DEF js
<1>4. Lifecycle!Release(js)
  BY <1>1, <1>3 DEF Lifecycle!Release
<1>. QED
  BY <1>3, <1>4

LEMMA LifeWorker ==
  ASSUME PlainQueue, TypeInv, QueueInv, CountInv, AmpleCap, WorkerNext
  PROVE  [Lifecycle!Next]_(Lifecycle!jobVars)
<1>1. StoreTypeOK /\ SlotsOK /\ SlotsPlain /\ JobsPlain
  BY DEF TypeInv, QueueInv
<1>2. WorkerKind
  BY <1>1, WorkerKinds
<1>3. ASSUME NEW w \in Worker, NEW n \in Chapter, Takes(w, n)
      PROVE  [Lifecycle!Next]_(Lifecycle!jobVars)
  BY <1>3, LifeTakes DEF Lifecycle!Next
<1>4. ASSUME NEW w \in Worker, Settles(w)
      PROVE  [Lifecycle!Next]_(Lifecycle!jobVars)
  <2>1. worker[w].n \in Chapter
    BY <1>1, <1>4, BusyType DEF Settles
  <2>. QED
    BY <1>1, <1>4, <2>1, LifeSettles DEF Lifecycle!Next
<1>5. ASSUME NEW w \in Worker, Carries(w)
      PROVE  [Lifecycle!Next]_(Lifecycle!jobVars)
  <2>1. job' = job /\ \A v \in Worker, n \in Chapter : Holds(v, n)' <=> Holds(v, n)
    BY <1>5 DEF Carries, Onward, Others, Holds
  <2>2. \A n \in Chapter : Holders(n)' = Holders(n)
    BY <2>1 DEF Holders
  <2>. QED
    BY <2>1, <2>2, Unseen
<1>6. CASE LetsGo
  BY <1>6, LifeLetsGo DEF Lifecycle!Next
<1>7. CASE Ticks
  <2>1. \A v \in Worker, n \in Chapter : Holds(v, n)' <=> Holds(v, n)
    BY <1>7 DEF Ticks, Holds
  <2>2. \A n \in Chapter : Holders(n)' = Holders(n)
    BY <2>1 DEF Holders
  <2>. QED
    BY <1>7, <2>2, Unseen DEF Ticks
<1>. QED
  BY <1>2, <1>3, <1>4, <1>5, <1>6, <1>7 DEF WorkerKind

LEMMA LifeConsole ==
  ASSUME PlainQueue, "rewrite" \notin Ops, TypeInv, QueueInv, Served, ConsoleNext,
         UNCHANGED workerVars
  PROVE  [Lifecycle!Next]_(Lifecycle!jobVars)
<1>1. StoreTypeOK /\ ThreadsOK /\ JobsPlain /\ worker' = worker
  BY DEF TypeInv, QueueInv, workerVars
<1>2. CASE Keeps
  <2>1. \A n \in Chapter : Holders(n)' = Holders(n)
    BY <1>1, <1>2 DEF Holders, Holds, Keeps, SameRow
  <2>. QED
    BY <1>2, <2>1, Unseen DEF Keeps, SameRow
<1>3. ASSUME NEW n \in Chapter, Queues(n) \/ Cancels(n)
      PROVE  [Lifecycle!Next]_(Lifecycle!jobVars)
  <2>1. /\ \A m \in Chapter : job'[m].id = job[m].id /\ job'[m].attempts = job[m].attempts
        /\ \A m \in Chapter \ {n} : job'[m] = job[m]
    BY <1>3 DEF Queues, Cancels
  <2>2. \A m \in Chapter : Holders(m)' = Holders(m)
    BY <1>1, <2>1 DEF Holders, Holds
  <2>3. Holders(n) = {}
    BY <1>3, NobodyHolds DEF Queues, Cancels
  <2>4. Lifecycle!Submit(n) \/ Lifecycle!Withdraw(n)
    BY <1>3, <2>1, <2>2, <2>3 DEF Queues, Cancels, Lifecycle!Submit, Lifecycle!Withdraw
  <2>. QED
    BY <2>4 DEF Lifecycle!Next
<1>4. CASE Outage
  BY <1>2, <1>4, RowKept DEF Outage, storeVars, queueVars
<1>5. ASSUME NEW r \in Request, Begin(r)
      PROVE  [Lifecycle!Next]_(Lifecycle!jobVars)
  BY <1>1, <1>2, <1>3, <1>5, BeginKinds
<1>6. ASSUME NEW r \in Request, Carry(r)
      PROVE  [Lifecycle!Next]_(Lifecycle!jobVars)
  <2>1. ~RewriteWrite(r)
    BY DEF Served, RewriteWrite, Answer
  <2>2. Queue(r) => request[r].n \in Chapter
    BY <1>1 DEF Queue, ThreadsOK, OpenHasChapter
  <2>. QED
    BY <1>1, <1>2, <1>3, <1>6, <2>1, <2>2, CarryKinds
<1>. QED
  BY <1>4, <1>5, <1>6 DEF ConsoleNext

(* The queue keeps the promise of JobLifecycle: every hold begins with a    *)
(* claim that counts a try, only its holder settles a job, a lost job goes  *)
(* back to the queue, and nothing else reopens a settled one.               *)
THEOREM QueueImplementsLifecycle ==
  ASSUME PlainQueue, AmpleCap, "rewrite" \notin Ops
  PROVE  Spec => JobsFollowLifecycle
<1>1. Init => Lifecycle!Init
  <2>. SUFFICES ASSUME Init PROVE Lifecycle!Init
    OBVIOUS
  <2>1. \A w \in Worker : worker[w].pc \notin Busy
    BY FreePlain DEF Init, WorkerInit
  <2>2. \A n \in Chapter : job[n].status = "NONE" /\ job[n].attempts = 0 /\ Holders(n) = {}
    BY <2>1 DEF Init, StoreInit, NoJob, Holders, Holds
  <2>. QED
    BY <2>2 DEF Lifecycle!Init
<1>2. TypeInv /\ QueueInv /\ CountInv /\ Served /\ [Next]_vars
        => [Lifecycle!Next]_(Lifecycle!jobVars)
  <2>. SUFFICES ASSUME TypeInv, QueueInv, CountInv, Served, [Next]_vars
               PROVE  [Lifecycle!Next]_(Lifecycle!jobVars)
    OBVIOUS
  <2>1. CASE UNCHANGED vars
    <3>1. job' = job /\ worker' = worker
      BY <2>1 DEF vars, storeVars, queueVars, workerVars
    <3>2. \A n \in Chapter : Holders(n)' = Holders(n)
      BY <3>1 DEF Holders, Holds
    <3>. QED
      BY <3>1, <3>2, Unseen
  <2>. QED
    BY <2>1, LifeWorker, LifeConsole, NoPipeline DEF Next, TypeInv, QueueInv
<1>3. TypeInv /\ Served /\ [Next]_vars => Served'
  BY ServedNext
<1>. QED
  BY <1>1, <1>2, <1>3, ServedInit, TypeInvAlways, QueueAlways, CountAlways, PTL
  DEF Spec, JobsFollowLifecycle, Lifecycle!Spec

-----------------------------------------------------------------------------
(* Jobs and chapters *)

LEMMA ChapterInit == Init => ChapterInv
<1>. SUFFICES ASSUME Init PROVE ChapterInv
  OBVIOUS
<1>1. \A w \in Worker : worker[w].pc # "voidjob"
  BY FreePlain DEF Init, WorkerInit, Busy
<1>2. \A n \in Chapter : job[n].status = "NONE" /\ job[n].id = 0 /\ chapter[n].status = "ABSENT"
  BY DEF Init, StoreInit, NoJob, NoChapter
<1>3. FirstIds /\ ChapterRight
  BY <1>2 DEF FirstIds, ChapterRight, ChapterSays, Queued
<1>. QED
  BY <1>1, <1>3 DEF ChapterInv, VoidRight, At

(* No chapter is rewritten: a slot holds the job it works on. *)
LEMMA HoldsItsOwn ==
  ASSUME TypeInv, QueueInv, FirstIds, NEW w \in Worker, worker[w].pc \in Busy
  PROVE  Holds(w, worker[w].n) /\ worker[w].n \in Chapter /\ job[worker[w].n].id = worker[w].id
<1>1. worker[w].n \in Chapter /\ worker[w].id \in Nat
  BY BusyType DEF QueueInv, TypeInv, Slot
<1>2. worker[w].id <= 0 /\ job[worker[w].n].id = 0
  BY <1>1 DEF QueueInv, SlotsOld, FirstIds
<1>. QED
  BY <1>1, <1>2 DEF Holds

(* A step of slot w that writes no other chapter than its own. *)
LEMMA OthersVoid ==
  ASSUME TypeInv, QueueInv, ChapterInv, NEW w \in Worker, worker[w].pc \in Busy, Others(w),
         \A m \in Chapter \ {worker[w].n} : chapter'[m].status = chapter[m].status,
         worker'[w].pc = "voidjob" =>
           worker'[w].n = worker[w].n /\ chapter'[worker[w].n].status = "CANCELLED"
  PROVE  VoidRight'
<1>. SUFFICES ASSUME NEW v \in Worker, worker'[v].pc = "voidjob"
             PROVE  chapter'[worker'[v].n].status = "CANCELLED"
  BY DEF VoidRight, At
<1>1. CASE v = w
  BY <1>1
<1>2. CASE v # w
  <2>1. worker'[v] = worker[v] /\ worker[v].pc \in Busy
    BY <1>2 DEF Others, Busy
  <2>2. chapter[worker[v].n].status = "CANCELLED"
    BY <2>1 DEF ChapterInv, VoidRight, At
  <2>3. Holds(v, worker[v].n) /\ Holds(w, worker[w].n) /\ worker[v].n \in Chapter
    BY <2>1, HoldsItsOwn DEF ChapterInv
  <2>4. worker[v].n # worker[w].n
    BY <1>2, <2>3 DEF QueueInv, AtMostOneWorker, Holders
  <2>. QED
    BY <2>1, <2>2, <2>3, <2>4
<1>. QED
  BY <1>1, <1>2

LEMMA ChapterTakes ==
  ASSUME TypeInv, QueueInv, ChapterInv, NEW w \in Worker, NEW n \in Chapter, Takes(w, n)
  PROVE  ChapterInv'
<1>1. \A m \in Chapter : job[m] \in JobRow
  BY DEF TypeInv, StoreTypeOK
<1>2. \A m \in Chapter \ {n} :
        /\ job'[m].id = job[m].id
        /\ \/ job'[m].status = job[m].status
           \/ job'[m].status = "PENDING" /\ job[m].status = "RUNNING"
  BY <1>1, SweptFacts DEF Takes
<1>3. /\ job'[n].id = job[n].id /\ job'[n].status = "RUNNING" /\ job[n].status \in Queued
      /\ chapter' = chapter
  BY <1>1, SweptFacts DEF Takes, Queued
<1>4. FirstIds'
  BY <1>2, <1>3 DEF ChapterInv, FirstIds
<1>5. ChapterRight'
  BY <1>2, <1>3 DEF ChapterInv, ChapterRight, ChapterSays, Queued
<1>6. VoidRight'
  BY <1>3 DEF ChapterInv, VoidRight, Takes, Others, At
<1>. QED
  BY <1>4, <1>5, <1>6 DEF ChapterInv

LEMMA ChapterCarries ==
  ASSUME TypeInv, QueueInv, ChapterInv, NEW w \in Worker, Carries(w)
  PROVE  ChapterInv'
<1>. SUFFICES ASSUME NEW n \in Chapter, n = worker[w].n
             PROVE  ChapterInv'
  BY BusyType DEF Carries, QueueInv, TypeInv
<1>1. /\ job' = job /\ worker[w].pc \in Busy /\ Others(w) /\ worker'[w].n = n
      /\ chapter' = chapter \/ \E status \in ACTIVE \cup {"CANCELLED"} : Stamps(n, status)
      /\ worker'[w].pc = "voidjob" => chapter'[n].status = "CANCELLED"
  BY DEF Carries, Onward
<1>2. CASE chapter' = chapter
  <2>1. VoidRight'
    BY <1>1, <1>2, OthersVoid
  <2>. QED
    BY <1>1, <1>2, <2>1 DEF ChapterInv, FirstIds, ChapterRight, ChapterSays
<1>3. ASSUME NEW status \in ACTIVE \cup {"CANCELLED"}, Stamps(n, status), chapter' # chapter
      PROVE  ChapterInv'
  <2>1. Holds(w, n) /\ worker[w].pc \notin Shown \cup {"fail"}
    BY <1>1, <1>3, HoldsItsOwn DEF ChapterInv, Carries
  <2>2. job[n].status = "RUNNING"
    BY <2>1 DEF QueueInv, SlotsRight, Right
  <2>3. ChapterRight'
    BY <1>1, <1>3, <2>2 DEF ChapterInv, ChapterRight, ChapterSays, Stamps, Queued
  <2>4. VoidRight'
    BY <1>1, <1>3, OthersVoid DEF Stamps
  <2>. QED
    BY <1>1, <2>3, <2>4 DEF ChapterInv, FirstIds
<1>. QED
  BY <1>1, <1>2, <1>3

LEMMA ChapterSettles ==
  ASSUME TypeInv, QueueInv, ChapterInv, NEW w \in Worker, Settles(w)
  PROVE  ChapterInv'
<1>. SUFFICES ASSUME NEW n \in Chapter, n = worker[w].n
             PROVE  ChapterInv'
  BY BusyType DEF Settles, QueueInv, TypeInv
<1>1. /\ worker[w].pc \in Busy /\ Others(w) /\ job[n].id = worker[w].id
      /\ Holds(w, n)
  BY HoldsItsOwn DEF Settles, ChapterInv
<1>2. /\ job'[n].id = job[n].id
      /\ \A m \in Chapter \ {n} : job'[m] = job[m]
  BY DEF Settles
<1>3. PICK outcome \in {"PENDING", "SUCCEEDED", "FAILED", "CANCELLED"} :
        /\ job'[n].status = outcome
        /\ worker'[w].pc \in Busy => worker'[w].pc = "export"
        /\ \/ outcome \in {"PENDING", "FAILED"} /\ Stamps(n, outcome)
           \/ outcome = "SUCCEEDED" /\ Stamps(n, "WAITING_APPROVAL")
           \/ outcome = "CANCELLED" /\ worker[w].pc = "voidjob" /\ chapter' = chapter
  BY <1>1 DEF Settles
<1>4. \A m \in Chapter \ {n} : chapter'[m].status = chapter[m].status
  BY <1>3 DEF Stamps
<1>5. FirstIds'
  BY <1>2 DEF ChapterInv, FirstIds
<1>6. worker[w].pc = "voidjob" => chapter[n].status = "CANCELLED"
  BY DEF ChapterInv, VoidRight, At
<1>7. ChapterRight'
  <2>1. \A m \in Chapter \ {n} : job'[m].status = job[m].status
    BY <1>2
  <2>2. /\ outcome = "PENDING" => chapter'[n].status \in ACTIVE
        /\ outcome = "SUCCEEDED" => chapter'[n].status = "WAITING_APPROVAL"
        /\ outcome = "FAILED" => chapter'[n].status = "FAILED"
        /\ outcome = "CANCELLED" => chapter'[n].status = "CANCELLED"
    BY <1>3, <1>6 DEF Stamps, ACTIVE
  <2>3. ASSUME NEW m \in Chapter
        PROVE  chapter'[m].status \in ChapterSays(job'[m].status)
    <3>1. CASE m = n
      BY <1>3, <2>2, <3>1 DEF ChapterSays, Queued
    <3>2. CASE m # n
      BY <1>4, <2>1, <3>2 DEF ChapterInv, ChapterRight, ChapterSays
    <3>. QED
      BY <3>1, <3>2
  <2>. QED
    BY <2>3 DEF ChapterRight
<1>8. VoidRight'
  BY <1>1, <1>3, <1>4, OthersVoid DEF Busy
<1>. QED
  BY <1>5, <1>7, <1>8 DEF ChapterInv

LEMMA ChapterStays ==
  ASSUME ChapterInv, UNCHANGED chapter,
         \A n \in Chapter : job'[n].status = job[n].status /\ job'[n].id = job[n].id,
         \A w \in Worker : worker'[w] = worker[w] \/ worker'[w].pc \notin Busy
  PROVE  ChapterInv'
<1>1. "voidjob" \in Busy
  BY DEF Busy
<1>2. FirstIds' /\ VoidRight'
  BY <1>1 DEF ChapterInv, FirstIds, VoidRight, At
<1>3. ChapterRight'
  BY DEF ChapterInv, ChapterRight, ChapterSays
<1>. QED
  BY <1>2, <1>3 DEF ChapterInv

LEMMA ChapterConsole ==
  ASSUME PlainQueue, QueueOnly, TypeInv, QueueInv, ChapterInv, Served, ConsoleNext,
         UNCHANGED workerVars
  PROVE  ChapterInv'
<1>1. StoreTypeOK /\ ThreadsOK /\ JobsPlain /\ worker' = worker
  BY DEF TypeInv, QueueInv, workerVars
<1>2. CASE Keeps /\ UNCHANGED chapter
  BY <1>1, <1>2, ChapterStays DEF Keeps, SameRow
<1>3. ASSUME NEW n \in Chapter, Queues(n) \/ Cancels(n)
      PROVE  ChapterInv'
  <2>1. /\ job'[n].id = job[n].id /\ \A m \in Chapter \ {n} : job'[m] = job[m]
        /\ \A m \in Chapter \ {n} : chapter'[m].status = chapter[m].status
    <3>1. job[n].status = "NONE" => chapter[n].status = "ABSENT"
      BY DEF ChapterInv, ChapterRight, ChapterSays, Queued
    <3>. QED
      BY <1>3, <3>1 DEF Queues, Cancels, Stamps
  <2>2. chapter'[n].status \in
          IF job'[n].status = "PENDING" THEN ACTIVE \cup {"CANCELLED", "FAILED"}
                                        ELSE {"CANCELLED", "FAILED"}
    <3>1. CASE Queues(n)
      BY <3>1 DEF Queues, Stamps, ChapterInv, ChapterRight, ChapterSays, Queued, ACTIVE
    <3>2. CASE Cancels(n)
      BY <3>2 DEF Cancels, Stamps, ChapterInv, ChapterRight, ChapterSays, Queued, ACTIVE
    <3>. QED
      BY <1>3, <3>1, <3>2
  <2>3. job'[n].status \in {"PENDING", "CANCELLED"}
    BY <1>3 DEF Queues, Cancels
  <2>4. ChapterRight'
    BY <2>1, <2>2, <2>3 DEF ChapterInv, ChapterRight, ChapterSays, Queued
  <2>5. VoidRight'
    <3>. SUFFICES ASSUME NEW w \in Worker, worker[w].pc = "voidjob"
                 PROVE  chapter'[worker[w].n].status = "CANCELLED"
      BY <1>1 DEF VoidRight, At
    <3>1. worker[w].pc \in Busy
      BY DEF Busy
    <3>2. Holds(w, worker[w].n) /\ worker[w].n \in Chapter
      BY <3>1, HoldsItsOwn DEF ChapterInv
    <3>3. worker[w].n # n
      BY <1>3, <3>2, NobodyHolds DEF Queues, Cancels, Holders
    <3>. QED
      BY <2>1, <3>2, <3>3 DEF ChapterInv, VoidRight, At
  <2>6. FirstIds'
    BY <2>1 DEF ChapterInv, FirstIds
  <2>. QED
    BY <2>4, <2>5, <2>6 DEF ChapterInv
<1>4. CASE Outage
  BY <1>2, <1>4, RowKept DEF Outage, storeVars, queueVars, textVars
<1>5. ASSUME NEW r \in Request, Begin(r)
      PROVE  ChapterInv'
  <2>1. \/ UNCHANGED <<job, chapter>>
        \/ \E n \in Chapter : job[n].status \in CancelOf /\ CancelJob(n)
        \/ \E op \in Ops : op \notin {"generate", "cancel", "pause", "continue"}
    BY <1>5 DEF Begin, Accept, Continue, Pause, EditBible, Generate, Cancel, Review, Approve,
       EditTitle, Rollback, Rewrite, EditText, Export, ExportAgain, Publish, SetPaused,
       storeVars, queueVars, textVars
  <2>. QED
    BY <1>1, <1>2, <1>3, <2>1, CancelKind, RowKept DEF QueueOnly, PlainQueue
<1>6. ASSUME NEW r \in Request, Carry(r)
      PROVE  ChapterInv'
  <2>1. ContinueGate(r) \/ Queue(r) \/ Configure(r)
    BY <1>6 DEF Served, Carry, ReviewStatus, ReviewWrite, ApproveWrite, EditWrite, ExportCreate,
       ExportWrite, ExportFails, ExportComplete, ExportRecord, RewriteWrite, BibleWrite,
       Answer, Proceed
  <2>2. request[r].step \in {"queue", "configure"} => request[r].n \in Chapter
    BY <1>1 DEF ThreadsOK, OpenHasChapter
  <2>3. CASE ContinueGate(r)
    BY <1>2, <2>3, RowKept DEF ContinueGate, storeVars, queueVars, textVars
  <2>4. CASE Queue(r)
    <3>1. request[r].n \in Chapter /\ QueueJob(request[r].n)
      BY <2>2, <2>4 DEF Queue
    <3>2. UNCHANGED storeVars \/ Queues(request[r].n)
      <4>1. CASE job[request[r].n].status \in Queued \cup {"SUCCEEDED"}
        BY <3>1, <4>1 DEF QueueJob, Queued
      <4>2. CASE job[request[r].n].status \notin Queued \cup {"SUCCEEDED"}
        <5>1. job'[request[r].n].status = "PENDING"
          BY <1>1, <3>1, <4>2 DEF QueueJob, StoreTypeOK, JobRow, NoJob
        <5>2. ~Keeps
          BY <3>1, <4>2, <5>1 DEF Keeps, SameRow, Queued
        <5>. QED
          BY <1>1, <3>1, <5>2, QueueKind
      <4>. QED
        BY <4>1, <4>2
    <3>. QED
      BY <1>2, <1>3, <3>1, <3>2, RowKept DEF storeVars, queueVars, textVars
  <2>5. CASE Configure(r)
    <3>1. Keeps /\ UNCHANGED chapter
      BY <1>1, <2>2, <2>5, ConfigKind DEF Configure, Answer, SetJobConfig, textVars
    <3>. QED
      BY <1>2, <3>1
  <2>. QED
    BY <2>1, <2>3, <2>4, <2>5
<1>. QED
  BY <1>4, <1>5, <1>6 DEF ConsoleNext

LEMMA ChapterNext ==
  ASSUME PlainQueue, QueueOnly, TypeInv, QueueInv, ChapterInv, Served, [Next]_vars
  PROVE  ChapterInv'
<1>1. StoreTypeOK /\ SlotsOK /\ SlotsPlain /\ JobsPlain
  BY DEF TypeInv, QueueInv
<1>2. CASE WorkerNext
  <2>1. WorkerKind
    BY <1>1, <1>2, WorkerKinds
  <2>2. CASE LetsGo
    BY <2>2, ChapterStays DEF LetsGo
  <2>3. CASE Ticks
    BY <2>3, ChapterStays DEF Ticks
  <2>. QED
    BY <2>1, <2>2, <2>3, ChapterTakes, ChapterCarries, ChapterSettles DEF WorkerKind
<1>3. CASE UNCHANGED vars
  BY <1>3, ChapterStays DEF vars, storeVars, queueVars, textVars, workerVars
<1>. QED
  BY <1>1, <1>2, <1>3, ChapterConsole, NoPipeline DEF Next

(* The chapter says what became of its job, and while the job is queued it  *)
(* says that work on it goes on (or what the try before said): the slot     *)
(* writes the two rows in different transactions, and neither a retry, a    *)
(* kill between two of them nor a cancellation leaves them apart.           *)
THEOREM JobAndChapterAgree ==
  ASSUME PlainQueue, QueueOnly
  PROVE  Spec => []JobChapterAgree
<1>1. TypeInv /\ QueueInv /\ ChapterInv /\ Served /\ [Next]_vars => ChapterInv'
  BY ChapterNext
<1>2. TypeInv /\ Served /\ [Next]_vars => Served'
  BY ServedNext
<1>3. TypeInv /\ ChapterInv => JobChapterAgree
  <2>. SUFFICES ASSUME TypeInv, ChapterInv, NEW n \in Chapter, job[n].status # "NONE"
               PROVE  chapter[n].status \in ChapterOf(job[n].status)
    BY DEF JobChapterAgree, Jobs
  <2>1. job[n].status \in JobStatus
    BY DEF TypeInv, StoreTypeOK, JobRow
  <2>2. CASE job[n].status \in Queued
    BY <2>2 DEF ChapterInv, ChapterRight, ChapterSays, ChapterOf, ChapterStatus, ACTIVE, TERMINAL, Queued
  <2>3. CASE job[n].status \in {"SUCCEEDED", "FAILED", "CANCELLED"}
    BY <2>3 DEF ChapterInv, ChapterRight, ChapterSays, ChapterOf, Queued
  <2>. QED
    BY <2>1, <2>2, <2>3 DEF JobStatus, Queued
<1>. QED
  BY <1>1, <1>2, <1>3, ChapterInit, ServedInit, TypeInvAlways, QueueAlways, PTL DEF Spec

=============================================================================
