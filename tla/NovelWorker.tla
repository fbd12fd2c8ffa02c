------------------------------ MODULE NovelWorker -----------------------------
(***************************************************************************)
(* The worker daemon (worker.py) and the generation of one chapter          *)
(* (service.py, process_stream; process is its synchronous twin).  The      *)
(* steps of the agent stages are in AgentPipeline.                          *)
(*                                                                         *)
(* A process runs passes: in a pass each of its slots claims at most one    *)
(* job and processes it, and the next pass starts when every slot is done.  *)
(* Between two database accesses of a slot any other actor may move, so     *)
(* each access is an action; the model call has no effect on the database   *)
(* and only its outcome matters.                                            *)
(***************************************************************************)
EXTENDS NovelStore

CONSTANTS
  Worker,         \* slots (threads of the pool)
  Process,        \* worker processes
  Home,           \* the process of a slot
  MaxAttempts,    \* NOVEL_MAX_JOB_ATTEMPTS
  AutoExport,     \* NOVEL_AUTO_EXPORT_TXT (default true)
  Txt,            \* the format of the automatic export
  LeaseMayLapse,  \* may a lease lapse while its job is still being processed
  MaxFaults       \* bound on kills, unexpected exceptions and such lapses

ASSUME WorkerAssumption ==
  /\ Home \in [Worker -> Process]
  /\ MaxAttempts \in Nat \ {0}
  /\ AutoExport \in BOOLEAN /\ Txt \in Format
  /\ LeaseMayLapse \in BOOLEAN
  /\ MaxFaults \in Nat
  /\ MaxAttempts <= AttemptCap

VARIABLES
  worker,         \* per slot: where it is and what it has read
  faults          \* faults still allowed

workerVars == <<worker, faults>>

-----------------------------------------------------------------------------
(* A slot is "ready" for its pass, "done" with it, or busy with a job:      *)
(*   context   claimed; next: read the novel and build the prompt           *)
(*   plan      next: chapter PLANNING                                       *)
(*   void, voidjob   the novel was paused: chapter, then job CANCELLED      *)
(*   compose   next: chapter GENERATING                                     *)
(*   call      the model is running                                         *)
(*   agent, load, resume, create, stage, model, drafted, mark, abort        *)
(*             see AgentPipeline                                            *)
(*   save      chapter REVIEWING, review computed; next: save_generation    *)
(*   export    saved, passed, AutoExport; next: read the chapter again      *)
(*   write     next: write its text file                                    *)
(*   fail      fail_job has read attempts and decided retry                 *)
Busy == {"context", "plan", "void", "voidjob", "compose", "call",
         "agent", "load", "resume", "create", "stage", "model", "drafted", "mark", "abort",
         "save", "export", "write", "fail"}

(* by: who is running fail_job: the call of _compose_stream, that of a      *)
(* stage, or run_once_stream.  plan: the stages of the claimed job; at: the *)
(* stage it is at; memory: AgentContext.stage_results.                      *)
Memory   == [StageName -> Text]
NoMemory == [s \in StageName |-> NoBody]

Slot ==
  [pc : Busy \cup {"ready", "done"}, n : Chapter \cup {0}, id : Nat,
   text : Text, paused : BOOLEAN, retry : BOOLEAN, by : {"service", "stage", "loop"},
   plan : Plans, at : Nat, memory : Memory]

Free(pc) ==
  [pc |-> pc, n |-> 0, id |-> 0, text |-> NoBody, paused |-> FALSE,
   retry |-> FALSE, by |-> "service", plan |-> DefaultPlan, at |-> 0, memory |-> NoMemory]

WorkerTypeOK ==
  /\ worker \in [Worker -> Slot]
  /\ faults \in Nat

WorkerInit ==
  /\ worker = [w \in Worker |-> Free("ready")]
  /\ faults = MaxFaults

At(w, pc) == worker[w].pc = pc
Goto(w, pc) == worker' = [worker EXCEPT ![w].pc = pc]
Finish(w) == worker' = [worker EXCEPT ![w] = Free("done")]

(* w is processing the job row that chapter n has now. *)
Holds(w, n) == worker[w].pc \in Busy /\ worker[w].n = n /\ worker[w].id = job[n].id

Fault == faults > 0 /\ faults' = faults - 1

-----------------------------------------------------------------------------
(* run_once_stream: claim a job, or find nothing to do. *)
Claim(w) ==
  /\ At(w, "ready")
  /\ \/ \E n \in Chapter :
          /\ ClaimJob(n)
          /\ worker' = [worker EXCEPT ![w] =
                          [Free("context") EXCEPT !.n = n, !.id = job[n].id,
                                                  !.plan = job[n].plan]]
     \/ ClaimNone /\ Finish(w)
  /\ UNCHANGED faults

(* NovelService.context: the pause flag is read here and used later. *)
ReadContext(w) ==
  /\ At(w, "context")
  /\ worker' = [worker EXCEPT ![w] = [@ EXCEPT !.pc = "plan", !.paused = novel.paused]]
  /\ UNCHANGED <<storeVars, faults>>

StartPlanning(w) ==
  /\ At(w, "plan")
  /\ SetStatus(worker[w].n, "PLANNING")
  /\ Goto(w, IF worker[w].paused THEN "void"
             ELSE IF worker[w].plan = <<>> THEN "compose" ELSE "agent")
  /\ UNCHANGED faults

VoidChapter(w) ==
  /\ At(w, "void")
  /\ SetStatus(worker[w].n, "CANCELLED")
  /\ Goto(w, "voidjob")
  /\ UNCHANGED faults

VoidTheJob(w) ==
  /\ At(w, "voidjob")
  /\ VoidJob(worker[w].n, worker[w].id)
  /\ Finish(w)
  /\ UNCHANGED faults

StartGenerating(w) ==
  /\ At(w, "compose")
  /\ SetStatus(worker[w].n, "GENERATING")
  /\ Goto(w, "call")
  /\ UNCHANGED faults

(* finalize begins with the text of a valid chapter. *)
Finalize(w, text) ==
  /\ SetStatus(worker[w].n, "REVIEWING")
  /\ worker' = [worker EXCEPT ![w] = [@ EXCEPT !.pc = "save", !.text = text]]

(* The call returned a valid chapter. *)
StartReviewing(w) ==
  /\ At(w, "call")
  /\ \E text \in Body : Finalize(w, text)
  /\ UNCHANGED faults

(* finalize returns: to the pipeline, or to the end of the processing. *)
Finalized(w) == IF worker[w].plan = <<>> THEN Finish(w) ELSE Goto(w, "mark")

(* The review of the generated text is computed and saved. *)
Save(w) ==
  /\ At(w, "save")
  /\ \E passed \in BOOLEAN :
       /\ SaveGeneration(worker[w].n, worker[w].id, worker[w].text, passed)
       /\ IF passed /\ AutoExport THEN Goto(w, "export") ELSE Finalized(w)
  /\ UNCHANGED faults

-----------------------------------------------------------------------------
(* Failures *)

(* Mutant: one try too many. *)
Retries_oneMore(w, limit) == {job[worker[w].n].attempts <= limit}

(* fail_job's decision, from the attempts of the row as it is now (or of    *)
(* the claimed row, when the chapter was rewritten: that row is gone and    *)
(* its attempts may have been anything up to the limit).                    *)
Retries(w, limit) ==
  LET row == job[worker[w].n] IN
  {retry \in BOOLEAN : IF row.id = worker[w].id THEN retry <=> row.attempts < limit
                                               ELSE retry => 0 < limit}

ReadAttempts(w, limit, by) ==
  \E retry \in Retries(w, limit) :
    worker' = [worker EXCEPT ![w] = [@ EXCEPT !.pc = "fail", !.retry = retry, !.by = by]]

(* The automatic export reads the chapter again.  When the review it finds *)
(* is not the passing one it just saved, export_chapter raises ValueError,  *)
(* which nobody handles before run_once_stream: fail_job.                   *)
AutoRead(w) ==
  LET row == chapter[worker[w].n] IN
  /\ At(w, "export")
  /\ IF row.verdict = "passed"
     THEN worker' = [worker EXCEPT ![w] = [@ EXCEPT !.pc = "write", !.text = row.body]]
     ELSE ReadAttempts(w, MaxAttempts, "loop")
  /\ UNCHANGED <<storeVars, faults>>

(* The file is written, or the OSError is logged.  No export row is kept. *)
AutoWrite(w) ==
  /\ At(w, "write")
  /\ \/ WriteFile(worker[w].n, Txt, worker[w].text)
     \/ UNCHANGED storeVars
  /\ Finalized(w)
  /\ UNCHANGED faults

(* The call failed: a service error is retried, malformed JSON is not. *)
CallFails(w) ==
  /\ At(w, "call")
  /\ \E limit \in {0, MaxAttempts} : ReadAttempts(w, limit, "service")
  /\ UNCHANGED <<storeVars, faults>>

(* fail_job's transaction; StageAbort then ends the processing, or is       *)
(* caught by the pipeline.                                                  *)
WriteFailure(w) ==
  /\ At(w, "fail")
  /\ FailJob(worker[w].n, worker[w].id, worker[w].retry)
  /\ IF worker[w].by = "stage" THEN Goto(w, "abort") ELSE Finish(w)
  /\ UNCHANGED faults

(* An unexpected exception in process_stream, fail_job's own included:      *)
(* run_once_stream calls fail_job.  An exception in that one is swallowed.  *)
Raise(w) ==
  /\ worker[w].pc \in Busy
  /\ IF At(w, "fail") /\ worker[w].by = "loop"
     THEN Finish(w)
     ELSE ReadAttempts(w, MaxAttempts, "loop")
  /\ Fault
  /\ UNCHANGED storeVars

(* A process is killed between any two steps and started again: its slots   *)
(* forget their jobs, the job rows stay as they are.                        *)
Kill(p) ==
  /\ \E w \in Worker : Home[w] = p /\ worker[w].pc \in Busy
  /\ worker' = [w \in Worker |-> IF Home[w] = p THEN Free("ready") ELSE worker[w]]
  /\ Fault
  /\ UNCHANGED storeVars

-----------------------------------------------------------------------------
(* main: the next pass of a process starts when all its slots are done. *)
NextPass(p) ==
  /\ \A w \in Worker : Home[w] = p => At(w, "done")
  /\ \E w \in Worker : Home[w] = p
  /\ worker' = [w \in Worker |-> IF Home[w] = p THEN Free("ready") ELSE worker[w]]
  /\ UNCHANGED <<storeVars, faults>>

(* Time passes: the retry of a job falls due ... *)
BackoffElapses(n) ==
  /\ ~job[n].due
  /\ job' = [job EXCEPT ![n].due = TRUE]
  /\ UNCHANGED <<novel, older, textVars, publishVars, bible, workerVars>>

(* ... the lease of a job that nobody is processing any more lapses ...     *)
Abandoned(n) == \A w \in Worker : ~Holds(w, n)

Lapse(n) ==
  /\ job[n].status = "RUNNING" /\ job[n].lease = "live"
  /\ job' = [job EXCEPT ![n].lease = "lapsed"]
  /\ UNCHANGED <<novel, older, textVars, publishVars, bible, worker>>

LeaseLapses(n) == Abandoned(n) /\ Lapse(n) /\ UNCHANGED faults

(* ... or (LeaseMayLapse) that of a job whose processing takes longer than  *)
(* NOVEL_JOB_TIMEOUT: nothing renews a lease.                               *)
Overrun(n) == LeaseMayLapse /\ ~Abandoned(n) /\ Lapse(n) /\ Fault

Work(w) ==
  \/ Claim(w) \/ ReadContext(w) \/ StartPlanning(w) \/ VoidChapter(w) \/ VoidTheJob(w)
  \/ StartGenerating(w) \/ StartReviewing(w) \/ Save(w) \/ AutoRead(w) \/ AutoWrite(w)
  \/ CallFails(w) \/ WriteFailure(w)

WorkerNext ==
  \/ \E w \in Worker : Work(w) \/ Raise(w)
  \/ \E p \in Process : Kill(p) \/ NextPass(p)
  \/ \E n \in Chapter : BackoffElapses(n) \/ LeaseLapses(n) \/ Overrun(n)

=============================================================================
