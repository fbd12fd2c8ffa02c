----------------------------- MODULE AgentPipeline ----------------------------
(***************************************************************************)
(* The agent stages of a chapter (stages.py, run_async; run is its          *)
(* synchronous twin) and their checkpoints (checkpoints.py).                *)
(*                                                                         *)
(* A job whose plan names stages is not written by one call: each stage     *)
(* hands its output to the next, and after each one the outputs so far are  *)
(* saved, so that a later try of the same job goes on at the first stage    *)
(* that is not DONE.  The slot that runs the stages is one of NovelWorker,  *)
(* from StartPlanning (pc "agent") to Finalize (pc "drafted") and again     *)
(* after it (pc "mark").                                                    *)
(*                                                                         *)
(* The output of a stage is a member of Body (an outline is told apart like *)
(* a text); its raw answer and its usage row are left out.                  *)
(***************************************************************************)
EXTENDS NovelWorker

CONSTANT AutoResume   \* NOVEL_AUTO_RESUME (default true)

ASSUME ResumeAssumption == AutoResume \in BOOLEAN

VARIABLE runs         \* agent_runs, by job (chapter number and incarnation),
                      \* with their agent_stages and checkpoints

-----------------------------------------------------------------------------
(* checkpoints.py *)

RunStatus  == {"PENDING", "RUNNING", "SUCCEEDED", "FAILED"}
StageState == {"NONE", "RUNNING", "DONE"}

(* saved: the stages with a checkpoint row; memory: that of the latest one. *)
Run ==
  [status : RunStatus, stages : Plans, state : [StageName -> StageState],
   saved : SUBSET StageName, memory : Memory]

JobId == Chapter \X Nat

RunsTypeOK ==
  /\ DOMAIN runs \subseteq JobId
  /\ \A k \in DOMAIN runs : runs[k] \in Run

RunsInit == runs = [k \in {} |-> <<>>]

KeyOf(w) == <<worker[w].n, worker[w].id>>
Existent(w) == KeyOf(w) \in DOMAIN runs

InsertRun(k, plan) ==
  runs' = [j \in DOMAIN runs \cup {k} |->
             IF j = k
             THEN [status |-> "PENDING", stages |-> plan,
                   state |-> [s \in StageName |-> "NONE"], saved |-> {},
                   memory |-> NoMemory]
             ELSE runs[j]]

UpdateRun(k, row) == runs' = [runs EXCEPT ![k] = row]

(* Mutant: always the first stage. *)
ResumeFrom_start(run, plan) == 1

(* resume_from: the first stage that is not DONE, Len(plan) + 1 when all    *)
(* are.                                                                     *)
ResumeFrom(run, plan) ==
  CHOOSE i \in 1 .. Len(plan) + 1 :
    /\ \A j \in 1 .. i - 1 : run.state[plan[j]] = "DONE"
    /\ i <= Len(plan) => run.state[plan[i]] # "DONE"

(* mark_stage_started: an upsert that also resets a DONE stage. *)
Started(run, s) ==
  [run EXCEPT !.status = "RUNNING", !.state = [@ EXCEPT ![s] = "RUNNING"]]

(* Mutant: the memory is serialised before the output is added to it. *)
Saved_early(run, s, memory) ==
  [run EXCEPT !.state = [@ EXCEPT ![s] = "DONE"], !.saved = @ \cup {s}]

(* mark_stage_done, when the stage has no checkpoint yet. *)
Saved(run, s, memory) ==
  [run EXCEPT !.state = [@ EXCEPT ![s] = "DONE"], !.saved = @ \cup {s},
              !.memory = memory]

-----------------------------------------------------------------------------
(* stages.py *)

Stages(w) == worker[w].plan
Current(w) == Stages(w)[worker[w].at]

(* The slot goes on at stage i with memory. *)
GoOn(w, i, memory) ==
  worker' = [worker EXCEPT ![w] =
    [@ EXCEPT !.pc = IF i > Len(Stages(w)) THEN "drafted" ELSE "stage",
              !.at = i, !.memory = memory]]

(* An IntegrityError in the pipeline: run_once_stream calls fail_job. *)
Crash(w) == ReadAttempts(w, MaxAttempts, "loop")

Resumable(w) ==
  /\ Existent(w)
  /\ runs[KeyOf(w)].stages = Stages(w)
  /\ AutoResume

(* Mutant: the memory of the run is not loaded. *)
Loaded_not(run) == NoMemory

(* latest_memory and load_memory. *)
Loaded(run) == run.memory

(* The reads at the start: three statements, each of its own.  A run that   *)
(* has SUCCEEDED ends the processing at once: its job is left as it was     *)
(* claimed.                                                                 *)
FindRun(w) ==
  LET succeeded == Existent(w) /\ runs[KeyOf(w)].status = "SUCCEEDED" IN
  /\ At(w, "agent")
  /\ \/ succeeded /\ Finish(w)
     \/ ~succeeded /\ Resumable(w) /\ Goto(w, "load")
     \/ ~succeeded /\ ~Resumable(w) /\ Goto(w, "create")
  /\ UNCHANGED <<storeVars, faults, runs>>

LoadMemory(w) ==
  /\ At(w, "load")
  /\ worker' = [worker EXCEPT ![w] =
                  [@ EXCEPT !.pc = "resume", !.memory = Loaded(runs[KeyOf(w)])]]
  /\ UNCHANGED <<storeVars, faults, runs>>

Resume(w) ==
  /\ At(w, "resume")
  /\ GoOn(w, ResumeFrom(runs[KeyOf(w)], Stages(w)), worker[w].memory)
  /\ UNCHANGED <<storeVars, faults, runs>>

(* create_run: job_id is UNIQUE, so a job that has a run gets no other. *)
CreateRun(w) ==
  /\ At(w, "create")
  /\ \/ ~Existent(w) /\ InsertRun(KeyOf(w), Stages(w)) /\ GoOn(w, 1, NoMemory)
     \/ Existent(w) /\ Crash(w) /\ UNCHANGED runs
  /\ UNCHANGED <<storeVars, faults>>

StartStage(w) ==
  /\ At(w, "stage")
  /\ UpdateRun(KeyOf(w), Started(runs[KeyOf(w)], Current(w)))
  /\ Goto(w, "model")
  /\ UNCHANGED <<storeVars, faults>>

(* The model answers.  A stage that another slot has finished meanwhile has *)
(* its checkpoint, whose key is the run and the stage.                      *)
FinishStage(w) ==
  LET run == runs[KeyOf(w)] IN
  /\ At(w, "model")
  /\ \/ /\ Current(w) \notin run.saved
        /\ \E output \in Body :
             LET memory == [worker[w].memory EXCEPT ![Current(w)] = output] IN
             /\ UpdateRun(KeyOf(w), Saved(run, Current(w), memory))
             /\ GoOn(w, worker[w].at + 1, memory)
     \/ Current(w) \in run.saved /\ Crash(w) /\ UNCHANGED runs
  /\ UNCHANGED <<storeVars, faults>>

(* The call of a stage fails: complete_structured_async calls fail_job ...  *)
StageFails(w) ==
  /\ At(w, "model")
  /\ \E limit \in {0, MaxAttempts} : ReadAttempts(w, limit, "stage")
  /\ UNCHANGED <<storeVars, faults, runs>>

(* ... and raises StageAbort.  mark_stage_failed, which handles it, binds   *)
(* five values to a statement with four placeholders and raises itself:     *)
(* nothing is written, and run_once_stream calls fail_job again.            *)
Abort(w) ==
  /\ At(w, "abort")
  /\ Crash(w)
  /\ UNCHANGED <<storeVars, faults, runs>>

(* The result is the output of the last writing stage of the plan. *)
Final(plan) ==
  LET i == CHOOSE i \in DOMAIN plan :
             /\ plan[i] \in {"chapter", "polish"}
             /\ \A j \in DOMAIN plan : j > i => plan[j] = "outline"
  IN plan[i]

(* Mutant: the run is marked as succeeded before the result is saved. *)
StartFinalize_marks(w) ==
  /\ At(w, "drafted") /\ worker[w].memory[Final(Stages(w))] # NoBody
  /\ Finalize(w, worker[w].memory[Final(Stages(w))])
  /\ UpdateRun(KeyOf(w), [runs[KeyOf(w)] EXCEPT !.status = "SUCCEEDED"])
  /\ UNCHANGED faults

StartFinalize(w) ==
  /\ At(w, "drafted") /\ worker[w].memory[Final(Stages(w))] # NoBody
  /\ Finalize(w, worker[w].memory[Final(Stages(w))])
  /\ UNCHANGED <<faults, runs>>

(* mark_run_failed, when the memory has no result.  Job and chapter stay as *)
(* they are.                                                                *)
NoResult(w) ==
  /\ At(w, "drafted") /\ worker[w].memory[Final(Stages(w))] = NoBody
  /\ UpdateRun(KeyOf(w), [runs[KeyOf(w)] EXCEPT !.status = "FAILED"])
  /\ Finish(w)
  /\ UNCHANGED <<storeVars, faults>>

(* mark_run_succeeded, when finalize has returned. *)
MarkSucceeded(w) ==
  /\ At(w, "mark")
  /\ UpdateRun(KeyOf(w), [runs[KeyOf(w)] EXCEPT !.status = "SUCCEEDED"])
  /\ Finish(w)
  /\ UNCHANGED <<storeVars, faults>>

Pipeline(w) ==
  \/ FindRun(w) \/ LoadMemory(w) \/ Resume(w) \/ CreateRun(w)
  \/ StartStage(w) \/ FinishStage(w) \/ StageFails(w) \/ Abort(w)
  \/ StartFinalize(w) \/ NoResult(w) \/ MarkSucceeded(w)

=============================================================================
