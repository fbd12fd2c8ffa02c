------------------------------ MODULE NovelSystem -----------------------------
(***************************************************************************)
(* The worker and the console over one database: the whole life of the      *)
(* chapters of a novel, from the request for one to its publication.        *)
(*                                                                         *)
(* The two sides share nothing but the database (and the export directory). *)
(* A step of the system is a step of one of them.                           *)
(***************************************************************************)
EXTENDS AgentPipeline, NovelConsole

vars == <<storeVars, workerVars, consoleVars, runs>>

Init == StoreInit /\ WorkerInit /\ ConsoleInit /\ RunsInit

Next ==
  \/ WorkerNext /\ UNCHANGED <<consoleVars, runs>>
  \/ (\E w \in Worker : Pipeline(w)) /\ UNCHANGED consoleVars
  \/ ConsoleNext /\ UNCHANGED <<workerVars, runs>>

Spec == Init /\ [][Next]_vars

(* The pool runs every slot it has started to its end, a process starts     *)
(* pass after pass, and time passes.  Nothing is assumed of the user, of    *)
(* faults, or of the requests.                                              *)
Fairness ==
  /\ \A w \in Worker :
       WF_vars(((Work(w) /\ UNCHANGED runs) \/ Pipeline(w)) /\ UNCHANGED consoleVars)
  /\ \A p \in Process : WF_vars(NextPass(p) /\ UNCHANGED <<consoleVars, runs>>)
  /\ \A n \in Chapter : WF_vars(BackoffElapses(n) /\ UNCHANGED <<consoleVars, runs>>)
  /\ \A n \in Chapter : WF_vars(LeaseLapses(n) /\ UNCHANGED <<consoleVars, runs>>)

FairSpec == Spec /\ Fairness

TypeOK == StoreTypeOK /\ WorkerTypeOK /\ ConsoleTypeOK /\ RunsTypeOK

-----------------------------------------------------------------------------
(* What holds whatever requests, workers, kills and lapses interleave.      *)

Finished == {"DRAFT_READY", "EXPORTED", "PUBLISHED_MANUALLY"}
OnDisk   == {"EXPORTED", "PUBLISHED_MANUALLY"}

(* A chapter is approved, exported or published only if a text written for  *)
(* its number has passed a review at some time: no gate of the handlers and *)
(* no stale snapshot carried past one lets a chapter through that never     *)
(* had a passing review.                                                    *)
ApprovedOnlyAfterPass ==
  \A n \in Chapter : chapter[n].status \in Finished => cleared[n] # {}

(* A chapter says EXPORTED or published only when an exported file of it    *)
(* exists: the handler writes the file before it stamps the chapter, and a  *)
(* re-review that keeps the status keeps one that was earned.               *)
ExportedHasFile ==
  \A n \in Chapter : chapter[n].status \in OnDisk => \E f \in Format : files[n][f] # {}

(* current_chapter, which the generate gate and rewrite trust to tell what  *)
(* is published, is never below a chapter with a publish record.            *)
PublishedBelowCurrent ==
  \A n \in Chapter : records[n] # {} => n <= novel.current

(* A RUNNING job has a lease, so that the sweep of claim_job finds it when  *)
(* its worker dies: no other write leaves a job RUNNING without one.        *)
RunningHasLease ==
  \A n \in Chapter : job[n].status = "RUNNING" => job[n].lease # "none"

-----------------------------------------------------------------------------
(* What holds of the queue while leases outlive the processing of a job and *)
(* the user cancels pending jobs only.                                      *)

Holders(n) == {w \in Worker : Holds(w, n)}

(* "One chapter has only one active generation job": never two slots, of    *)
(* one process or of two, on the same job, across retries, kills and sweeps.*)
AtMostOneWorker ==
  \A n \in Chapter : \A v, w \in Holders(n) : v = w

(* Nobody works on a settled job's chapter any more, and the chapter says   *)
(* what became of the job.                                                  *)
ChapterOf(status) ==
  CASE status = "SUCCEEDED" -> {"WAITING_APPROVAL"}
    [] status = "FAILED"    -> {"FAILED"}
    [] status = "CANCELLED" -> {"CANCELLED", "FAILED"}
    [] OTHER                -> ChapterStatus

JobChapterAgree ==
  \A n \in Jobs : Holders(n) = {} => chapter[n].status \in ChapterOf(job[n].status)

(* A job is tried MaxAttempts times, and once more for each time the user   *)
(* queues it again and for each fault (a kill takes an attempt that         *)
(* fail_job never sees): MaxAttempts for its first request, one for every   *)
(* other.                                                                   *)
AttemptsBounded ==
  \A n \in Chapter :
    job[n].attempts < MaxAttempts + (MaxFaults - faults) + (MaxRequests - budget)

(* The queue implements its abstract specification.                         *)
Lifecycle == INSTANCE JobLifecycle WITH
  Job     <- Chapter,
  status  <- [n \in Chapter |-> job[n].status],
  holders <- [n \in Chapter |-> Holders(n)],
  tries   <- [n \in Chapter |-> job[n].attempts]

JobsFollowLifecycle == Lifecycle!Spec

(* Every queued job is settled in the end, through retries, kills and       *)
(* pauses: the queue never holds a job that no claim can take.              *)
JobsSettle ==
  \A n \in Chapter : job[n].status \in Queued ~> job[n].status \notin Queued

-----------------------------------------------------------------------------
(* Agent stages.                                                            *)

(* While the queue has one slot: a stage never runs, and no result is       *)
(* taken, without the outputs of all the stages before it, also when the    *)
(* run is resumed by another try, after a kill, from its latest checkpoint. *)
InputsAtHand ==
  \A w \in Worker :
    worker[w].pc \in {"stage", "model", "drafted"} =>
      \A i \in 1 .. worker[w].at - 1 : worker[w].memory[worker[w].plan[i]] # NoBody

(* While the queue has one slot: the latest checkpoint of a run holds the   *)
(* output of every stage that is DONE, so that none of them has to be paid  *)
(* for again.                                                               *)
DoneIsSaved ==
  \A k \in DOMAIN runs : \A s \in StageName :
    runs[k].state[s] = "DONE" => runs[k].memory[s] # NoBody

(* A run that has SUCCEEDED, which ends every further try of its job, has   *)
(* its result among the drafts of the chapter, also when two slots run the  *)
(* stages of one job at once.  (For plans that end in a written stage named *)
(* once: behind one that ends in "outline", the checkpoint of the other     *)
(* slot may replace a memory that has the result by one that has it not.)   *)
SucceededWasDrafted ==
  \A k \in DOMAIN runs :
    runs[k].status = "SUCCEEDED" /\ k[2] = job[k[1]].id =>
      \E v \in DOMAIN chapter[k[1]].drafts :
        chapter[k[1]].drafts[v] = runs[k].memory[Final(runs[k].stages)]

(* While the queue has one slot: a finished stage is not run again after a  *)
(* crash or a retry (README.md).                                            *)
DoneStaysDone ==
  [][\A k \in DOMAIN runs : \A s \in StageName :
       runs[k].state[s] = "DONE" => runs'[k].state[s] = "DONE"]_vars

-----------------------------------------------------------------------------
(* What holds while requests are served one at a time.                      *)

(* The verdict a chapter carries is about the text it carries. *)
ReviewIsOfBody ==
  \A n \in Chapter : chapter[n].verdict # "none" => chapter[n].reviewed = chapter[n].body

(* A published chapter carries a text that passed a review. *)
PublishedPassedReview ==
  \A n \in Chapter :
    chapter[n].status = "PUBLISHED_MANUALLY" => chapter[n].body \in cleared[n]

(* The youngest draft version is the text of the chapter, so that a         *)
(* rollback to it changes nothing.                                          *)
LatestDraftIsBody ==
  \A n \in Chapter :
    LET drafts == chapter[n].drafts IN
    drafts # <<>> => drafts[Len(drafts)] = chapter[n].body

(* Some exported file of an exported or published chapter holds its text: a *)
(* text that was edited afterwards is not offered for publication.          *)
ExportedFileIsBody ==
  \A n \in Chapter :
    chapter[n].status \in OnDisk => \E f \in Format : chapter[n].body \in files[n][f]

(* The version of the story bible that the novel names still has its row:   *)
(* pruning never takes it (get_novel would answer with an empty bible).     *)
BibleVersionLive == bible.version \in bible.rows

-----------------------------------------------------------------------------
(* What the documents say and the code does not do.                         *)

UserQueues(n) ==
  \E r \in Request : /\ request[r].step = "queue" /\ request[r].n = n
                     /\ request'[r] # request[r]

(* docs/novel-agent-progress.md: when the repair of malformed JSON fails    *)
(* too, the job is a dead letter: it is not tried again by itself.          *)
DeadLetterStays ==
  [][\A n \in Chapter :
       job[n].status = "FAILED" /\ job'[n].status = "PENDING" => UserQueues(n)]_vars

=============================================================================
