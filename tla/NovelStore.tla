------------------------------ MODULE NovelStore ------------------------------
(***************************************************************************)
(* The persistent state of one novel (store.py over SQLite) and one        *)
(* operator per transaction of class Store.                                *)
(*                                                                         *)
(* Every transaction is BEGIN IMMEDIATE ... COMMIT, so writers are         *)
(* serialised and each operator below is one atomic step.  What a caller   *)
(* reads BEFORE it opens the transaction is not part of the operator: it   *)
(* arrives as a parameter, possibly stale, from NovelWorker (worker.py,    *)
(* service.py) or NovelConsole (server.py).                                *)
(*                                                                         *)
(* Data is abstracted: a chapter text is a member of Body, a review is its *)
(* verdict and the text it was computed from, times are the two facts the  *)
(* code derives from them (has the lease lapsed, is the retry due).        *)
(* Timestamps, usage rows, audit rows and the prose columns other than     *)
(* content are left out: no guard of the code reads them.                  *)
(***************************************************************************)
EXTENDS Naturals, Sequences

CONSTANTS
  Chapter,      \* the chapter numbers of the novel
  Body,         \* the non-empty chapter texts that can be told apart
  NoBody,       \* content = ''
  Platform,     \* publishing platforms
  Format,       \* export formats
  KeepBibles,   \* _KEEP_BIBLE_VERSIONS
  Configs,      \* the stage plans a request may ask for (jobs.config)
  DefaultPlan,  \* NOVEL_AGENT_STAGES: the plan of a job without a config
  AttemptCap    \* jobs.attempts counts up to here (bound of the model)

ASSUME ChapterAssumption == Chapter \subseteq Nat \ {0}
ASSUME BodyAssumption    == NoBody \notin Body
ASSUME KeepAssumption    == KeepBibles \in Nat \ {0}

(* _sanitize_run_config and _run_config: a plan is empty (one call writes   *)
(* the chapter) or names the stage "chapter".                               *)
StageName == {"outline", "chapter", "polish"}
Plans     == Configs \cup {DefaultPlan}

ASSUME PlanAssumption ==
  \A plan \in Plans :
    /\ plan \in Seq(StageName)
    /\ plan # <<>> => \E i \in DOMAIN plan : plan[i] = "chapter"
ASSUME CapAssumption == AttemptCap \in Nat

VARIABLES
  novel,        \* novels: paused, current (current_chapter)
  job,          \* jobs, keyed by chapter number (idempotency_key)
  older,        \* <<m, n>>: the job of m was created before the job of n
  chapter,      \* chapters, with the chapter_drafts of each
  cleared,      \* history: the texts of a chapter that ever passed a review
  exports,      \* export_jobs: status per chapter and format
  files,        \* per chapter and format the text in the exported file, as a set
  records,      \* publish_records and publish_jobs: platforms per chapter
  bible         \* story_bibles: rows, and novels.story_bible_version

queueVars   == <<job, older>>
textVars    == <<chapter, cleared>>
publishVars == <<exports, files, records>>
storeVars   == <<novel, queueVars, textVars, publishVars, bible>>

-----------------------------------------------------------------------------
(* models.py *)

ACTIVE   == {"PENDING", "PLANNING", "GENERATING", "REVIEWING"}
TERMINAL == {"PUBLISHED_MANUALLY", "CANCELLED"}
ChapterStatus ==
  ACTIVE \cup TERMINAL \cup {"DRAFT_READY", "WAITING_APPROVAL", "EXPORTED", "FAILED"}

JobStatus == {"PENDING", "RUNNING", "SUCCEEDED", "FAILED", "CANCELLED"}
Queued    == {"PENDING", "RUNNING"}

(* "ABSENT" and "NONE" stand for a row that does not exist. *)
Text    == Body \cup {NoBody}
Verdict == {"none", "passed", "failed"}
Lease   == {"none", "live", "lapsed"}

JobRow ==
  [id : Nat, status : JobStatus \cup {"NONE"}, attempts : Nat,
   lease : Lease, due : BOOLEAN, plan : Plans]
ChapterRow ==
  [status : ChapterStatus \cup {"ABSENT"}, body : Text, verdict : Verdict,
   reviewed : Text, drafts : Seq(Text)]
ExportStatus == {"NONE", "PENDING", "SUCCEEDED", "FAILED"}

NoJob     == [id |-> 0, status |-> "NONE", attempts |-> 0, lease |-> "none", due |-> TRUE,
              plan |-> DefaultPlan]
NoChapter == [status |-> "ABSENT", body |-> NoBody, verdict |-> "none",
              reviewed |-> NoBody, drafts |-> <<>>]

StoreTypeOK ==
  /\ novel \in [paused : BOOLEAN, current : Nat]
  /\ job \in [Chapter -> JobRow]
  /\ older \subseteq Chapter \X Chapter
  /\ chapter \in [Chapter -> ChapterRow]
  /\ cleared \in [Chapter -> SUBSET Text]
  /\ exports \in [Chapter -> [Format -> ExportStatus]]
  /\ files \in [Chapter -> [Format -> SUBSET Text]]
  /\ records \in [Chapter -> SUBSET Platform]
  /\ bible \in [version : Nat, rows : SUBSET Nat]

(* create_novel: version 1 of the story bible, no chapter, no job. *)
StoreInit ==
  /\ novel = [paused |-> FALSE, current |-> 0]
  /\ job = [n \in Chapter |-> NoJob]
  /\ older = {}
  /\ chapter = [n \in Chapter |-> NoChapter]
  /\ cleared = [n \in Chapter |-> {}]
  /\ exports = [n \in Chapter |-> [f \in Format |-> "NONE"]]
  /\ files = [n \in Chapter |-> [f \in Format |-> {}]]
  /\ records = [n \in Chapter |-> {}]
  /\ bible = [version |-> 1, rows |-> {1}]

-----------------------------------------------------------------------------
(* Jobs *)

Jobs == {n \in Chapter : job[n].status # "NONE"}

(* A job row inserted now is younger than every other one (created_at). *)
Youngest(n) ==
  {p \in older : p[1] # n /\ p[2] # n} \cup ((Jobs \ {n}) \X {n})

(* Mutant: an upsert, which puts any existing job back. *)
QueueJob_upserts(n) ==
  /\ job' = [job EXCEPT ![n].status = "PENDING"]
  /\ chapter' = IF chapter[n].status = "ABSENT"
                THEN [chapter EXCEPT ![n].status = "PENDING"]
                ELSE chapter
  /\ UNCHANGED <<novel, older, cleared, publishVars, bible>>

(* create_job after its read of the pause flag.  One row per chapter and   *)
(* kind: a live or successful job is returned as it is, a failed or        *)
(* cancelled one is put back (attempts and next_attempt_at are kept).      *)
QueueJob(n) ==
  \/ /\ job[n].status \in Queued \cup {"SUCCEEDED"}
     /\ UNCHANGED storeVars
  \/ /\ job[n].status \in {"FAILED", "CANCELLED"}
     /\ job' = [job EXCEPT ![n].status = "PENDING"]
     /\ UNCHANGED <<novel, older, textVars, publishVars, bible>>
  \/ /\ job[n].status = "NONE"
     /\ job' = [job EXCEPT ![n] = [NoJob EXCEPT !.status = "PENDING"]]
     /\ older' = Youngest(n)
     /\ chapter' = IF chapter[n].status = "ABSENT"
                   THEN [chapter EXCEPT ![n].status = "PENDING"]
                   ELSE chapter
     /\ UNCHANGED <<novel, cleared, publishVars, bible>>

(* set_job_config, with the id that create_job returned.  The status of the *)
(* job is not looked at.                                                    *)
SetJobConfig(n, id, plan) ==
  /\ job' = IF job[n].id = id
            THEN [job EXCEPT ![n] = [@ EXCEPT !.plan = plan]]
            ELSE job
  /\ UNCHANGED <<novel, older, textVars, publishVars, bible>>

(* Mutants: the sweep ignores the lease; there is no sweep. *)
SweptRow_anyLease(row) ==
  IF row.status = "RUNNING" THEN [row EXCEPT !.status = "PENDING", !.lease = "none"] ELSE row
SweptRow_never(row) == row

(* claim_job, first statement: every RUNNING job whose lease lapsed goes   *)
(* back to PENDING.                                                        *)
SweptRow(row) ==
  IF row.status = "RUNNING" /\ row.lease = "lapsed"
  THEN [row EXCEPT !.status = "PENDING", !.lease = "none"]
  ELSE row

Ready(n) == SweptRow(job[n]).status = "PENDING" /\ job[n].due

(* claim_job finds no ready job: only the sweep is committed. *)
ClaimNone ==
  /\ \A n \in Chapter : ~Ready(n)
  /\ job' = [n \in Chapter |-> SweptRow(job[n])]
  /\ UNCHANGED <<novel, older, textVars, publishVars, bible>>

OneMore(attempts) == IF attempts < AttemptCap THEN attempts + 1 ELSE attempts

(* Mutant: the claim forgets locked_until. *)
ClaimedRow_noLease(row) == [row EXCEPT !.status = "RUNNING", !.attempts = OneMore(@)]

ClaimedRow(row) ==
  [row EXCEPT !.status = "RUNNING", !.lease = "live", !.attempts = OneMore(@)]

(* claim_job: the oldest ready job becomes RUNNING under a fresh lease. *)
ClaimJob(n) ==
  /\ Ready(n)
  /\ \A m \in Chapter : Ready(m) => <<m, n>> \notin older
  /\ job' = [m \in Chapter |->
               IF m = n THEN ClaimedRow(SweptRow(job[n])) ELSE SweptRow(job[m])]
  /\ UNCHANGED <<novel, older, textVars, publishVars, bible>>

(* cancel_job: only a queued job; only an in-flight chapter follows it. *)
CancelJob(n) ==
  /\ job[n].status \in Queued
  /\ job' = [job EXCEPT ![n] = [@ EXCEPT !.status = "CANCELLED", !.lease = "none"]]
  /\ chapter' = IF chapter[n].status \in ACTIVE
                THEN [chapter EXCEPT ![n].status = "CANCELLED"]
                ELSE chapter
  /\ UNCHANGED <<novel, older, cleared, publishVars, bible>>

(* Mutant: the chapter is not told. *)
FailJob_jobOnly(n, id, retry) ==
  /\ job' = IF job[n].id = id
            THEN [job EXCEPT ![n].status = IF retry THEN "PENDING" ELSE "FAILED",
                             ![n].lease = "none", ![n].due = ~retry]
            ELSE job
  /\ UNCHANGED <<novel, older, textVars, publishVars, bible>>

(* fail_job after its read of attempts.  The job row is found by id (a     *)
(* rewritten chapter has another one), the chapter row by number; neither  *)
(* update looks at the status it overwrites.                               *)
FailJob(n, id, retry) ==
  LET outcome == IF retry THEN "PENDING" ELSE "FAILED" IN
  /\ job' = IF job[n].id = id
            THEN [job EXCEPT ![n] = [@ EXCEPT !.status = outcome, !.lease = "none",
                                              !.due = ~retry]]
            ELSE job
  /\ chapter' = [chapter EXCEPT ![n].status = outcome]
  /\ UNCHANGED <<novel, older, cleared, publishVars, bible>>

(* The paused branch of process(): UPDATE jobs SET status='CANCELLED'. *)
VoidJob(n, id) ==
  /\ job' = IF job[n].id = id THEN [job EXCEPT ![n].status = "CANCELLED"] ELSE job
  /\ UNCHANGED <<novel, older, textVars, publishVars, bible>>

(* save_generation: draft, review, chapter and job in one transaction. *)
SaveGeneration(n, id, text, passed) ==
  /\ chapter' = [chapter EXCEPT
       ![n] = [status   |-> IF passed THEN "WAITING_APPROVAL" ELSE "FAILED",
               body     |-> text,
               verdict  |-> IF passed THEN "passed" ELSE "failed",
               reviewed |-> text,
               drafts   |-> Append(@.drafts, text)]]
  /\ cleared' = IF passed THEN [cleared EXCEPT ![n] = @ \cup {text}] ELSE cleared
  /\ job' = IF job[n].id = id
            THEN [job EXCEPT ![n].status = IF passed THEN "SUCCEEDED" ELSE "FAILED"]
            ELSE job
  /\ UNCHANGED <<novel, older, publishVars, bible>>

-----------------------------------------------------------------------------
(* Novel and story bible *)

SetPaused(flag) ==
  /\ novel' = [novel EXCEPT !.paused = flag]
  /\ UNCHANGED <<queueVars, textVars, publishVars, bible>>

(* _prune_bible_versions: DELETE ... WHERE version < MAX(version) - (keep - 1). *)
Pruned(rows) == {v \in rows : \A u \in rows : u < v + KeepBibles}

NewestBible(v) == v \in bible.rows /\ \A u \in bible.rows : u <= v

(* Mutant: the novel is not told of the new version. *)
AddBible_rowOnly(version) ==
  /\ version \notin bible.rows
  /\ bible' = [bible EXCEPT !.rows = Pruned(@ \cup {version})]

(* The bible half of update_bible and manual_publish: version is the       *)
(* primary key, so inserting an existing one fails.                        *)
AddBible(version) ==
  /\ version \notin bible.rows
  /\ bible' = [version |-> version, rows |-> Pruned(bible.rows \cup {version})]

(* update_bible after its read of MAX(version). *)
UpdateBible(version) ==
  /\ AddBible(version)
  /\ UNCHANGED <<novel, queueVars, textVars, publishVars>>

-----------------------------------------------------------------------------
(* Chapters *)

Existing == {n \in Chapter : chapter[n].status # "ABSENT"}

SetStatus(n, status) ==
  /\ chapter' = [chapter EXCEPT ![n].status = status]
  /\ UNCHANGED <<novel, queueVars, cleared, publishVars, bible>>

(* record_review after its read of the current status. *)
RecordReview(n, text, passed, status) ==
  /\ chapter' = [chapter EXCEPT
       ![n] = [@ EXCEPT !.status = status,
                        !.verdict = IF passed THEN "passed" ELSE "failed",
                        !.reviewed = text]]
  /\ cleared' = IF passed THEN [cleared EXCEPT ![n] = @ \cup {text}] ELSE cleared
  /\ UNCHANGED <<novel, queueVars, publishVars, bible>>

(* Mutants: an edit keeps the status; it keeps the review; it saves the     *)
(* text as it was before.                                                   *)
UpdateDraft_keepsStatus(n, text, saved) ==
  /\ chapter' = [chapter EXCEPT ![n].verdict = "none", ![n].reviewed = NoBody,
                                ![n].body = text, ![n].drafts = Append(@, saved)]
  /\ UNCHANGED <<novel, queueVars, cleared, publishVars, bible>>
UpdateDraft_keepsReview(n, text, saved) ==
  /\ chapter' = [chapter EXCEPT ![n].status = "REVIEWING", ![n].body = text,
                                ![n].drafts = Append(@, saved)]
  /\ UNCHANGED <<novel, queueVars, cleared, publishVars, bible>>
UpdateDraft_savesOld(n, text, saved) ==
  /\ chapter' = [chapter EXCEPT ![n].status = "REVIEWING", ![n].verdict = "none",
                                ![n].reviewed = NoBody, ![n].body = text,
                                ![n].drafts = Append(@, chapter[n].body)]
  /\ UNCHANGED <<novel, queueVars, cleared, publishVars, bible>>

(* update_draft after its read of the row.  An edit of the content sets it  *)
(* (text); an edit of the other fields leaves it.  The draft payload is the *)
(* row as it was read, with the edit applied (saved).                       *)
UpdateDraft(n, text, saved) ==
  /\ chapter' = [chapter EXCEPT
       ![n] = [status   |-> "REVIEWING",
               body     |-> text,
               verdict  |-> "none",
               reviewed |-> NoBody,
               drafts   |-> Append(@.drafts, saved)]]
  /\ UNCHANGED <<novel, queueVars, cleared, publishVars, bible>>

(* Mutant: current_chapter stays behind. *)
ManualPublish_staysBehind(n, platform) ==
  /\ chapter[n].status = "EXPORTED"
  /\ platform \notin records[n]
  /\ chapter' = [chapter EXCEPT ![n].status = "PUBLISHED_MANUALLY"]
  /\ records' = [records EXCEPT ![n] = @ \cup {platform}]
  /\ \E v \in bible.rows : NewestBible(v) /\ AddBible(v + 1)
  /\ UNCHANGED <<novel, queueVars, cleared, exports, files>>

(* manual_publish: guarded by status, UNIQUE per platform; folds the        *)
(* chapter into the story bible and advances current_chapter.               *)
ManualPublish(n, platform) ==
  /\ chapter[n].status = "EXPORTED"
  /\ platform \notin records[n]
  /\ chapter' = [chapter EXCEPT ![n].status = "PUBLISHED_MANUALLY"]
  /\ records' = [records EXCEPT ![n] = @ \cup {platform}]
  /\ \E v \in bible.rows : NewestBible(v) /\ AddBible(v + 1)
  /\ novel' = [novel EXCEPT !.current = IF n > @ THEN n ELSE @]
  /\ UNCHANGED <<queueVars, cleared, exports, files>>

(* rewrite_chapter after its reads: checked again under the lock, the       *)
(* chapter starts over with a new job.                                      *)
Latest(n) == n \in Existing /\ \A m \in Existing : m <= n

Rewritable(n) ==
  /\ Latest(n)
  /\ chapter[n].status \notin ACTIVE
  /\ job[n].status \notin Queued

RewriteChapter(n) ==
  /\ Rewritable(n)
  /\ chapter' = [chapter EXCEPT ![n] = [NoChapter EXCEPT !.status = "PENDING"]]
  /\ exports' = [exports EXCEPT ![n] = [f \in Format |-> "NONE"]]
  /\ records' = [records EXCEPT ![n] = {}]
  /\ job' = [job EXCEPT ![n] = [NoJob EXCEPT !.id = job[n].id + 1, !.status = "PENDING"]]
  /\ older' = Youngest(n)
  /\ UNCHANGED <<novel, cleared, files, bible>>

-----------------------------------------------------------------------------
(* Exports.  An export row belongs to the incarnation of the chapter it was *)
(* created for; a rewrite deletes the rows, and a later update by id finds  *)
(* none.                                                                    *)

SetExport(n, id, f, status) ==
  /\ exports' = IF job[n].id = id /\ exports[n][f] # "NONE"
                THEN [exports EXCEPT ![n][f] = status]
                ELSE exports
  /\ UNCHANGED <<novel, queueVars, textVars, files, records, bible>>

(* create_export_job: an existing row is returned as it is. *)
CreateExport(n, f) ==
  /\ exports' = IF exports[n][f] = "NONE"
                THEN [exports EXCEPT ![n][f] = "PENDING"]
                ELSE exports
  /\ UNCHANGED <<novel, queueVars, textVars, files, records, bible>>

(* export_chapter: temporary file and os.replace. *)
WriteFile(n, f, text) ==
  /\ files' = [files EXCEPT ![n][f] = {text}]
  /\ UNCHANGED <<novel, queueVars, textVars, exports, records, bible>>

=============================================================================
