------------------------------ MODULE NovelConsole ----------------------------
(***************************************************************************)
(* The HTTP API of the console (server.py) as far as it changes a novel.    *)
(*                                                                         *)
(* The server runs every request in a thread of its own.  A handler first   *)
(* reads rows and checks its gate, then writes, in one or more later        *)
(* transactions: each is an action, and between two of them other requests  *)
(* and the worker may move.  What a handler read is kept in request[r].     *)
(* A request that is refused has no effect and is not modelled, except      *)
(* where it has already written.                                            *)
(***************************************************************************)
EXTENDS NovelStore

CONSTANTS
  Request,      \* threads serving a request
  Ops,          \* the operations the user performs
  CancelOf,     \* the job statuses in which the user cancels
  MaxRequests,  \* bound on the requests that pass their gate
  MaxOutages    \* bound on the times the server is killed

ASSUME ConsoleAssumption ==
  /\ CancelOf \subseteq Queued
  /\ MaxRequests \in Nat
  /\ MaxOutages \in Nat

VARIABLES
  request,      \* per thread: the next step of its handler and what it read
  budget,       \* requests still allowed
  outages       \* server kills still allowed

consoleVars == <<request, budget, outages>>

-----------------------------------------------------------------------------
Step == {"idle", "continue.gate", "queue", "configure", "review.status", "review.write",
         "approve", "edit", "rewrite", "bible",
         "export.create", "export.write", "export.complete", "export.record"}

(* n, text, ok, status, id, fmt, num: the values the handler holds.  plans: *)
(* the plan of the request's config, {} without one.                        *)
Thread ==
  [step : Step, n : Chapter \cup {0}, text : Text, saved : Text, ok : BOOLEAN,
   status : ChapterStatus \cup {"ABSENT"}, id : Nat, fmt : Format \cup {NoBody},
   num : Nat, plans : SUBSET Plans]

Idle == [step |-> "idle", n |-> 0, text |-> NoBody, saved |-> NoBody, ok |-> FALSE,
         status |-> "ABSENT", id |-> 0, fmt |-> NoBody, num |-> 0, plans |-> {}]

ConsoleTypeOK ==
  /\ request \in [Request -> Thread]
  /\ budget \in Nat
  /\ outages \in Nat

ConsoleInit ==
  /\ request = [r \in Request |-> Idle]
  /\ budget = MaxRequests
  /\ outages = MaxOutages

(* A request of kind op gets past its gate; the handler is at thread. *)
Accept(r, op, thread) ==
  /\ op \in Ops
  /\ request[r].step = "idle"
  /\ budget > 0 /\ budget' = budget - 1
  /\ request' = [request EXCEPT ![r] = thread]
  /\ UNCHANGED outages

(* The handler of r, at step, goes on to step next, or answers. *)
Proceed(r, step, next) ==
  /\ request[r].step = step
  /\ request' = [request EXCEPT ![r].step = next]
  /\ UNCHANGED <<budget, outages>>
Answer(r, step) ==
  /\ request[r].step = step
  /\ request' = [request EXCEPT ![r] = Idle]
  /\ UNCHANGED <<budget, outages>>

-----------------------------------------------------------------------------
(* POST chapters/generate and novels/<id>/continue                          *)

(* _assert_chapter_generatable, with current_chapter as it was read. *)
Generatable(n, current) ==
  \/ current >= n
  \/ chapter[n].body = NoBody
  \/ chapter[n].status \notin {"WAITING_APPROVAL", "DRAFT_READY", "EXPORTED"}

(* The config that comes with a request, or none. *)
Config == {{}} \cup {{plan} : plan \in Configs}

(* Gate, and create_job's read of the pause flag. *)
Generate(r, n) ==
  /\ ~novel.paused
  /\ Generatable(n, novel.current)
  /\ \E plans \in Config :
       Accept(r, "generate", [Idle EXCEPT !.step = "queue", !.n = n, !.plans = plans])
  /\ UNCHANGED storeVars

(* continue: resume the novel, then queue current_chapter + 1 as it was read. *)
Continue(r) ==
  /\ novel.current + 1 \in Chapter
  /\ \E plans \in Config :
       Accept(r, "continue", [Idle EXCEPT !.step = "continue.gate",
                                          !.n = novel.current + 1, !.plans = plans])
  /\ SetPaused(FALSE)

ContinueGate(r) ==
  LET n == request[r].n IN
  /\ \/ /\ Proceed(r, "continue.gate", "queue")
        /\ Generatable(n, n - 1) /\ ~novel.paused
     \/ /\ Answer(r, "continue.gate")
        /\ ~Generatable(n, n - 1) \/ novel.paused
  /\ UNCHANGED storeVars

(* create_job; a config is attached to the returned job afterwards. *)
Queue(r) ==
  /\ request[r].step = "queue"
  /\ request' = [request EXCEPT
       ![r] = IF @.plans = {} THEN Idle
              ELSE [@ EXCEPT !.step = "configure", !.id = job[request[r].n].id]]
  /\ QueueJob(request[r].n)
  /\ UNCHANGED <<budget, outages>>

Configure(r) ==
  /\ Answer(r, "configure")
  /\ \E plan \in request[r].plans : SetJobConfig(request[r].n, request[r].id, plan)

(* POST jobs/<id>/cancel and novels/<id>/pause: one write each. *)
Cancel(r, n) ==
  /\ Accept(r, "cancel", Idle)
  /\ job[n].status \in CancelOf
  /\ CancelJob(n)

Pause(r) ==
  /\ Accept(r, "pause", Idle)
  /\ SetPaused(TRUE)

-----------------------------------------------------------------------------
(* POST chapters/<id>/review                                                *)

(* The review is computed from the row as read; a text without content      *)
(* never passes (missing_content).                                          *)
Review(r, n) ==
  /\ n \in Existing
  /\ \E passed \in BOOLEAN :
       /\ passed => chapter[n].body # NoBody
       /\ Accept(r, "review", [Idle EXCEPT !.step = "review.status", !.n = n,
                                           !.text = chapter[n].body, !.ok = passed])
  /\ UNCHANGED storeVars

(* Mutant: a passing review writes the status of a job. *)
StatusAfterReview_ofJob(status, passed) == IF passed THEN "SUCCEEDED" ELSE "FAILED"

(* record_review: an exported or published chapter keeps its status. *)
StatusAfterReview(status, passed) ==
  IF status \in {"EXPORTED", "PUBLISHED_MANUALLY"} THEN status
  ELSE IF passed THEN "WAITING_APPROVAL" ELSE "FAILED"

ReviewStatus(r) ==
  /\ request[r].step = "review.status"
  /\ request' = [request EXCEPT
       ![r].step = "review.write",
       ![r].status = StatusAfterReview(chapter[request[r].n].status, request[r].ok)]
  /\ UNCHANGED <<storeVars, budget, outages>>

ReviewWrite(r) ==
  /\ Answer(r, "review.write")
  /\ RecordReview(request[r].n, request[r].text, request[r].ok, request[r].status)

(* Mutant: anything that has not failed may be approved. *)
Approvable_unlessFailed(row) == row.verdict # "failed"

(* POST chapters/<id>/approve: the gate is the review alone. *)
Approvable(row) == row.verdict = "passed"

Approve(r, n) ==
  /\ Approvable(chapter[n])
  /\ Accept(r, "approve", [Idle EXCEPT !.step = "approve", !.n = n])
  /\ UNCHANGED storeVars

ApproveWrite(r) ==
  /\ Answer(r, "approve")
  /\ SetStatus(request[r].n, "DRAFT_READY")

-----------------------------------------------------------------------------
(* PATCH chapters/<id> and POST chapters/<id>/rollback                      *)

Editable(n) == n \in Existing /\ chapter[n].status \notin TERMINAL

(* An edit of the content to text, which may be empty. *)
EditText(r, n, text) ==
  /\ Editable(n)
  /\ Accept(r, "edit", [Idle EXCEPT !.step = "edit", !.n = n, !.text = text,
                                    !.saved = text, !.ok = TRUE])
  /\ UNCHANGED storeVars

(* An edit of the title, summary, goal or hook: ok = FALSE, the content     *)
(* column is not written, the draft payload holds the content as read.      *)
EditTitle(r, n) ==
  /\ Editable(n)
  /\ Accept(r, "retitle", [Idle EXCEPT !.step = "edit", !.n = n,
                                       !.saved = chapter[n].body])
  /\ UNCHANGED storeVars

(* Rollback: update_draft with the content of an older draft version. *)
Rollback(r, n) ==
  /\ Editable(n)
  /\ \E v \in DOMAIN chapter[n].drafts :
       Accept(r, "rollback", [Idle EXCEPT !.step = "edit", !.n = n, !.ok = TRUE,
                                          !.text = chapter[n].drafts[v],
                                          !.saved = chapter[n].drafts[v]])
  /\ UNCHANGED storeVars

EditWrite(r) ==
  LET n == request[r].n IN
  /\ Answer(r, "edit")
  /\ UpdateDraft(n, IF request[r].ok THEN request[r].text ELSE chapter[n].body,
                 request[r].saved)

-----------------------------------------------------------------------------
(* POST chapters/<id>/export                                                *)

Exportable(row) ==
  /\ row.verdict = "passed"
  /\ row.status \in {"DRAFT_READY", "WAITING_APPROVAL", "EXPORTED"}

Export(r, n, f) ==
  /\ Exportable(chapter[n])
  /\ exports[n][f] # "SUCCEEDED"
  /\ Accept(r, "export", [Idle EXCEPT !.step = "export.create", !.n = n, !.fmt = f,
                                      !.text = chapter[n].body])
  /\ UNCHANGED storeVars

(* Mutant: the repeated request stamps the chapter again. *)
ExportAgain_stamps(r, n, f) ==
  /\ Exportable(chapter[n])
  /\ exports[n][f] = "SUCCEEDED"
  /\ Accept(r, "export", Idle)
  /\ SetStatus(n, "EXPORTED")

(* The format was exported before: the answer names the existing file and   *)
(* says EXPORTED, and nothing is written.                                   *)
ExportAgain(r, n, f) ==
  /\ Exportable(chapter[n])
  /\ exports[n][f] = "SUCCEEDED"
  /\ Accept(r, "export", Idle)
  /\ UNCHANGED storeVars

ExportCreate(r) ==
  /\ request[r].step = "export.create"
  /\ request' = [request EXCEPT ![r].step = "export.write", ![r].id = job[request[r].n].id]
  /\ CreateExport(request[r].n, request[r].fmt)
  /\ UNCHANGED <<budget, outages>>

ExportWrite(r) ==
  /\ Proceed(r, "export.write", "export.complete")
  /\ WriteFile(request[r].n, request[r].fmt, request[r].text)

(* Mutant: the error is recorded but not raised again. *)
ExportFails_goesOn(r) ==
  /\ Proceed(r, "export.write", "export.complete")
  /\ SetExport(request[r].n, request[r].id, request[r].fmt, "FAILED")

(* OSError while writing. *)
ExportFails(r) ==
  /\ Answer(r, "export.write")
  /\ SetExport(request[r].n, request[r].id, request[r].fmt, "FAILED")

ExportComplete(r) ==
  /\ Proceed(r, "export.complete", "export.record")
  /\ SetExport(request[r].n, request[r].id, request[r].fmt, "SUCCEEDED")

(* record_export; its second commit only stamps exported_at. *)
ExportRecord(r) ==
  /\ Answer(r, "export.record")
  /\ SetStatus(request[r].n, "EXPORTED")

-----------------------------------------------------------------------------
(* POST chapters/<id>/publish: one transaction. *)
Publish(r, n, p) ==
  /\ Accept(r, "publish", Idle)
  /\ ManualPublish(n, p)

(* POST chapters/<id>/rewrite: checks of rewrite_chapter, then its           *)
(* transaction, which checks again all but the published number.            *)
Rewrite(r, n) ==
  /\ Latest(n)
  /\ ~novel.paused /\ n > novel.current
  /\ Accept(r, "rewrite", [Idle EXCEPT !.step = "rewrite", !.n = n])
  /\ UNCHANGED storeVars

RewriteWrite(r) ==
  /\ Answer(r, "rewrite")
  /\ \/ RewriteChapter(request[r].n)
     \/ ~Rewritable(request[r].n) /\ UNCHANGED storeVars

(* PATCH novels/<id>/story-bible; a version taken meanwhile is an error. *)
EditBible(r) ==
  /\ \E v \in bible.rows :
       NewestBible(v) /\ Accept(r, "bible", [Idle EXCEPT !.step = "bible", !.num = v + 1])
  /\ UNCHANGED storeVars

BibleWrite(r) ==
  /\ Answer(r, "bible")
  /\ \/ UpdateBible(request[r].num)
     \/ request[r].num \in bible.rows /\ UNCHANGED storeVars

-----------------------------------------------------------------------------
(* The server is killed and started again: its requests are gone. *)
Outage ==
  /\ \E r \in Request : request[r] # Idle
  /\ outages > 0 /\ outages' = outages - 1
  /\ request' = [r \in Request |-> Idle]
  /\ UNCHANGED <<storeVars, budget>>

Begin(r) ==
  \/ Continue(r) \/ Pause(r) \/ EditBible(r)
  \/ \E n \in Chapter :
       \/ Generate(r, n) \/ Cancel(r, n) \/ Review(r, n) \/ Approve(r, n)
       \/ EditTitle(r, n) \/ Rollback(r, n) \/ Rewrite(r, n)
       \/ \E text \in Text : EditText(r, n, text)
       \/ \E f \in Format : Export(r, n, f) \/ ExportAgain(r, n, f)
       \/ \E p \in Platform : Publish(r, n, p)

Carry(r) ==
  \/ ContinueGate(r) \/ Queue(r) \/ Configure(r) \/ ReviewStatus(r) \/ ReviewWrite(r)
  \/ ApproveWrite(r) \/ EditWrite(r) \/ ExportCreate(r) \/ ExportWrite(r) \/ ExportFails(r)
  \/ ExportComplete(r) \/ ExportRecord(r) \/ RewriteWrite(r) \/ BibleWrite(r)

ConsoleNext == (\E r \in Request : Begin(r) \/ Carry(r)) \/ Outage

=============================================================================
