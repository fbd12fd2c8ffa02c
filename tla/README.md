# A TLA+ model of novel_agent

`novel_agent` writes a novel chapter by chapter. A user asks for a chapter in a
web console; a worker daemon takes the request from a queue in SQLite, lets a
language model write the chapter in one call or in several stages, has it
reviewed by rules, and saves it; the user reviews, edits, approves, exports and
publishes it. This directory models the part of the program in which order
matters: the database rows, the worker, the agent stages with their checkpoints,
the calls to the language model, the console's requests, and the events that a page
follows while a chapter is written; and says what survives their interleavings.

Run things from this directory:

    tlc -config system.cfg NovelSystemMC.tla     # any of the .cfg files
    tlapm NovelSafety.tla                        # any of the proof modules

## 1. Inventory

| Part | Source (`src/novel_agent/`) | State it keeps | Modelled by |
|---|---|---|---|
| Store | `store.py`, `models.py` | SQLite: novels, chapters with drafts and reviews, jobs, exports, publish records, story bible versions | `NovelStore` |
| Worker daemon | `worker.py` | the pool's slots, each with one job | `NovelWorker` |
| Generation service | `service.py` | what a slot has read: pause flag, plan, text | `NovelWorker` |
| Agent stages | `stages.py`, `checkpoints.py`, `context.py` | `agent_runs`, `agent_stages`, `checkpoints`; the memory of a slot | `AgentPipeline` |
| HTTP console | `server.py` | per request thread: what its handler has read | `NovelConsole` |
| Chapter export | `exporters.py` | files in the export directory | `NovelStore.WriteFile` |
| Event bus | `events.py`, emitters in `service.py`, `stages.py` | `events` rows; per slot, the text not yet emitted (`_delta_buf`) | `EventBus` |
| SSE stream and page | `server.py`, `static/app.js` | a cursor per connection; the page's last id, its chapters | `LiveStream` |
| Model clients | `llm.py`, `deepseek.py` | per call: attempts, deadline, pieces of the answer | `ModelCalls` |
| Reviewer | `reviewer.py` | none: a pure function | verdict is a free choice |
| Publishers, replay, demo | `publishers.py`, `replay.py`, `demo.py` | none | no |
| Config, auth, logging, prompts, ops | `config.py`, `envfile.py`, `auth.py`, `logutil.py`, `prompts.py`, `ops.py` | none of a novel | constants of the model |

**How they interact.** Server and worker are separate processes; there may be
several workers. They share nothing but the database and the export directory.
Every write is one `BEGIN IMMEDIATE` transaction (or one autocommitted
statement), so writes are serialised; what a caller read *before* its transaction
may be stale by then. No job is handed over by a call: the queue is a table, a
claim is a row with a lease, and nothing renews a lease or stops a worker that has
lost one.

**What is hard.** (1) Leases, retries, kills and cancellations of a job that
somebody is working on. (2) Handlers that check a row and write by chapter number
in a later transaction. (3) Status, review, drafts, export row, file and publish
record of a chapter are separate pieces of state that must stay about the same
text. (4) Stages that are resumed by another try, in another process, from rows
written by one that died at any point. (5) A call to the model fails before,
within or after its answer, is retried or not, and takes time while a lease runs.
(6) Events travel beside the writes they announce, over a connection that breaks, to
a page that also polls. `PROJECT.json` lists each hazard at its line.

**What makes the parts correct.** Queue: one worker per job, bounded tries, every
job settled, the chapter agrees with its job. Chapters: nothing is approved,
exported or published that no review has passed; EXPORTED means a file exists;
publishing only moves `current_chapter` up. Texts: review, youngest draft, file
and publication are about the chapter's text. Stages: inputs at hand, finished
stages not paid for again, a succeeded run has delivered its text. Bible: the
version the novel names is never pruned. Calls: bounded in time, no piece of text twice,
no broken answer taken for one. Events: announced means saved; the page gets them in
order, once each, without a gap; the page shows every draft in the end.

## 2. Modules

    NovelStore                one operator per transaction of class Store
      NovelWorker             the slots: claim, read, write, fail, kill, lapse
        AgentPipeline         the slots between StartPlanning and Finalize
      NovelConsole            the request threads
    NovelSystem               all of them over one store; the properties
      NovelSystemMC           values for TLC
    JobLifecycle              abstract specification of the queue

    ModelCalls                one slot's calls to the model, over a clock
    AnswerStream              abstract specification of a call

    EventBus                  the events table and the slots that write it
      LiveStream              with the server's stream and the page
    EventFeed                 abstract specification of the stream
      EventBusMC  LiveStreamMC   values for TLC

    NovelTypes               proofs about NovelSystem: its types, on which rest
      NovelSafety            what holds without conditions
      NovelRuns              the agent stages
      NovelQueue             the queue and its promise
      NovelEditor            the console's texts
    ModelCallsProofs  EventBusProofs  LiveStreamProofs   proofs about the others

**NovelStore** has the rows as variables: `novel` (pause flag, `current_chapter`),
`job` by chapter number (the idempotency key is `novel:number:generate`, so there
is one row; `id` counts its incarnations, since a rewrite deletes the row and
inserts another), `older` (the order of `created_at`), `chapter` (status, text,
verdict, the text the verdict was computed from, draft versions), `exports`,
`files`, `records`, `bible`. `cleared`, the texts of a chapter that ever passed a
review, is a history variable. A lease is "none", "live" or "lapsed"; a retry
time is "due" or not.

**NovelWorker** gives each slot a program counter. Between two database accesses
any other actor may move, so each access is an action: `Claim`, `ReadContext`
(pause flag), `StartPlanning`, `VoidChapter`/`VoidTheJob` (the novel was paused),
`StartGenerating`, the call, `StartReviewing`, `Save`, `AutoRead`/`AutoWrite` (the
automatic txt export). `fail_job` is two steps, `ReadAttempts` and `WriteFailure`,
because the code reads `attempts` before its transaction. `Raise` is an exception
nobody expects, at any point; `Kill` the end of a process and its restart;
`NextPass` the barrier of the thread pool: a new pass starts when all slots are
done. `LeaseLapses` and `Overrun` let time pass.

**AgentPipeline** takes over for a job whose plan names stages. The start of
`run_async` is three separate reads (`FindRun`, `LoadMemory`, `Resume`), as in the
code. `StartStage` and `FinishStage` are the two transactions around a model call;
`StageFails` leads into `fail_job`, and `Abort` is what `mark_stage_failed` really
does (section 6). Then `StartFinalize`, the steps of `finalize` in NovelWorker, and
`MarkSucceeded`; or `NoResult`.

**NovelConsole** gives each request thread the next step of its handler and what it
has read. A request appears when it passes its gate (`Generate`, `Review`,
`Approve`, `EditText`, `Export`, ...) and its later transactions are the actions of
`Carry`. Refused requests change nothing and do not appear, except `continue`,
which clears the pause flag before its gate.

**JobLifecycle** is the queue's promise: a job has at most one holder, each hold
starts with a claim that counts a try, only the submitter reopens a settled job
(or the holder that has settled it and then fails), a lost job returns to the queue.
`NovelSystem!Lifecycle` maps the rows and slots to it: `holders` is the set of
slots busy with the present incarnation of the job.

**ModelCalls** refines what is one step of NovelWorker, the call. The clock counts units of time
from the claim; an action that waits for the network moves it by what it
waited. `Begin`, `OpenFails`, `Retry`, `Opened` are the way to the response headers,
`Piece`, `OtherLine`, `Done`, `Overdue`, `BodyFails` the lines of the answer, and
`Accept`, `Reject`, `NextJob` the caller: `complete_structured_async` with its one repair
call, and the loop over the stages. `client` tells the daemon's asynchronous client
from the synchronous one: which failures they retry (`Retryable`), when their deadline
starts (`Begin` or `Opened`) and when they look at it (`InTime`). **AnswerStream** is the
promise to the caller; `ModelCalls!Stream` maps a call to it.

**EventBus** goes over the streaming path once more with what NovelWorker leaves out:
each write to the database with the events emitted after it. `out` holds the events a
slot has still to emit before its next step, so that anything, a kill included, may come
between a write and its events; `Emit` may lose one, since `_emit` swallows every error.
`Receive` and `EndOfAnswer` are `_publish_delta` and `_flush_delta` with the buffer `buf`;
what is long or old enough is a free choice. A piece of text is a record that says
which job, try, stage, call and position it is from, so that properties can tell.
`tries` and `try` are history: the table does not have them. The chapter's and the run's
own states are only as fine as the events need.

**LiveStream** adds the server's cursor and the page. `Poll` is one turn of
`_stream_events`; the rows it read are `frames` until `Handle` (`handleEvent`) takes the
first; `Drop`, `ServerRestart` and `Reload` lose the connection in three ways. `Ask` and
`Show` are the two ends of `refresh`, which may overlap; `Show` reopens the stream, as
`ensureEventStream` does. **EventFeed** is the promise to the page: `LiveStream!Feed`
maps the novel's rows, the deleted ones and the events handled to it.

### What is abstracted

- Texts are members of `Body`; `NoBody` is the empty content. A stage's output is a
  member of `Body` too. Title, summary, goal, hook, beats and the bible's content
  are left out. Since titles do not change here, a chapter and format always have
  the same export path; in the code a new title makes a new file.
- A verdict is a free choice, except that an empty text never passes, as
  `missing_content` is blocking. `passed` and `blockingIssues` are one verdict:
  the reviewer passes exactly the texts without blocking issues.
- Reads of one request or slot with no write of its own between them are merged where
  only one of them is used by a guard (for example `chapter_by_id` and the number
  behind it). The reads that guards rely on are apart: pause flag, attempts,
  status in `record_review`, run, memory and stage states.
- The number of a chapter in a request is one of `Chapter`; `continue` is served
  when the next number is one of them.
- `usage` and `audit_log` rows are left out: no guard reads them, and writing one
  never fails its caller. In NovelSystem so are the events, for the same reason; they
  have their own modules. `chapter.status` events carry no property: the status they
  name may have changed again.
- In ModelCalls time is in units; a line arrives in one read. The store's work between two
  calls takes at most `Gap`, an attempt to open at most `OpenMax`: `httpx` and the socket
  bound each phase of it (connect, write, read, pool) by a timeout, not their sum.
- In EventBus a job has one plan for all its tries, resume is on and no lease lapses
  under a slot (AgentPipeline and NovelWorker have those cases); a job is not
  requested again once it has ended. A crash of a slot is possible within a call, where its buffer
  may be full, and at the automatic export; elsewhere it would lose only events, as a kill does.
- In LiveStream a refresh is one read of the chapters, and the novel on the page does
  not change, since the page never switches novels (section 6). The typewriter that
  reveals a text is left out; `chapter_events`, a read for the replay, too.
- `run_once`, `process`, `_compose` and `run` are the synchronous twins of the
  streaming functions; the daemon uses the streaming ones, which are modelled.
- `targetWords` and the per-job `autoExportTxt` are left out; `AutoExport` is one
  constant for all jobs.
- `jobs.attempts` saturates at `AttemptCap`. It is compared with `MaxAttempts`
  only, and `AttemptCap >= MaxAttempts`, so saturation changes no decision; in
  `queue`, where `AttemptsBounded` reads it, the cap (8) is above every value
  that can be reached.

## 3. Properties

| Property | Says | Assumes | Checked in | Proved |
|---|---|---|---|---|
| `TypeOK` | all modules' types | nothing | system | NovelTypes |
| `ApprovedOnlyAfterPass` | approved, exported or published: some text of the chapter passed a review | nothing | system | NovelSafety |
| `ExportedHasFile` | EXPORTED or published: a file was written | nothing | system | NovelSafety |
| `PublishedBelowCurrent` | `current_chapter` is not below a published number | nothing | system | NovelSafety |
| `RunningHasLease` | a RUNNING job can be swept | nothing | system | NovelSafety |
| `InputsAtHand` | a stage has the outputs of all before it | one slot | agents | NovelRuns |
| `DoneIsSaved` | a DONE stage's output is in the latest checkpoint | one slot | agents | NovelRuns |
| `DoneStaysDone` | a finished stage is not run again | one slot; no plan names a stage twice | agents | NovelRuns |
| `SucceededWasDrafted` | a SUCCEEDED run's result is a draft of the chapter | plans end in a written stage | handover | NovelRuns |
| `AtMostOneWorker` | one slot per job | A | queue | NovelQueue |
| `JobChapterAgree` | nobody works on a settled job, its chapter says what became of it | A; queue requests only | queue | NovelQueue |
| `AttemptsBounded` | tries are bounded by settings, requests and faults | A | queue | NovelQueue |
| `JobsFollowLifecycle` | the queue implements `JobLifecycle` | A; no rewrites | queue | NovelQueue |
| `JobsSettle` | every queued job is settled in the end | B | settle | |
| `ReviewIsOfBody`, `PublishedPassedReview`, `LatestDraftIsBody`, `ExportedFileIsBody` | review, publication, draft, file are about the chapter's text | C; no worker at work | editor | NovelEditor |
| `BibleVersionLive` | the bible version that the novel names exists | C | editor | NovelEditor |
| `CallsTypeOK` | types; at most `Retries` + 1 attempts | nothing | calls | ModelCallsProofs |
| `CallBounded` | a call is over within its bound, however it fails | nothing | calls | ModelCallsProofs |
| `JobBounded` | a job is over within its bound: how long a lease must be | nothing | calls | ModelCallsProofs |
| `StreamsAnswers` | both clients implement `AnswerStream` | nothing | calls | ModelCallsProofs |
| `BusTypeOK` | types of table, jobs and slots | nothing | bus | EventBusProofs |
| `AnnouncedIsSaved` | what an event in the table announces is in the database | nothing | bus | EventBusProofs |
| `DeltasInOrder` | deltas carry the pieces of one call each, in order, once | nothing | bus | EventBusProofs |
| `AnswersArePublished` | the deltas of a finished answer hold all of it | no fault | bus | EventBusProofs |
| `StreamTypeOK` | types; the page is given events of its novel only | nothing | stream | LiveStreamProofs |
| `NothingMissed` | every event up to where the page resumes was handled or deleted | nothing | stream | LiveStreamProofs |
| `FollowsFeed` | the stream implements `EventFeed`: in order, once each, no gap | nothing | stream | LiveStreamProofs |
| `EventsArrive` | in the end every event has reached the page or was deleted | D | stream | |
| `PageCatchesUp` | in the end the page shows every draft | D | stream | |

A: a lease outlives the processing of its job, the user cancels pending jobs
only, and chapters are written by one call. B: fairness (section 5), chapters written by one call, finitely many
faults. C: requests are served one at a time, though the server may die within one.
D: fairness (section 5), and the bounds of the run, by which connections and processes
break finitely often.
A to C are necessary: without them the code violates the properties,
and section 6 shows where documentation promises otherwise. Of the conditions named
in the table beside them, section 7 says why each is there. A property without a proof is
a liveness property.

## 4. Runs and bounds

The first six runs and the counterexamples instantiate `NovelSystemMC`.

| Run | Instance | Why it is enough |
|---|---|---|
| `queue` | 2 chapters, 2 processes of 1 slot, 3 requests (generate, cancel, pause, continue), 1 fault, 2 attempts | two jobs compete for a claim, two processes for a job; a job can be retried, killed, given up and requested again |
| `settle` | 2 chapters, 1 process of 2 slots, 2 requests, 1 fault, cancellation of running jobs too | the barrier of a pass with one slot stuck behind another; a job with two slots after a lapse |
| `editor` | 1 chapter, 2 texts, no worker, 9 requests one at a time, 1 outage | generation is not needed: an edit gives the chapter its text; 9 requests reach publication, a later edit through approval, rewrites and second exports |
| `system` | 1 chapter, 1 text, 1 slot, 2 request threads, 4 requests, 1 fault, 1 outage | each of the properties needs at most two requests in flight and the worker; 4 requests reach publication beside a generation |
| `agents` | 1 chapter, 2 texts, 1 slot, plans `chapter` and `outline, chapter, polish`, 2 requests, 2 faults, edits | a run that dies twice at any two points, a plan that changes between two tries |
| `handover` | the same plans, 2 slots in 2 processes, 1 request, 1 fault which may be a lapse | two slots in one run, each at any point of it |
| `calls` | both clients, 2 stages, 1 retry, answers of 2 pieces; timeout 3, opening 4, waits 2 and 1, gap 1 | an opening can take longer than the timeout; waits reach both caps; each stage repaired, each call retried; the asynchronous client reaches each of its bounds exactly, those of the synchronous one are upper bounds |
| `bus` | 2 jobs of one novel, one with a stage and one without, 1 slot, answers of 2 pieces, 2 claims, 1 kill or lost event | a job tried twice, or both jobs after another; a broken call whose buffer is full before another one; a repair; a kill before every event. Two slots share nothing but the table, to which each adds rows |
| `stream` | 2 novels of one job, 1 slot, answers of 1 piece, 2 claims, batches of 2, 1 break, pruning of 1 row, 2 refreshes on their way | rows of the other novel in between, batches that are not all delivered when the connection is lost, an overtaken refresh, a row pruned before or after it is read |
| `malformed`, `regenerate`, `unreviewed` | smallest instances | each shows one counterexample of section 6 |

`Body` is a symmetry set where two texts are used and no liveness is checked.
In `system` one text suffices: its properties distinguish a text that passed from none
only. `KeepBibles` is 2 instead of 20, so that pruning happens. Deadlock is
checked except in `editor`, `bus`, `stream` and the counterexamples, where there is no
worker, or requests, claims or breaks run out: there the system really comes to rest. In the other runs the
worker polls for ever.

Every action of every module fires in one of the passing runs. `MaxFaults`,
`MaxRequests`, `MaxOutages`, `MaxClaims`, `MaxBreaks`, `MaxReads` and `MaxGone` bound what
the environment does, `MaxPieces` the length of an answer; nothing else is cut off,
apart from `AttemptCap`. The clock of ModelCalls has no bound: `JobBounded` shows that it needs none.

## 5. Fairness

Used by `settle` (and `regenerate`). Weak fairness of each slot's steps: the thread
pool runs what it started, and a model call ends, since the HTTP clients have
timeouts. Of `NextPass`: the loop of `main` starts the next pass when a pass is over
(unless `NOVEL_WORKER_ONCE` is set). Of `BackoffElapses` and `LeaseLapses`: clocks
run. Nothing is assumed of the user, of `Raise`, `Kill` or `Overrun`.

Used by `stream`: weak fairness of `Emit` (a slot that has written goes on to emit), of
`Poll` (the loop of `_stream_events`), of `Handle` (a connection that is up delivers), of
`Ask` (`pollTick` schedules itself again whatever happened, while the page is visible)
and of `Show` (a request that is not lost is answered). Nothing is assumed of the
slots' other steps, of breaks, restarts or page loads: `EventsArrive` and
`PageCatchesUp` are about what has been written, not about more being written.

## 6. Where documentation and code differ

Each row was found while modelling; `PROJECT.json` quotes the lines.

| Run | What the documents say | What the code does |
|---|---|---|
| `malformed` | malformed JSON after repair is a dead letter | in the agent pipeline `mark_stage_failed` raises (five values for four placeholders), and a second `fail_job` puts the job back to PENDING |
| `regenerate` | a FAILED job can be generated again; no job is left RUNNING to be retried without end | a job whose run SUCCEEDED with a text that failed its review returns at once on every later try and stays RUNNING |
| `unreviewed` | nothing is published without a passed review | two concurrent requests: an edit between the check of an export and its stamp |

Without a run:

- a CANCELLED job can run again by itself: the worker of a cancelled RUNNING job
  fails, and `fail_job` writes PENDING over CANCELLED;
- a published text is not frozen: approve looks at the review only and makes a
  published chapter editable again;
- the idempotency key of an export has no draft version: the old file is served for
  the new text;
- a changed plan or disabled resume does not "start clean" but fails on the UNIQUE
  `job_id`;
- the two reads of a resume can miss a stage when two slots run one job;
- the automatic export can raise `ValueError` after an edit, which puts a SUCCEEDED
  job back;
- the first wait of the asynchronous client is 1 s, not 2 s; its categories are not
  quite those of the synchronous one; and it retries the opening of a call whose
  deadline has passed, which cannot succeed;
- the default lease (900 s) is shorter than a job may take by the default timeouts;
- `job.status` and `llm.done` are never published;
- the page cannot switch novels, though its list offers them;
- the replay of a chapter's latest generation shows all of its generations.

## 7. Proofs

TLAPS proves, for all values of the constants that satisfy their assumptions (any
number of chapters, slots, processes, requests, texts, any plans, any bounds):

- `TypeCorrect`: `Spec => []TypeOK`. The inductive invariant is `TypeInv`: a busy
  slot has a chapter (pc and `n` belong together), a request thread at a step has
  the chapter, format or number its step needs, the domain of `runs` is well formed,
  and a slot that reads a run has one (`ReadersHaveRun`, which is what makes
  `runs[KeyOf(w)]` meaningful in `LoadMemory` and `Resume`).
- `LeaseSafe`: `[]RunningHasLease`; inductive given `TypeInv`.
- `RecordsSafe`: `[]PublishedBelowCurrent`; inductive given `TypeInv`.
- `ApprovalSafe`, `ExportSafe`: `[]ApprovedOnlyAfterPass`, `[]ExportedHasFile`. Not
  inductive: a handler writes a status that it decided on from a row that may have
  changed. `StatusInv` adds what each pending write rests on: a thread about to
  approve, to write a kept status or to stamp EXPORTED rests on `cleared[n] # {}`
  or on a file that exists. Both facts are never taken back (`Grows`), so no
  interleaving invalidates what a thread relies on.
- `InputsSafe`, `CheckpointsSafe`: `[]InputsAtHand`, `[]DoneIsSaved`, both under
  `OneSlot` (`\A v, w \in Worker : v = w`), which the defaults justify:
  `NOVEL_WORKER_CONCURRENCY` is 1 (`config.py:72`, `.env.example:16`) and one worker
  process is started. `RunInv` says that the saved stages of a run are the first
  ones of its plan and that their outputs are never replaced (`RunsGood`), that a
  slot in the pipeline works on a run of its own plan and has the saved output of
  every stage before its own (`SlotsMatch`), that a slot is done with its plan
  when it takes the result (`SlotsRouted`), and that a slot between its two reads
  holds the memory of the latest checkpoint (`SlotsRead`). Only the last part needs
  `OneSlot`. Plans may be of any length and name a stage twice.

- `FinishedStagesStay`: `DoneStaysDone`, from `RunInv` and `Fresh`: the stage a
  slot is at is not DONE. With one slot, since `Resume` and the start of a stage are two
  steps; and for plans that name no stage twice (`DistinctStages`), since
  `mark_stage_started` resets the row that both places in the plan share.
- `ResultsAreDrafts`: `[]SucceededWasDrafted` for any number of slots, which work on
  one run after a lapse. A run is written to by all of them, a draft by one, and
  neither sees the other. `DraftInv` follows the text: the last stage's
  output, once saved, is never replaced (`RunKept`); a slot that holds a result holds the
  saved one (`Knows`, `Brings`); drafts are kept as long as the incarnation of the job
  lasts (`KeepsDrafts`). `EndsWritten` asks that a plan end in `chapter` or
  `polish`, and name it once. It is needed: of the plan `chapter, outline` `Final` is not
  the last stage, and of two slots the one behind, which finishes `outline` with an older
  memory, writes a checkpoint with another text than the one that was drafted. TLC finds
  this when given that plan; the pages do not offer it.

The queue (NovelQueue), under A (`PlainQueue`): `LeaseMayLapse` is FALSE, `CancelOf` has
no more than PENDING, `Plans` is `{<<>>}`. The first is a condition on the settings:
`JobsBounded` says how long a lease must be, and the default of 900 s is not enough for
the worst case (section 6); the single call is the default (`NOVEL_AGENT_STAGES` is empty, `config.py:87`). Most
steps of a slot differ in chapter rows only, so the proofs speak of five kinds of steps
(`Takes`, `Carries`, `Settles`, `LetsGo`, `Ticks`) and four of requests (`Keeps`,
`Queues`, `Cancels`, `Renews`); `WorkerKinds`, `BeginKinds`, `CarryKinds` and `NoPipeline` show that there are no others.

- `OneHolder`: `[]AtMostOneWorker`. `QueueInv` says what a holder finds in its row:
  RUNNING under a live lease before its save, SUCCEEDED after it (`SlotsRight`); a slot
  whose job was rewritten holds an older incarnation and counts for nothing (`SlotsOld`).
  The claim takes no such row, also after its own sweep.
- `AttemptsSafe`: `[]AttemptsBounded`. Each job that can be claimed and each request
  that may put it back weighs one try (`Weight`, `Opens`), and the sum
  stays within what settings, requests and faults allow (`TriesCounted`). A try that
  read `attempts` and decided to retry is within it (`RetriesRight`), as the row has
  no other holder that could count in between.
- `QueueImplementsLifecycle`: every step maps to a step or a stutter of `JobLifecycle`. A
  rewrite deletes the row and so takes a job back to "NONE" in the rows, which the
  abstract queue has no step for; the run that checks the refinement does not offer it
  either. `AmpleCap` (`AttemptCap` above all tries that `AttemptsBounded` allows) is about the model
  alone: where the count saturates, a claim would not count.
- `JobAndChapterAgree`: `[]JobChapterAgree`. `ChapterRight` gives the statuses
  that a chapter can have by that of its job; while the job is queued that includes what the
  last try left. `QueueOnly` leaves out the requests that set a chapter's status on their own
  account (review, approve, export, publish), of which the property says nothing.

The console's texts (NovelEditor), under C (`OneRequest`: one request thread):

- `BibleSafe`: `[]BibleVersionLive`. The version the novel names is the newest row, and
  an open edit goes on from it (`BibleInv`). Beside any workers.
- `ReviewsMatch`, `PublicationsReviewed`, `DraftsMatch`, `FilesMatch`. `EditorInv` says of
  each chapter that verdict, draft and file are of its text (`ChaptersClean`) and of the
  open request that what it has read is still so (`ThreadsUpToDate`); after an outage in
  the middle of a handler the first part holds on its own. `Alone` (no slot): a save of
  the worker between the read and the write of a handler makes each of them false.

The other modules:

- `CallsTypes`, `CallsBounded`, `JobsBounded` (ModelCallsProofs), from one inductive
  invariant over the clock: a call that is open at its n-th attempt began at most
  n openings and n - 1 waits ago (`Attempting`); while a body is read no more than the
  openings or one `Timeout` has passed (asynchronous), or its own deadline has not
  (synchronous, `InBody`); and the answered calls of the job, at most two a stage, are the
  rest of its age (`JobInv`). The powers of two need `PowersAssumption` only because the
  provers have no facts about `^`.
- `CallsStream`: every step of ModelCalls is a step or a stutter of `AnswerStream` under
  the mapping of `CallSeen`, `GotSeen`, `WholeSeen`, given the type invariant and that
  only the synchronous client retries a call with pieces, of which its caller has
  seen none.
- `BusTypes`, `EventsAnnounceWhatIsSaved` (EventBusProofs). `AnnouncedIsSaved` is not
  inductive: an event is written some steps after its transaction. `BusInv` and
  `SayInv` say that what a slot has still to emit holds already, and `Lasting` that
  what an event says is never taken back: drafts are kept, `marked` does not fall, a
  SUCCEEDED run is not resumed.
- `TextInOrder`, `TextComplete`: `[]DeltasInOrder`, `[]AnswersArePublished`, for any number of
  slots. `TextInv` follows a piece from the model to the table. Rows that are there are
  in order for each job and try (`TableSound`). Of each slot, the buffer with the piece
  that comes next is one run of pieces behind all rows of its try (`BufferSound`), and
  so is a delta in `out`, which is alone there (`OutSound`). Rows with the slot's call
  hold pieces of it only, and as long as nothing was lost each piece it has got is in a
  row, in `out` or in the buffer (`CallSound`): counted, these are `got`. A slot's own
  step moves pieces between the three; a step of another slot adds rows of another job.
  TLC checked the invariant with two slots before it was proved.
- `StreamTypes`, `ResumesWithoutGap`, `StreamImplementsFeed` (LiveStreamProofs), from
  `StreamInv`: every row of the novel up to the server's cursor is handled, on its
  way or deleted; the frames lie above `since` and up to the cursor; no id handled
  is above `since`. The step of `Poll` needs that a batch is the first
  rows behind the cursor, so that nothing lies between a batch and the next.

NovelTypes also states what `ResumeFrom` and `Final` return, from the least
and greatest elements of a set of numbers. Assumptions about constants are
`ChapterAssumption`, `BodyAssumption`, `KeepAssumption`, `PlanAssumption`,
`CapAssumption`, `WorkerAssumption`, `ResumeAssumption` and `ConsoleAssumption` of NovelSystem,
and those at the head of `ModelCalls`, `EventBus` and `LiveStream`; TLC evaluates them in
every run of the module.

Only model-checked: `JobsSettle`, `EventsArrive` and `PageCatchesUp`. They are
liveness properties, which rest on weak fairness and so on ENABLED, beyond the
prover. Every other property that a passing run checks is a theorem, under the conditions
of the table. Where those are more than what the code ensures, the run is a small instance of
the theorem and no more: under staged plans, say, `AtMostOneWorker` is neither checked nor
proved, since `mark_stage_failed` puts a job back while its slot goes on (section 6).

## 8. Plan

Done: the store, worker, console, stages and their composition, the abstract queue; the
model's calls; the events and the page; all type invariants, safety invariants and action
properties and the three refinements proved.

Next, in this order:

1. The queue's theorems for staged plans none of whose stages fails but by a fault, so
   that `JobLifecycle` holds of the agent pipeline as far as it can.
2. `JobAndChapterAgree` beside the requests that review and export: the statuses of
   `ChapterSays("SUCCEEDED")` grow by those that a request may give.
3. The theorems of NovelEditor beside a worker that has no job of the chapter in question:
   a chapter no slot is at, while it is edited.
4. What `AnswerStream` promises, used by `EventBus`: the calls of the two modules as one.

### Not modelled

- The reviewer's rules, the rendering of files, prompts and the checks of an answer:
  pure functions of one text. Their outcome is a free choice, which is more than
  they do.
- Configuration, environment file, authentication, logging, the operations command:
  parsing and formatting, without state of a novel.
- Publishers: a stub that is switched off.
- Replay and demonstration: a recorded model that serves its calls in order, used by
  one script, one call at a time.
- In the store and console: creating a novel (the initial state), the content of the
  story bible, usage and audit rows, read-only routes and listings, export of a whole
  book (it reads, and nothing reads its file back).
