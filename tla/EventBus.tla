------------------------------ MODULE EventBus ------------------------------
(***************************************************************************)
(* The events table and the slots of the worker that write it while they    *)
(* generate chapters (events.py, service.py, stages.py).                    *)
(*                                                                         *)
(* A step of a slot is one write to the database of the job, or one piece   *)
(* of text from the model, with the events that the code emits right after; *)
(* the slot goes on when it has emitted them.  Emitting is best effort: an   *)
(* event that cannot be written is lost, and the slot does not notice.      *)
(* What the other writes of a job do is in NovelWorker and AgentPipeline;    *)
(* here a job is the chapter it generates, tried until it ends, with resume  *)
(* enabled, one plan for all tries and leases that outlive its processing.   *)
(***************************************************************************)
EXTENDS Integers, Sequences, FiniteSets, Functions

CONSTANTS
  Job, Novel, NovelOf,   \* the novel of each job
  Plan,                  \* per job: its stages, <<>> for a single call
  Slot,
  MaxPieces, MaxClaims, MaxFaults, MaxGone   \* bounds of the model

ASSUME NovelOfAssumption == NovelOf \in [Job -> Novel]
ASSUME PlanAssumption == Plan \in [Job -> Seq({"outline", "chapter", "polish"})]
(* The console lets no staged plan through without a chapter; its pages offer *)
(* none that repeats a stage (AgentPipeline has what becomes of one).         *)
ASSUME StagesAssumption ==
  \A j \in Job : Plan[j] # <<>> => "chapter" \in Range(Plan[j]) /\ IsInjective(Plan[j])
ASSUME BoundsAssumption == MaxFaults \in Nat /\ MaxGone \in Nat

VARIABLES
  events,    \* the table: row i has id i; ids are never used twice
  gone,      \* ids of deleted rows
  jobs,      \* per job: "pending", "running", "ended"
  tries,     \* per job: claims
  runs,      \* per job: "none", "RUNNING", "SUCCEEDED" (agent_runs)
  marked,    \* per job: how many stages of its plan are DONE (agent_stages)
  drafted,   \* jobs whose chapter has a saved draft
  slot,      \* per slot: where it is in its job
  out,       \* per slot: events it has still to emit before it goes on
  buf,       \* per slot: pieces of text not yet emitted (_delta_buf)
  faults     \* kills and lost events so far

slotVars == <<slot, out, buf>>
jobVars == <<jobs, tries, runs, marked, drafted>>
busVars == <<events, gone, jobVars, slotVars, faults>>

SlotAt(pc, j) == [pc |-> pc, job |-> j, call |-> 0, got |-> 0, ask |-> 1]
Idle == SlotAt("idle", "none")

(* One row.  "try" is not in the table: it tells rows of two tries apart.   *)
Row(j, type, stage, note, pieces, try) ==
  [novel |-> NovelOf[j], job |-> j, type |-> type, stage |-> stage, note |-> note,
   pieces |-> pieces, try |-> try]

Event(j, type, stage, note) == Row(j, type, stage, note, <<>>, tries[j])

BusInit ==
  /\ events = <<>> /\ gone = {}
  /\ jobs = [j \in Job |-> "pending"] /\ tries = [j \in Job |-> 0]
  /\ runs = [j \in Job |-> "none"] /\ marked = [j \in Job |-> 0] /\ drafted = {}
  /\ slot = [w \in Slot |-> Idle]
  /\ out = [w \in Slot |-> <<>>] /\ buf = [w \in Slot |-> <<>>]
  /\ faults = 0

-----------------------------------------------------------------------------
(* The table.                                                               *)

(* publish: one row in one transaction, or nothing. *)
Emit(w) ==
  /\ out[w] # <<>>
  /\ \/ events' = Append(events, Head(out[w])) /\ UNCHANGED faults
     \/ faults < MaxFaults /\ faults' = faults + 1 /\ UNCHANGED events
  /\ out' = [out EXCEPT ![w] = Tail(@)]
  /\ UNCHANGED <<gone, jobVars, slot, buf>>

(* Mutant: one row more than was old enough. *)
Prune_oneMore == \E last \in 0..Len(events) : last <= MaxGone /\ gone' = gone \cup 1..(last + 1)

(* prune, at the start of a process: what was written before some time.      *)
Prune == \E last \in 0..Len(events) : last <= MaxGone /\ gone' = gone \cup 1..last

(* What is in the table. *)
Rows(n) == {i \in DOMAIN events : events[i].novel = n}

(* Mutants: the row of the cursor again; the rows of every novel. *)
ReadSince_again(n, since, limit) ==
  LET later == {i \in Rows(n) \ gone : i >= since}
  IN  {i \in later : Cardinality({k \in later : k < i}) < limit}
ReadSince_any(n, since, limit) ==
  LET later == {i \in DOMAIN events \ gone : i > since}
  IN  {i \in later : Cardinality({k \in later : k < i}) < limit}

(* read_since: the first rows of the novel after since, at most limit. *)
ReadSince(n, since, limit) ==
  LET later == {i \in Rows(n) \ gone : i > since}
  IN  {i \in later : Cardinality({k \in later : k < i}) < limit}

-----------------------------------------------------------------------------
(* The slots.                                                               *)

At(w, pc) == slot[w].pc = pc /\ out[w] = <<>>
Goto(w, pc) == slot' = [slot EXCEPT ![w].pc = pc]
Leave(w) == slot' = [slot EXCEPT ![w] = Idle]
Say(w, es) == out' = [out EXCEPT ![w] = es]
Compose(j) == Plan[j] = <<>>
StageOf(j) == IF Compose(j) THEN "chapter" ELSE Plan[j][marked[j] + 1]

Claims == FoldFunction(+, 0, tries)

(* Mutant: the service, and so the buffer, of the job before is used again. *)
Start_keepsBuffer(w, j) ==
  /\ At(w, "idle") /\ jobs[j] = "pending" /\ Claims < MaxClaims
  /\ jobs' = [jobs EXCEPT ![j] = "running"]
  /\ tries' = [tries EXCEPT ![j] = @ + 1]
  /\ slot' = [slot EXCEPT ![w] = SlotAt("planned", j)]
  /\ Say(w, <<Row(j, "chapter.status", "", "PLANNING", <<>>, tries[j] + 1)>>)
  /\ UNCHANGED <<events, gone, runs, marked, drafted, buf, faults>>

(* The claim of a job, with a service of its own, so an empty buffer; the    *)
(* chapter is set PLANNING.                                                  *)
Start(w, j) ==
  /\ At(w, "idle") /\ jobs[j] = "pending" /\ Claims < MaxClaims
  /\ jobs' = [jobs EXCEPT ![j] = "running"]
  /\ tries' = [tries EXCEPT ![j] = @ + 1]
  /\ slot' = [slot EXCEPT ![w] = SlotAt("planned", j)]
  /\ buf' = [buf EXCEPT ![w] = <<>>]
  /\ Say(w, <<Row(j, "chapter.status", "", "PLANNING", <<>>, tries[j] + 1)>>)
  /\ UNCHANGED <<events, gone, runs, marked, drafted, faults>>

(* The novel is paused: job and chapter are cancelled. *)
Cancel(w) ==
  LET j == slot[w].job IN
  /\ At(w, "planned")
  /\ jobs' = [jobs EXCEPT ![j] = "ended"]
  /\ Leave(w)
  /\ Say(w, <<Event(j, "chapter.status", "", "CANCELLED")>>)
  /\ UNCHANGED <<events, gone, tries, runs, marked, drafted, buf, faults>>

(* The chapter is set GENERATING, or the run is created or taken up again.   *)
Prepare(w) ==
  LET j == slot[w].job IN
  /\ At(w, "planned")
  /\ IF Compose(j)
     THEN /\ Goto(w, "call") /\ UNCHANGED runs
          /\ Say(w, <<Event(j, "chapter.status", "", "GENERATING")>>)
     ELSE /\ Goto(w, "stage")
          /\ runs' = [runs EXCEPT ![j] = "RUNNING"]
          /\ Say(w, IF runs[j] = "none" THEN <<Event(j, "agent.run", "", "RUNNING")>> ELSE <<>>)
  /\ UNCHANGED <<events, gone, jobs, tries, marked, drafted, buf, faults>>

(* The next stage that is not done is marked started. *)
StartStage(w) ==
  LET j == slot[w].job IN
  /\ At(w, "stage") /\ marked[j] < Len(Plan[j])
  /\ slot' = [slot EXCEPT ![w].pc = "call", ![w].ask = 1]
  /\ Say(w, <<Event(j, "agent.stage", StageOf(j), "running")>>)
  /\ UNCHANGED <<events, gone, jobVars, buf, faults>>

Call(w) ==
  /\ At(w, "call")
  /\ slot' = [slot EXCEPT ![w].pc = "stream", ![w].call = @ + 1, ![w].got = 0]
  /\ UNCHANGED <<events, gone, jobVars, out, buf, faults>>

(* A piece of text is buffered; the buffer is emitted when it is long or old *)
(* enough, and is empty then whether the event could be written or not.      *)
Delta(w, pieces) ==
  Row(slot[w].job, "llm.delta", StageOf(slot[w].job), "", pieces, tries[slot[w].job])
Piece(w) ==
  [job |-> slot[w].job, try |-> tries[slot[w].job], stage |-> StageOf(slot[w].job),
   call |-> slot[w].call, at |-> slot[w].got + 1]

Receive(w) ==
  LET more == Append(buf[w], Piece(w)) IN
  /\ At(w, "stream") /\ slot[w].got < MaxPieces
  /\ slot' = [slot EXCEPT ![w].got = @ + 1]
  /\ \/ buf' = [buf EXCEPT ![w] = more] /\ UNCHANGED out
     \/ buf' = [buf EXCEPT ![w] = <<>>] /\ Say(w, <<Delta(w, more)>>)
  /\ UNCHANGED <<events, gone, jobVars, faults>>

(* Mutant: what is in the buffer at the end of an answer is not emitted. *)
EndOfAnswer_dropsRest(w) ==
  /\ At(w, "stream") /\ slot[w].got > 0
  /\ Goto(w, "answer")
  /\ buf' = [buf EXCEPT ![w] = <<>>]
  /\ UNCHANGED <<events, gone, jobVars, out, faults>>

(* The end of the answer: the rest is emitted. *)
EndOfAnswer(w) ==
  /\ At(w, "stream") /\ slot[w].got > 0
  /\ Goto(w, "answer")
  /\ buf' = [buf EXCEPT ![w] = <<>>]
  /\ Say(w, IF buf[w] = <<>> THEN <<>> ELSE <<Delta(w, buf[w])>>)
  /\ UNCHANGED <<events, gone, jobVars, faults>>

(* A malformed answer is asked for once more. *)
Repair(w) ==
  /\ At(w, "answer") /\ slot[w].ask = 1
  /\ slot' = [slot EXCEPT ![w].pc = "call", ![w].ask = 2]
  /\ UNCHANGED <<events, gone, jobVars, out, buf, faults>>

(* The call fails, its answer is malformed again, or the slot crashes: the   *)
(* job waits for another try, or has failed.  No event tells.                *)
Fail(w) ==
  /\ At(w, "stream") \/ At(w, "answer")
  /\ \E s \in {"pending", "ended"} : jobs' = [jobs EXCEPT ![slot[w].job] = s]
  /\ Leave(w)
  /\ UNCHANGED <<events, gone, tries, runs, marked, drafted, out, buf, faults>>

(* A valid answer: the stage is marked done with its checkpoint.  *)
Accept(w) ==
  LET j == slot[w].job IN
  /\ At(w, "answer")
  /\ IF Compose(j)
     THEN Goto(w, "text") /\ UNCHANGED <<marked, out>>
     ELSE /\ marked' = [marked EXCEPT ![j] = @ + 1]
          /\ Goto(w, "stage")
          /\ Say(w, <<Event(j, "agent.stage", StageOf(j), "done"),
                      Event(j, "checkpoint.saved", StageOf(j), "")>>)
  /\ UNCHANGED <<events, gone, jobs, tries, runs, drafted, buf, faults>>

(* Mutant: the chapter is announced with its text, before it is saved. *)
Publish_ready(w) ==
  LET j == slot[w].job IN
  /\ At(w, "text") \/ (At(w, "stage") /\ marked[j] = Len(Plan[j]))
  /\ Goto(w, "finalize")
  /\ Say(w, <<Event(j, "llm.text", "", ""), Event(j, "chapter.ready", "", "")>>)
  /\ UNCHANGED <<events, gone, jobVars, buf, faults>>

(* The text of the chapter is shown before it is saved. *)
Publish(w) ==
  LET j == slot[w].job IN
  /\ At(w, "text") \/ (At(w, "stage") /\ marked[j] = Len(Plan[j]))
  /\ Goto(w, "finalize")
  /\ Say(w, <<Event(j, "llm.text", "", "")>>)
  /\ UNCHANGED <<events, gone, jobVars, buf, faults>>

(* The draft is saved and the job has succeeded; a staged run is marked next. *)
Finalize(w) ==
  LET j == slot[w].job IN
  /\ At(w, "finalize")
  /\ drafted' = drafted \cup {j}
  /\ jobs' = [jobs EXCEPT ![j] = "ended"]
  /\ IF Compose(j)
     THEN Leave(w) /\ Say(w, <<Event(j, "chapter.ready", "", "")>>)
     ELSE Goto(w, "succeed") /\ UNCHANGED out
  /\ UNCHANGED <<events, gone, tries, runs, marked, buf, faults>>

(* The export at its end fails: the draft stays, the job is tried again. *)
FinalizeFails(w) ==
  LET j == slot[w].job IN
  /\ At(w, "finalize")
  /\ drafted' = drafted \cup {j}
  /\ \E s \in {"pending", "ended"} : jobs' = [jobs EXCEPT ![j] = s]
  /\ Leave(w)
  /\ UNCHANGED <<events, gone, tries, runs, marked, out, buf, faults>>

Succeed(w) ==
  LET j == slot[w].job IN
  /\ At(w, "succeed")
  /\ runs' = [runs EXCEPT ![j] = "SUCCEEDED"]
  /\ Leave(w)
  /\ Say(w, <<Event(j, "agent.run", "", "SUCCEEDED"), Event(j, "chapter.ready", "", "")>>)
  /\ UNCHANGED <<events, gone, jobs, tries, marked, drafted, buf, faults>>

(* The worker is killed and started again: its slots are gone, with what     *)
(* they had to emit; their jobs are claimed again when their leases lapse.   *)
Restart ==
  /\ faults < MaxFaults /\ faults' = faults + 1
  /\ jobs' = [j \in Job |-> IF jobs[j] = "running" THEN "pending" ELSE jobs[j]]
  /\ slot' = [w \in Slot |-> Idle]
  /\ out' = [w \in Slot |-> <<>>] /\ buf' = [w \in Slot |-> <<>>]
  /\ Prune
  /\ UNCHANGED <<events, tries, runs, marked, drafted>>

SlotStep(w) ==
  \/ Emit(w) \/ (\E j \in Job : Start(w, j)) \/ Cancel(w) \/ Prepare(w) \/ StartStage(w)
  \/ Call(w) \/ Receive(w) \/ EndOfAnswer(w) \/ Repair(w) \/ Fail(w) \/ Accept(w)
  \/ Publish(w) \/ Finalize(w) \/ FinalizeFails(w) \/ Succeed(w)

BusNext == Restart \/ \E w \in Slot : SlotStep(w)

BusSpec == BusInit /\ [][BusNext]_busVars

-----------------------------------------------------------------------------
BusTypeOK ==
  /\ \A i \in DOMAIN events : events[i].job \in Job /\ events[i].novel = NovelOf[events[i].job]
  /\ gone \subseteq DOMAIN events
  /\ jobs \in [Job -> {"pending", "running", "ended"}] /\ tries \in [Job -> Nat]
  /\ runs \in [Job -> {"none", "RUNNING", "SUCCEEDED"}] /\ drafted \subseteq Job
  /\ \A j \in Job : marked[j] \in 0..Len(Plan[j])
  /\ \A w \in Slot : slot[w].pc # "idle" => slot[w].job \in Job
  /\ faults \in 0..MaxFaults

(* What an event says has happened.                                         *)
Holds(e) ==
  /\ e.type = "chapter.ready" => e.job \in drafted
  /\ e.type = "checkpoint.saved" =>
       \E k \in 1..marked[e.job] : Plan[e.job][k] = e.stage
  /\ e.type = "agent.run" /\ e.note = "SUCCEEDED" => runs[e.job] = "SUCCEEDED"

(* A page that reads the database on an event finds what it announces: no    *)
(* event is written before the write it is about is committed, whatever      *)
(* crashes come between, and none is made false by a later try.              *)
AnnouncedIsSaved == \A i \in DOMAIN events : Holds(events[i])

(* The text of the deltas.  Every delta carries pieces of one call of its    *)
(* own job and stage only, in order and once each over all deltas, whatever  *)
(* failed before: nothing is left over in the buffer from a broken call, a   *)
(* repair or another job.                                                    *)
Deltas == {i \in DOMAIN events : events[i].type = "llm.delta"}
After(p, q) == q.call > p.call \/ (q.call = p.call /\ q.at > p.at)

DeltasInOrder ==
  \A i \in Deltas :
    LET e == events[i] IN
    /\ \A k \in DOMAIN e.pieces :
         LET p == e.pieces[k] IN
         /\ p.job = e.job /\ p.try = e.try /\ p.stage = e.stage
         /\ k > 1 => p = [e.pieces[k - 1] EXCEPT !.at = @ + 1]
    /\ \A h \in Deltas :
         h < i /\ events[h].job = e.job /\ events[h].try = e.try =>
           After(events[h].pieces[Len(events[h].pieces)], e.pieces[1])

(* When no event was lost, the deltas of a call that has ended well hold all *)
(* of its answer.                                                            *)
PiecesOut(w) ==
  {p \in UNION {{events[i].pieces[k] : k \in DOMAIN events[i].pieces} : i \in Deltas} :
     /\ p.job = slot[w].job /\ p.try = tries[slot[w].job] /\ p.call = slot[w].call}

AnswersArePublished ==
  \A w \in Slot :
    faults = 0 /\ At(w, "answer") => Cardinality(PiecesOut(w)) = slot[w].got

=============================================================================
