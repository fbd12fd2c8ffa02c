------------------------------- MODULE NovelRuns ------------------------------
(***************************************************************************)
(* The checkpoints of the agent stages, for any number of chapters,         *)
(* requests, kills and lapses.                                              *)
(*                                                                         *)
(* First with one slot (the default NOVEL_WORKER_CONCURRENCY is 1).  With   *)
(* two slots on one job these theorems are false: latest_memory and         *)
(* stage_states are two statements, and a stage that the other slot         *)
(* finishes between them is DONE without being in the memory.  That the     *)
(* inputs of a stage are at hand is not inductive.  The strengthening says  *)
(* that the saved stages of a run are the first ones of its plan, that      *)
(* their outputs are never replaced, and that a slot in the pipeline works  *)
(* on a run of its own plan and has the saved output of every stage before  *)
(* the one it is at.                                                        *)
(*                                                                         *)
(* Then, with any number of slots, the drafts: a run that has SUCCEEDED has *)
(* its result among the drafts of the chapter.                              *)
(***************************************************************************)
EXTENDS NovelTypes

-----------------------------------------------------------------------------
(* The invariant *)

(* The saved stages are the first ones of the plan, DONE stages are saved,  *)
(* and a saved stage has an output.                                         *)
Good(run) ==
  /\ \E j \in 0 .. Len(run.stages) : run.saved = {run.stages[i] : i \in 1 .. j}
  /\ \A s \in StageName : run.state[s] = "DONE" => s \in run.saved
  /\ \A s \in run.saved : run.memory[s] # NoBody

RunsGood == \A k \in DOMAIN runs : Good(runs[k])

(* A slot whose memory is in use. *)
After == {"save", "export", "write", "mark"}

Holding(slot) ==
  \/ slot.pc \in {"stage", "model", "drafted"}
  \/ slot.pc \in After /\ slot.plan # <<>>

Matches(slot, run) ==
  /\ run.stages = slot.plan
  /\ \A i \in 1 .. slot.at - 1 :
       /\ slot.plan[i] \in run.saved
       /\ slot.memory[slot.plan[i]] = run.memory[slot.plan[i]]

SlotsMatch ==
  \A w \in Worker : Holding(worker[w]) => Existent(w) /\ Matches(worker[w], runs[KeyOf(w)])

(* One call writes the chapter of an empty plan; a result is there when all *)
(* stages are.                                                              *)
Routed(slot) ==
  /\ slot.pc \in {"compose", "call"} => slot.plan = <<>>
  /\ slot.pc \in {"drafted"} \cup After /\ slot.plan # <<>> => slot.at = Len(slot.plan) + 1

SlotsRouted == \A w \in Worker : Routed(worker[w])

(* A slot that resumes a run holds the memory of its latest checkpoint:     *)
(* nobody saves another between its reads.                                  *)
OneSlot == \A v, w \in Worker : v = w

SlotsRead ==
  \A w \in Worker :
    /\ worker[w].pc \in Reading => runs[KeyOf(w)].stages = worker[w].plan
    /\ worker[w].pc = "resume" => worker[w].memory = runs[KeyOf(w)].memory

RunInv == RunsGood /\ SlotsMatch /\ SlotsRouted /\ SlotsRead

-----------------------------------------------------------------------------
(* Changes of a run *)

Extends(run, new) ==
  /\ new.stages = run.stages
  /\ run.saved \subseteq new.saved
  /\ \A s \in run.saved : new.memory[s] = run.memory[s]

RunsGrow == \A k \in DOMAIN runs : k \in DOMAIN runs' /\ Extends(runs[k], runs'[k])

LEMMA SameRunsGrow ==
  ASSUME UNCHANGED runs
  PROVE  RunsGrow /\ (RunsGood => RunsGood')
BY DEF RunsGrow, Extends, RunsGood

LEMMA UpdateGrows ==
  ASSUME RunsGood, NEW k \in DOMAIN runs, NEW row, Good(row), Extends(runs[k], row),
         UpdateRun(k, row)
  PROVE  RunsGrow /\ RunsGood' /\ DOMAIN runs' = DOMAIN runs /\ runs'[k] = row
BY DEF RunsGood, RunsGrow, UpdateRun, Extends

LEMMA StartedGood ==
  ASSUME NEW run \in Run, NEW s \in StageName, Good(run)
  PROVE  Good(Started(run, s)) /\ Extends(run, Started(run, s))
<1>. DEFINE new == Started(run, s)
<1>1. /\ new.stages = run.stages /\ new.saved = run.saved /\ new.memory = run.memory
      /\ \A t \in StageName : new.state[t] = "DONE" => run.state[t] = "DONE"
  BY DEF Started, Run
<1>. HIDE DEF new
<1>2. Good(new) /\ Extends(run, new)
  BY <1>1 DEF Good, Extends
<1>. QED
  BY <1>2 DEF new

LEMMA StatusGood ==
  ASSUME NEW run \in Run, Good(run), NEW status
  PROVE  LET new == [run EXCEPT !.status = status] IN Good(new) /\ Extends(run, new)
<1>. DEFINE new == [run EXCEPT !.status = status]
<1>1. /\ new.stages = run.stages /\ new.saved = run.saved /\ new.memory = run.memory
      /\ new.state = run.state
  BY DEF Run
<1>. HIDE DEF new
<1>2. Good(new) /\ Extends(run, new)
  BY <1>1 DEF Good, Extends
<1>. QED
  BY <1>2 DEF new

(* A slot that has the outputs of all the stages before i saves stage i.    *)
LEMMA SavedGood ==
  ASSUME NEW run \in Run, Good(run), run.stages \in Seq(StageName),
         NEW i \in DOMAIN run.stages, run.stages[i] \notin run.saved,
         NEW memory \in Memory, memory[run.stages[i]] # NoBody,
         \A j \in 1 .. i - 1 : /\ run.stages[j] \in run.saved
                               /\ memory[run.stages[j]] = run.memory[run.stages[j]]
  PROVE  LET new == Saved(run, run.stages[i], memory) IN
         /\ Good(new) /\ Extends(run, new)
         /\ run.stages[i] \in new.saved /\ new.memory = memory
<1>. DEFINE s   == run.stages[i]
           new == Saved(run, s, memory)
<1>1. Len(run.stages) \in Nat /\ i \in 1 .. Len(run.stages) /\ s \in StageName
  OBVIOUS
<1>2. PICK m \in 0 .. Len(run.stages) : run.saved = {run.stages[j] : j \in 1 .. m}
  BY DEF Good
<1>3. m < i
  BY <1>1, <1>2
<1>4. \A t \in run.saved : \E j \in 1 .. i - 1 : t = run.stages[j]
  BY <1>1, <1>2, <1>3
<1>5. run.saved \cup {s} = {run.stages[j] : j \in 1 .. i}
  <2>1. \A t \in run.saved \cup {s} : \E j \in 1 .. i : t = run.stages[j]
    BY <1>1, <1>4
  <2>2. \A j \in 1 .. i : run.stages[j] \in run.saved \cup {s}
    <3>1. \A j \in 1 .. i : j = i \/ j \in 1 .. i - 1
      BY <1>1
    <3>. QED
      BY <3>1
  <2>. QED
    BY <2>1, <2>2
<1>6. /\ new.stages = run.stages /\ new.saved = run.saved \cup {s} /\ new.memory = memory
      /\ \A t \in StageName : new.state[t] = "DONE" => t = s \/ run.state[t] = "DONE"
  BY DEF Saved, Run
<1>. HIDE DEF new
<1>7. \A t \in run.saved : memory[t] = run.memory[t]
  BY <1>4
<1>8. \A t \in run.saved \cup {s} : memory[t] # NoBody
  BY <1>7 DEF Good
<1>9. Good(new)
  <2>1. \E j \in 0 .. Len(new.stages) : new.saved = {new.stages[l] : l \in 1 .. j}
    <3>. HIDE DEF s
    <3>1. i \in 0 .. Len(new.stages)
      BY <1>1, <1>6
    <3>. QED
      BY <1>5, <1>6, <3>1
  <2>. QED
    BY <1>6, <1>8, <2>1 DEF Good
<1>10. Extends(run, new)
  BY <1>6, <1>7 DEF Extends
<1>. QED
  BY <1>6, <1>9, <1>10 DEF new

-----------------------------------------------------------------------------
(* Changes of a slot *)

(* slot holds nothing that old did not hold. *)
Inherits(slot, old) ==
  Holding(slot) =>
    /\ Holding(old)
    /\ slot.n = old.n /\ slot.id = old.id /\ slot.plan = old.plan
    /\ slot.at = old.at /\ slot.memory = old.memory

LEMMA MatchKept ==
  ASSUME RunsGrow, SlotsMatch, NEW w \in Worker, Inherits(worker'[w], worker[w])
  PROVE  (Holding(worker[w]) => Existent(w) /\ Matches(worker[w], runs[KeyOf(w)]))'
<1>. SUFFICES ASSUME Holding(worker'[w])
             PROVE  /\ KeyOf(w)' \in DOMAIN runs'
                    /\ Matches(worker'[w], runs'[KeyOf(w)'])
  BY DEF Existent, Holding
<1>1. /\ KeyOf(w)' = KeyOf(w) /\ worker'[w].plan = worker[w].plan
      /\ worker'[w].at = worker[w].at /\ worker'[w].memory = worker[w].memory
  BY DEF Inherits, KeyOf
<1>2. KeyOf(w) \in DOMAIN runs /\ Matches(worker[w], runs[KeyOf(w)])
  BY DEF Inherits, SlotsMatch, Existent
<1>3. KeyOf(w) \in DOMAIN runs' /\ Extends(runs[KeyOf(w)], runs'[KeyOf(w)])
  BY <1>2 DEF RunsGrow
<1>. QED
  BY <1>1, <1>2, <1>3 DEF Matches, Extends

(* One slot changes. *)
LEMMA OneChanges ==
  ASSUME SlotsOK, RunsGrow, SlotsMatch, SlotsRouted, NEW w \in Worker, NEW slot,
         worker' = [worker EXCEPT ![w] = slot], Inherits(slot, worker[w]), Routed(slot)
  PROVE  SlotsMatch' /\ SlotsRouted'
<1>1. worker'[w] = slot /\ \A v \in Worker \ {w} : worker'[v] = worker[v]
  BY DEF SlotsOK, WorkerTypeOK
<1>2. \A v \in Worker : Inherits(worker'[v], worker[v]) /\ Routed(worker'[v])
  BY <1>1 DEF Inherits, SlotsRouted
<1>3. SlotsMatch'
  BY <1>2, MatchKept DEF SlotsMatch
<1>. QED
  BY <1>2, <1>3 DEF SlotsRouted, Routed

LEMMA FreeHoldsNothing ==
  ASSUME NEW pc \in {"ready", "done", "context"}
  PROVE  ~Holding(Free(pc)) /\ Routed(Free(pc))
BY DEF Free, Holding, Routed, After

LEMMA ReadAttemptsHolds ==
  ASSUME SlotsOK, RunsGrow, SlotsMatch, SlotsRouted, NEW w \in Worker, NEW limit, NEW by,
         ReadAttempts(w, limit, by)
  PROVE  SlotsMatch' /\ SlotsRouted'
<1>1. PICK retry :
        worker' = [worker EXCEPT ![w] = [@ EXCEPT !.pc = "fail", !.retry = retry, !.by = by]]
  BY DEF ReadAttempts
<1>. DEFINE slot == [worker[w] EXCEPT !.pc = "fail", !.retry = retry, !.by = by]
<1>2. worker[w] \in Slot
  BY DEF SlotsOK, WorkerTypeOK
<1>3. slot.pc = "fail"
  BY <1>2 DEF Slot
<1>4. worker' = [worker EXCEPT ![w] = slot]
  BY <1>1
<1>. HIDE DEF slot
<1>5. Inherits(slot, worker[w]) /\ Routed(slot)
  BY <1>3 DEF Inherits, Holding, Routed, After
<1>. QED
  BY <1>4, <1>5, OneChanges

LEMMA FinishHolds ==
  ASSUME SlotsOK, RunsGrow, SlotsMatch, SlotsRouted, NEW w \in Worker, Finish(w)
  PROVE  SlotsMatch' /\ SlotsRouted'
BY FreeHoldsNothing, OneChanges DEF Finish, Inherits

(* A slot goes on with what it held, or to a place where it holds nothing.  *)
LEMMA GotoHolds ==
  ASSUME SlotsOK, RunsGrow, SlotsMatch, SlotsRouted, NEW w \in Worker, NEW pc, Goto(w, pc),
         \/ pc \in {"plan", "void", "voidjob", "agent", "load", "create", "abort"}
         \/ pc \in {"compose", "call"} /\ worker[w].plan = <<>>
         \/ pc = "model" /\ Holding(worker[w])
         \/ pc \in After /\ (worker[w].plan # <<>> => worker[w].pc \in {"drafted"} \cup After)
  PROVE  SlotsMatch' /\ SlotsRouted'
<1>. DEFINE slot == [worker[w] EXCEPT !.pc = pc]
<1>1. worker[w] \in Slot /\ Routed(worker[w])
  BY DEF SlotsOK, WorkerTypeOK, SlotsRouted
<1>2. slot.pc = pc /\ slot.n = worker[w].n /\ slot.id = worker[w].id
      /\ slot.plan = worker[w].plan /\ slot.at = worker[w].at /\ slot.memory = worker[w].memory
  BY <1>1 DEF Slot
<1>3. worker' = [worker EXCEPT ![w] = slot]
  BY DEF Goto
<1>. HIDE DEF slot
<1>4. Inherits(slot, worker[w]) /\ Routed(slot)
  BY <1>1, <1>2 DEF Inherits, Holding, Routed, After
<1>. QED
  BY <1>3, <1>4, OneChanges

LEMMA FinalizeHolds ==
  ASSUME SlotsOK, RunsGrow, SlotsMatch, SlotsRouted, NEW w \in Worker, NEW text,
         Finalize(w, text), worker[w].plan = <<>> \/ worker[w].pc = "drafted"
  PROVE  SlotsMatch' /\ SlotsRouted'
<1>. DEFINE slot == [worker[w] EXCEPT !.pc = "save", !.text = text]
<1>1. worker[w] \in Slot /\ Routed(worker[w])
  BY DEF SlotsOK, WorkerTypeOK, SlotsRouted
<1>2. slot.pc = "save" /\ slot.n = worker[w].n /\ slot.id = worker[w].id
      /\ slot.plan = worker[w].plan /\ slot.at = worker[w].at /\ slot.memory = worker[w].memory
  BY <1>1 DEF Slot
<1>3. worker' = [worker EXCEPT ![w] = slot]
  BY DEF Finalize
<1>. HIDE DEF slot
<1>4. Inherits(slot, worker[w]) /\ Routed(slot)
  BY <1>1, <1>2 DEF Inherits, Holding, Routed, After
<1>. QED
  BY <1>3, <1>4, OneChanges

LEMMA FinalizedHolds ==
  ASSUME SlotsOK, RunsGrow, SlotsMatch, SlotsRouted, NEW w \in Worker, Finalized(w),
         worker[w].pc \in After
  PROVE  SlotsMatch' /\ SlotsRouted'
<1>1. "mark" \in After
  BY DEF After
<1>. QED
  BY <1>1, FinishHolds, GotoHolds DEF Finalized

-----------------------------------------------------------------------------
(* Steps of the worker *)

LEMMA WorkerHolds ==
  ASSUME StoreTypeOK, SlotsOK, RunInv, WorkerNext, UNCHANGED runs
  PROVE  RunInv'
<1>1. RunsGrow /\ RunsGood' /\ SlotsMatch /\ SlotsRouted
  BY SameRunsGrow DEF RunInv
<1>13. SlotsRead'
  <2>. SUFFICES ASSUME NEW v \in Worker, worker'[v].pc \in Reading
               PROVE  /\ runs'[KeyOf(v)'].stages = worker'[v].plan
                      /\ worker'[v].pc = "resume" =>
                           worker'[v].memory = runs'[KeyOf(v)'].memory
    BY DEF SlotsRead, Reading
  <2>1. worker'[v] = worker[v]
    BY WorkerLeaves DEF Inner
  <2>. QED
    BY <2>1 DEF RunInv, SlotsRead, KeyOf
<1>. SUFFICES SlotsMatch' /\ SlotsRouted'
  BY <1>1, <1>13 DEF RunInv
<1>2. CASE UNCHANGED worker
  BY <1>1, <1>2, MatchKept DEF SlotsMatch, SlotsRouted, Routed, Inherits
<1>3. ASSUME NEW w \in Worker, Claim(w)
      PROVE  SlotsMatch' /\ SlotsRouted'
  <2>1. CASE \E n \in Chapter :
               worker' = [worker EXCEPT ![w] =
                            [Free("context") EXCEPT !.n = n, !.id = job[n].id,
                                                    !.plan = job[n].plan]]
    <3>1. PICK n \in Chapter :
            worker' = [worker EXCEPT ![w] =
                         [Free("context") EXCEPT !.n = n, !.id = job[n].id,
                                                 !.plan = job[n].plan]]
      BY <2>1
    <3>. DEFINE slot == [Free("context") EXCEPT !.n = n, !.id = job[n].id,
                                               !.plan = job[n].plan]
    <3>2. slot.pc = "context"
      BY DEF Free
    <3>3. worker' = [worker EXCEPT ![w] = slot]
      BY <3>1
    <3>. HIDE DEF slot
    <3>4. Inherits(slot, worker[w]) /\ Routed(slot)
      BY <3>2 DEF Inherits, Holding, Routed, After
    <3>. QED
      BY <1>1, <3>3, <3>4, OneChanges
  <2>. QED
    BY <1>1, <1>3, <2>1, FinishHolds DEF Claim
<1>4. ASSUME NEW w \in Worker, ReadContext(w)
      PROVE  SlotsMatch' /\ SlotsRouted'
  <2>. DEFINE slot == [worker[w] EXCEPT !.pc = "plan", !.paused = novel.paused]
  <2>1. slot.pc = "plan"
    BY DEF SlotsOK, WorkerTypeOK, Slot
  <2>2. worker' = [worker EXCEPT ![w] = slot]
    BY <1>4 DEF ReadContext
  <2>. HIDE DEF slot
  <2>3. Inherits(slot, worker[w]) /\ Routed(slot)
    BY <2>1 DEF Inherits, Holding, Routed, After
  <2>. QED
    BY <1>1, <2>2, <2>3, OneChanges
<1>5. ASSUME NEW w \in Worker, StartPlanning(w) \/ VoidChapter(w) \/ StartGenerating(w)
      PROVE  SlotsMatch' /\ SlotsRouted'
  <2>1. worker[w].pc = "compose" => worker[w].plan = <<>>
    BY <1>1 DEF SlotsRouted, Routed
  <2>2. \E pc : /\ Goto(w, pc)
                /\ \/ pc \in {"void", "voidjob", "agent"}
                   \/ pc \in {"compose", "call"} /\ worker[w].plan = <<>>
    BY <1>5, <2>1 DEF StartPlanning, VoidChapter, StartGenerating, At
  <2>. QED
    BY <1>1, <2>2, GotoHolds
<1>6. ASSUME NEW w \in Worker, StartReviewing(w)
      PROVE  SlotsMatch' /\ SlotsRouted'
  <2>1. worker[w].plan = <<>>
    BY <1>1, <1>6 DEF StartReviewing, At, SlotsRouted, Routed
  <2>. QED
    BY <1>1, <1>6, <2>1, FinalizeHolds DEF StartReviewing
<1>7. ASSUME NEW w \in Worker, Save(w)
      PROVE  SlotsMatch' /\ SlotsRouted'
  <2>1. worker[w].pc \in After /\ "export" \in After
    BY <1>7 DEF Save, At, After
  <2>2. Goto(w, "export") \/ Finalized(w)
    BY <1>7 DEF Save
  <2>. QED
    BY <1>1, <2>1, <2>2, GotoHolds, FinalizedHolds
<1>8. ASSUME NEW w \in Worker, AutoRead(w)
      PROVE  SlotsMatch' /\ SlotsRouted'
  <2>. DEFINE slot == [worker[w] EXCEPT !.pc = "write", !.text = chapter[worker[w].n].body]
  <2>1. worker[w] \in Slot /\ Routed(worker[w]) /\ worker[w].pc = "export"
    BY <1>1, <1>8 DEF SlotsOK, WorkerTypeOK, SlotsRouted, AutoRead, At
  <2>2. slot.pc = "write" /\ slot.n = worker[w].n /\ slot.id = worker[w].id
        /\ slot.plan = worker[w].plan /\ slot.at = worker[w].at /\ slot.memory = worker[w].memory
    BY <2>1 DEF Slot
  <2>3. worker' = [worker EXCEPT ![w] = slot] \/ ReadAttempts(w, MaxAttempts, "loop")
    BY <1>8 DEF AutoRead
  <2>. HIDE DEF slot
  <2>4. Inherits(slot, worker[w]) /\ Routed(slot)
    BY <2>1, <2>2 DEF Inherits, Holding, Routed, After
  <2>. QED
    BY <1>1, <2>3, <2>4, OneChanges, ReadAttemptsHolds
<1>9. ASSUME NEW w \in Worker, AutoWrite(w)
      PROVE  SlotsMatch' /\ SlotsRouted'
  BY <1>1, <1>9, FinalizedHolds DEF AutoWrite, At, After
<1>10. ASSUME NEW w \in Worker, VoidTheJob(w) \/ CallFails(w) \/ WriteFailure(w) \/ Raise(w)
       PROVE  SlotsMatch' /\ SlotsRouted'
  <2>1. \/ Finish(w) \/ Goto(w, "abort")
        \/ \E limit, by : ReadAttempts(w, limit, by)
    BY <1>10 DEF VoidTheJob, CallFails, WriteFailure, Raise
  <2>. QED
    BY <1>1, <2>1, FinishHolds, GotoHolds, ReadAttemptsHolds
<1>11. ASSUME NEW p \in Process, Kill(p) \/ NextPass(p)
       PROVE  SlotsMatch' /\ SlotsRouted'
  <2>1. \A w \in Worker : worker'[w] = Free("ready") \/ worker'[w] = worker[w]
    BY <1>11 DEF Kill, NextPass
  <2>2. \A w \in Worker : Inherits(worker'[w], worker[w]) /\ Routed(worker'[w])
    BY <1>1, <2>1, FreeHoldsNothing DEF Inherits, SlotsRouted
  <2>3. SlotsMatch'
    BY <1>1, <2>2, MatchKept DEF SlotsMatch
  <2>. QED
    BY <2>2, <2>3 DEF SlotsRouted, Routed
<1>12. ASSUME NEW n \in Chapter, BackoffElapses(n) \/ LeaseLapses(n) \/ Overrun(n)
       PROVE  UNCHANGED worker
  BY <1>12 DEF BackoffElapses, LeaseLapses, Overrun, Lapse, workerVars
<1>. QED
  BY <1>2, <1>3, <1>4, <1>5, <1>6, <1>7, <1>8, <1>9, <1>10, <1>11, <1>12 DEF WorkerNext, Work

-----------------------------------------------------------------------------
(* Steps of the pipeline *)

LEMMA GoOnHolds ==
  ASSUME SlotsOK, RunsGrow, SlotsMatch, SlotsRouted, NEW w \in Worker,
         worker[w].plan \in Seq(StageName), NEW i \in 1 .. Len(worker[w].plan) + 1, NEW memory,
         GoOn(w, i, memory), KeyOf(w) \in DOMAIN runs',
         Matches([worker[w] EXCEPT !.at = i, !.memory = memory], runs'[KeyOf(w)])
  PROVE  SlotsMatch' /\ SlotsRouted'
<1>. DEFINE pc   == IF i > Len(worker[w].plan) THEN "drafted" ELSE "stage"
           slot == [worker[w] EXCEPT !.pc = pc, !.at = i, !.memory = memory]
           held == [worker[w] EXCEPT !.at = i, !.memory = memory]
<1>1. worker[w] \in Slot /\ Len(worker[w].plan) \in Nat
  BY DEF SlotsOK, WorkerTypeOK
<1>2. /\ slot.n = worker[w].n /\ slot.id = worker[w].id
      /\ slot.plan = held.plan /\ slot.at = held.at /\ slot.memory = held.memory
      /\ slot.plan = worker[w].plan /\ slot.at = i /\ slot.pc = pc
  BY <1>1 DEF Slot
<1>3. pc \in {"drafted", "stage"} /\ (pc = "drafted" => i = Len(worker[w].plan) + 1)
  BY <1>1
<1>4. worker' = [worker EXCEPT ![w] = slot]
  BY DEF GoOn, Stages
<1>. HIDE DEF pc, slot, held
<1>5. worker'[w] = slot /\ \A v \in Worker \ {w} : worker'[v] = worker[v]
  BY <1>4 DEF SlotsOK, WorkerTypeOK
<1>6. KeyOf(w)' = KeyOf(w)
  BY <1>2, <1>5 DEF KeyOf
<1>7. Matches(slot, runs'[KeyOf(w)])
  BY <1>2 DEF Matches, held
<1>8. (Holding(worker[w]) => Existent(w) /\ Matches(worker[w], runs[KeyOf(w)]))'
  BY <1>5, <1>6, <1>7 DEF Existent, Matches
<1>9. \A v \in Worker \ {w} : Inherits(worker'[v], worker[v]) /\ Routed(worker'[v])
  BY <1>5 DEF Inherits, SlotsRouted
<1>10. SlotsMatch'
  BY <1>8, <1>9, MatchKept DEF SlotsMatch
<1>11. Routed(slot)
  BY <1>2, <1>3 DEF Routed, After
<1>. QED
  BY <1>5, <1>9, <1>10, <1>11 DEF SlotsRouted, Routed

LEMMA PipelineHolds ==
  ASSUME SlotsOK, RunsTypeOK, ReadersHaveRun, RunInv, NEW w \in Worker, Pipeline(w)
  PROVE  RunsGrow /\ RunsGood' /\ SlotsMatch' /\ SlotsRouted'
<1>. DEFINE plan == worker[w].plan
           run  == runs[KeyOf(w)]
<1>1. RunsGood /\ SlotsMatch /\ SlotsRouted /\ SlotsRead
  BY DEF RunInv
<1>3. worker[w] \in Slot /\ plan \in Plans /\ plan \in Seq(StageName) /\ Len(plan) \in Nat
  BY PlanAssumption DEF SlotsOK, WorkerTypeOK, Slot
<1>4. KeyOf(w) \in DOMAIN runs => run \in Run /\ Good(run)
  BY <1>1 DEF RunsGood, RunsTypeOK
<1>5. ASSUME UNCHANGED runs
      PROVE  RunsGrow /\ RunsGood'
  BY <1>1, <1>5, SameRunsGrow
<1>6. Holding(worker[w]) => KeyOf(w) \in DOMAIN runs /\ Matches(worker[w], run)
  BY <1>1 DEF SlotsMatch, Existent
<1>7. worker[w].pc \in InStage => worker[w].at \in DOMAIN plan /\ Holding(worker[w])
  BY DEF SlotsOK, BusyHasChapter, Placed, InStage, Holding
<1>. HIDE DEF plan, run
<1>8. CASE FindRun(w)
  <2>1. RunsGrow /\ RunsGood' /\ UNCHANGED runs
    BY <1>5, <1>8 DEF FindRun
  <2>. QED
    BY <1>1, <1>8, <2>1, FinishHolds, GotoHolds DEF FindRun
<1>15. CASE LoadMemory(w)
  <2>. DEFINE slot == [worker[w] EXCEPT !.pc = "resume", !.memory = Loaded(run)]
  <2>1. RunsGrow /\ RunsGood'
    BY <1>5, <1>15 DEF LoadMemory
  <2>2. slot.pc = "resume"
    BY <1>3 DEF Slot
  <2>3. worker' = [worker EXCEPT ![w] = slot]
    BY <1>15 DEF LoadMemory, run
  <2>. HIDE DEF slot
  <2>4. Inherits(slot, worker[w]) /\ Routed(slot)
    BY <2>2 DEF Inherits, Holding, Routed, After
  <2>. QED
    BY <1>1, <2>1, <2>3, <2>4, OneChanges
<1>16. CASE Resume(w)
  <2>. DEFINE i == ResumeFrom(run, plan)
             memory == worker[w].memory
  <2>1. RunsGrow /\ RunsGood' /\ UNCHANGED runs
    BY <1>5, <1>16 DEF Resume
  <2>2. worker[w].pc = "resume" /\ GoOn(w, i, memory)
    BY <1>16 DEF Resume, At, Stages, plan, run
  <2>3. i \in 1 .. Len(plan) + 1 /\ \A j \in 1 .. i - 1 : run.state[plan[j]] = "DONE"
    BY <1>3, ResumeFromFirst
  <2>4. KeyOf(w) \in DOMAIN runs /\ run.stages = plan /\ Good(run) /\ memory = run.memory
    BY <1>1, <1>4, <2>2 DEF ReadersHaveRun, SlotsRead, Reading, Existent, plan, run
  <2>. HIDE DEF i
  <2>5. \A j \in 1 .. i - 1 : plan[j] \in run.saved
    BY <1>3, <2>3, <2>4 DEF Good
  <2>6. /\ [worker[w] EXCEPT !.at = i, !.memory = memory].plan = plan
        /\ [worker[w] EXCEPT !.at = i, !.memory = memory].at = i
        /\ [worker[w] EXCEPT !.at = i, !.memory = memory].memory = run.memory
    BY <1>3, <2>4 DEF Slot, plan
  <2>7. Matches([worker[w] EXCEPT !.at = i, !.memory = memory], run)
    BY <2>4, <2>5, <2>6 DEF Matches
  <2>8. runs'[KeyOf(w)] = run /\ KeyOf(w) \in DOMAIN runs'
    BY <2>1, <2>4 DEF run
  <2>. QED
    BY <1>1, <1>3, <2>1, <2>2, <2>3, <2>7, <2>8, GoOnHolds DEF plan
<1>9. CASE CreateRun(w)
  <2>1. CASE Crash(w) /\ UNCHANGED runs
    BY <1>1, <1>5, <2>1, ReadAttemptsHolds DEF Crash
  <2>2. CASE ~Existent(w) /\ InsertRun(KeyOf(w), plan) /\ GoOn(w, 1, NoMemory)
    <3>. DEFINE row == [status |-> "PENDING", stages |-> plan,
                       state |-> [s \in StageName |-> "NONE"], saved |-> {},
                       memory |-> NoMemory]
    <3>1. KeyOf(w) \notin DOMAIN runs
      BY <2>2 DEF Existent
    <3>2. runs' = [j \in DOMAIN runs \cup {KeyOf(w)} |-> IF j = KeyOf(w) THEN row ELSE runs[j]]
      BY <2>2 DEF InsertRun
    <3>3. Good(row)
      <4>1. row.saved = {row.stages[i] : i \in 1 .. 0} /\ 0 \in 0 .. Len(row.stages)
        BY <1>3
      <4>2. \A s \in StageName : row.state[s] # "DONE"
        OBVIOUS
      <4>. QED
        BY <4>1, <4>2 DEF Good
    <3>4. row.stages = plan
      OBVIOUS
    <3>. HIDE DEF row
    <3>5. RunsGrow /\ RunsGood'
      BY <1>1, <3>1, <3>2, <3>3 DEF RunsGrow, Extends, RunsGood
    <3>6. KeyOf(w) \in DOMAIN runs' /\ runs'[KeyOf(w)] = row
      BY <3>2
    <3>7. [worker[w] EXCEPT !.at = 1, !.memory = NoMemory].plan = plan
          /\ [worker[w] EXCEPT !.at = 1, !.memory = NoMemory].at = 1
      BY <1>3 DEF Slot, plan
    <3>8. Matches([worker[w] EXCEPT !.at = 1, !.memory = NoMemory], row)
      BY <3>4, <3>7 DEF Matches
    <3>9. 1 \in 1 .. Len(plan) + 1
      BY <1>3
    <3>. QED
      BY <1>1, <1>3, <2>2, <3>5, <3>6, <3>8, <3>9, GoOnHolds DEF plan
  <2>. QED
    BY <1>9, <2>1, <2>2 DEF CreateRun, Stages, plan
<1>10. CASE StartStage(w)
  <2>1. worker[w].pc \in InStage /\ Goto(w, "model")
    BY <1>10 DEF StartStage, At, InStage
  <2>2. KeyOf(w) \in DOMAIN runs /\ Current(w) \in StageName /\ run \in Run /\ Good(run)
    BY <1>3, <1>4, <1>6, <1>7, <2>1 DEF Current, Stages, plan
  <2>3. UpdateRun(KeyOf(w), Started(run, Current(w)))
    BY <1>10 DEF StartStage, run
  <2>4. Good(Started(run, Current(w))) /\ Extends(run, Started(run, Current(w)))
    BY <2>2, StartedGood
  <2>5. RunsGrow /\ RunsGood'
    BY <1>1, <2>2, <2>3, <2>4, UpdateGrows DEF run
  <2>. QED
    BY <1>1, <1>7, <2>1, <2>5, GotoHolds
<1>11. CASE FinishStage(w)
  <2>1. worker[w].pc \in InStage
    BY <1>11 DEF FinishStage, At, InStage
  <2>2. CASE Crash(w) /\ UNCHANGED runs
    BY <1>1, <1>5, <2>2, ReadAttemptsHolds DEF Crash
  <2>3. CASE /\ Current(w) \notin run.saved
             /\ \E output \in Body :
                  LET memory == [worker[w].memory EXCEPT ![Current(w)] = output] IN
                  /\ UpdateRun(KeyOf(w), Saved(run, Current(w), memory))
                  /\ GoOn(w, worker[w].at + 1, memory)
    <3>1. PICK output \in Body :
            LET memory == [worker[w].memory EXCEPT ![Current(w)] = output] IN
            /\ UpdateRun(KeyOf(w), Saved(run, Current(w), memory))
            /\ GoOn(w, worker[w].at + 1, memory)
      BY <2>3
    <3>. DEFINE i      == worker[w].at
               memory == [worker[w].memory EXCEPT ![plan[i]] = output]
               new    == Saved(run, plan[i], memory)
    <3>2. /\ KeyOf(w) \in DOMAIN runs /\ run \in Run /\ Good(run)
          /\ i \in DOMAIN plan /\ plan[i] \in StageName
          /\ run.stages = plan
          /\ \A j \in 1 .. i - 1 : /\ plan[j] \in run.saved
                                   /\ worker[w].memory[plan[j]] = run.memory[plan[j]]
      BY <1>3, <1>4, <1>6, <1>7, <2>1 DEF Matches, plan
    <3>3. Current(w) = plan[i]
      BY DEF Current, Stages, plan
    <3>4. worker[w].memory \in [StageName -> Text]
      BY <1>3 DEF Slot, Memory
    <3>5. memory \in Memory /\ memory[plan[i]] = output
      BY <3>2, <3>4 DEF Memory, Text
    <3>6. plan[i] \notin run.saved
      BY <2>3, <3>3
    <3>7. \A j \in 1 .. i - 1 : memory[plan[j]] = run.memory[plan[j]]
      <4>1. \A j \in 1 .. i - 1 : plan[j] \in StageName
        BY <1>3, <3>2
      <4>. QED
        BY <3>2, <3>4, <3>6, <4>1
    <3>8. UpdateRun(KeyOf(w), new) /\ GoOn(w, i + 1, memory)
      BY <3>1, <3>3
    <3>9. output # NoBody
      BY BodyAssumption
    <3>. HIDE DEF memory, i
    <3>10. /\ Good(new) /\ Extends(run, new)
           /\ plan[i] \in new.saved /\ new.memory = memory
      BY <1>3, <3>2, <3>5, <3>6, <3>7, <3>9, SavedGood
    <3>. HIDE DEF new
    <3>11. RunsGrow /\ RunsGood' /\ DOMAIN runs' = DOMAIN runs /\ runs'[KeyOf(w)] = new
      BY <1>1, <3>2, <3>8, <3>10, UpdateGrows DEF run
    <3>12. [worker[w] EXCEPT !.at = i + 1, !.memory = memory].plan = plan
           /\ [worker[w] EXCEPT !.at = i + 1, !.memory = memory].at = i + 1
           /\ [worker[w] EXCEPT !.at = i + 1, !.memory = memory].memory = memory
      BY <1>3 DEF Slot, plan
    <3>13. \A j \in 1 .. (i + 1) - 1 : plan[j] \in new.saved
      <4>1. \A j \in 1 .. (i + 1) - 1 : j = i \/ j \in 1 .. i - 1
        BY <1>3, <3>2
      <4>. QED
        BY <3>2, <3>10, <4>1 DEF Extends
    <3>14. Matches([worker[w] EXCEPT !.at = i + 1, !.memory = memory], new)
      BY <3>2, <3>10, <3>12, <3>13 DEF Matches, Extends
    <3>15. i + 1 \in 1 .. Len(plan) + 1
      BY <1>3, <3>2
    <3>. QED
      BY <1>1, <1>3, <3>2, <3>8, <3>11, <3>14, <3>15, GoOnHolds DEF plan
  <2>. QED
    BY <1>11, <2>2, <2>3 DEF FinishStage, run
<1>12. CASE StageFails(w) \/ Abort(w)
  <2>1. UNCHANGED runs /\ \E limit, by : ReadAttempts(w, limit, by)
    BY <1>12 DEF StageFails, Abort, Crash
  <2>. QED
    BY <1>1, <1>5, <2>1, ReadAttemptsHolds
<1>13. CASE StartFinalize(w)
  <2>1. UNCHANGED runs /\ worker[w].pc = "drafted" /\ \E text : Finalize(w, text)
    BY <1>13 DEF StartFinalize, At
  <2>. QED
    BY <1>1, <1>5, <2>1, FinalizeHolds
<1>14. CASE MarkSucceeded(w) \/ NoResult(w)
  <2>1. Holding(worker[w]) /\ Finish(w)
    BY <1>14 DEF MarkSucceeded, NoResult, At, Holding, After, SlotsOK, BusyHasChapter, Placed,
       Piped
  <2>6. PICK status : UpdateRun(KeyOf(w), [run EXCEPT !.status = status])
    BY <1>14 DEF MarkSucceeded, NoResult, run
  <2>. DEFINE new == [run EXCEPT !.status = status]
  <2>2. KeyOf(w) \in DOMAIN runs /\ run \in Run /\ Good(run)
    BY <1>4, <1>6, <2>1
  <2>3. UpdateRun(KeyOf(w), new)
    BY <2>6
  <2>4. Good(new) /\ Extends(run, new)
    BY <2>2, StatusGood
  <2>. HIDE DEF new
  <2>5. RunsGrow /\ RunsGood'
    BY <1>1, <2>2, <2>3, <2>4, UpdateGrows DEF run
  <2>. QED
    BY <1>1, <2>1, <2>5, FinishHolds
<1>. QED
  BY <1>8, <1>9, <1>10, <1>11, <1>12, <1>13, <1>14, <1>15, <1>16 DEF Pipeline

(* The reads of the one slot are not disturbed by its own steps.            *)
LEMMA PipelineReads ==
  ASSUME OneSlot, SlotsOK, RunsTypeOK, SlotsRead, NEW w \in Worker, Pipeline(w)
  PROVE  SlotsRead'
<1>1. \A v \in Worker : v = w
  BY DEF OneSlot
<1>. SUFFICES ASSUME worker'[w].pc \in Reading
             PROVE  /\ runs'[KeyOf(w)'].stages = worker'[w].plan
                    /\ worker'[w].pc = "resume" => worker'[w].memory = runs'[KeyOf(w)'].memory
  BY <1>1 DEF SlotsRead, Reading
<1>2. CASE FindRun(w) /\ Goto(w, "load") /\ Resumable(w)
  <2>1. /\ KeyOf(w)' = KeyOf(w) /\ worker'[w].plan = worker[w].plan
        /\ worker'[w].pc = "load"
    BY <1>2 DEF Goto, KeyOf, SlotsOK, WorkerTypeOK, Slot
  <2>. QED
    BY <1>2, <2>1 DEF FindRun, Resumable, Stages
<1>3. CASE LoadMemory(w)
  <2>1. /\ KeyOf(w)' = KeyOf(w) /\ worker'[w].plan = worker[w].plan
        /\ worker'[w].memory = runs[KeyOf(w)].memory
    BY <1>3 DEF LoadMemory, Loaded, KeyOf, SlotsOK, WorkerTypeOK, Slot
  <2>2. runs[KeyOf(w)].stages = worker[w].plan
    BY <1>3 DEF LoadMemory, At, SlotsRead, Reading
  <2>. QED
    BY <1>3, <2>1, <2>2 DEF LoadMemory
<1>4. ~(FindRun(w) /\ Goto(w, "load")) /\ ~LoadMemory(w) => worker'[w] = worker[w]
  <2>. SUFFICES ASSUME ~(FindRun(w) /\ Goto(w, "load")), ~LoadMemory(w)
               PROVE  worker'[w] = worker[w]
    OBVIOUS
  <2>1. ASSUME NEW i, NEW memory, GoOn(w, i, memory)
        PROVE  worker'[w] = worker[w]
    BY <2>1, GoOnLeaves DEF Reading
  <2>2. \/ \E i, memory : GoOn(w, i, memory)
        \/ \E limit, by : ReadAttempts(w, limit, by)
        \/ Finish(w) \/ Goto(w, "model") \/ Goto(w, "create")
        \/ \E text : Finalize(w, text)
    BY DEF Pipeline, FindRun, Resume, CreateRun, Crash, StartStage, FinishStage, StageFails, Abort,
       StartFinalize, NoResult, MarkSucceeded
  <2>. QED
    BY <2>1, <2>2, ReadAttemptsLeaves, FinishLeaves, GotoLeaves, FinalizeLeaves DEF Reading
<1>5. CASE worker'[w] = worker[w]
  <2>1. worker[w].pc \in Reading /\ KeyOf(w)' = KeyOf(w)
    BY <1>5 DEF KeyOf
  <2>2. LoadMemory(w) \/ Resume(w)
    BY <2>1 DEF Pipeline, FindRun, CreateRun, StartStage, FinishStage, StageFails, Abort,
       StartFinalize, NoResult, MarkSucceeded, At, Reading
  <2>3. UNCHANGED runs
    BY <2>2 DEF LoadMemory, Resume
  <2>. QED
    BY <1>5, <2>1, <2>3 DEF SlotsRead
<1>6. FindRun(w) /\ Goto(w, "load") => Resumable(w)
  BY DEF FindRun, Finish, Goto, SlotsOK, WorkerTypeOK, Slot, Free
<1>. QED
  BY <1>2, <1>3, <1>4, <1>5, <1>6

-----------------------------------------------------------------------------
(* The stages *)

LEMMA RunInvInit == Init => RunInv
<1>1. ASSUME Init, NEW w \in Worker
      PROVE  worker[w] = Free("ready")
  BY <1>1 DEF Init, WorkerInit
<1>2. Free("ready").pc \notin Reading
  BY DEF Free, Reading
<1>. QED
  BY <1>1, <1>2, FreeHoldsNothing
  DEF Init, RunsInit, RunInv, RunsGood, SlotsMatch, SlotsRouted, SlotsRead, Reading

LEMMA RunInvNext ==
  ASSUME OneSlot
  PROVE  TypeInv /\ RunInv /\ [Next]_vars => RunInv'
<1>. SUFFICES ASSUME TypeInv, RunInv, [Next]_vars
             PROVE  RunInv'
  OBVIOUS
<1>1. StoreTypeOK /\ SlotsOK /\ RunsTypeOK /\ ReadersHaveRun
  BY DEF TypeInv
<1>2. CASE UNCHANGED <<workerVars, runs>>
  BY <1>2 DEF RunInv, RunsGood, SlotsMatch, SlotsRouted, SlotsRead, Holding, Matches, Existent,
     KeyOf, Routed, workerVars
<1>3. CASE WorkerNext /\ UNCHANGED runs
  BY <1>1, <1>3, WorkerHolds
<1>4. CASE \E w \in Worker : Pipeline(w)
  BY <1>1, <1>4, PipelineHolds, PipelineReads DEF RunInv
<1>. QED
  BY <1>2, <1>3, <1>4 DEF Next, vars

LEMMA RunInvAlways ==
  ASSUME OneSlot
  PROVE  Spec => []RunInv
<1>1. TypeInv /\ RunInv /\ [Next]_vars => RunInv'
  BY RunInvNext
<1>. QED
  BY <1>1, RunInvInit, TypeInvAlways, PTL DEF Spec

(* With one slot, no stage runs and no result is taken without the outputs  *)
(* of all the stages before it, whichever try of the job produced them.     *)
THEOREM InputsSafe ==
  ASSUME OneSlot
  PROVE  Spec => []InputsAtHand
<1>1. TypeInv /\ RunInv => InputsAtHand
  <2>. SUFFICES ASSUME TypeInv, RunInv, NEW w \in Worker,
                      worker[w].pc \in {"stage", "model", "drafted"},
                      NEW i \in 1 .. worker[w].at - 1
               PROVE  worker[w].memory[worker[w].plan[i]] # NoBody
    BY DEF InputsAtHand
  <2>1. KeyOf(w) \in DOMAIN runs /\ Matches(worker[w], runs[KeyOf(w)])
    BY DEF RunInv, SlotsMatch, Holding, Existent
  <2>2. Good(runs[KeyOf(w)])
    BY <2>1 DEF RunInv, RunsGood
  <2>. QED
    BY <2>1, <2>2 DEF Matches, Good
<1>2. Spec => []RunInv
  BY RunInvAlways
<1>. QED
  BY <1>1, <1>2, TypeInvAlways, PTL

(* With one slot, the latest checkpoint of a run holds the output of every  *)
(* DONE stage.                                                              *)
THEOREM CheckpointsSafe ==
  ASSUME OneSlot
  PROVE  Spec => []DoneIsSaved
<1>1. RunInv => DoneIsSaved
  BY DEF RunInv, RunsGood, Good, DoneIsSaved
<1>2. Spec => []RunInv
  BY RunInvAlways
<1>. QED
  BY <1>1, <1>2, PTL

-----------------------------------------------------------------------------
(* Finished stages.  A plan that names a stage twice runs it twice; in one  *)
(* that does not, the stage a slot is at is not saved yet.                  *)

DistinctStages ==
  \A plan \in Plans : \A i, j \in DOMAIN plan : plan[i] = plan[j] => i = j

Fresh == \A w \in Worker : At(w, "stage") => runs[KeyOf(w)].state[Current(w)] # "DONE"

(* The stage behind the one that a slot has just saved is not saved.        *)
LEMMA NextStageFresh ==
  ASSUME DistinctStages, NEW run \in Run, Good(run),
         NEW i \in DOMAIN run.stages, run.stages[i] \notin run.saved,
         NEW memory \in Memory, i + 1 \in DOMAIN run.stages
  PROVE  Saved(run, run.stages[i], memory).state[run.stages[i + 1]] # "DONE"
<1>. DEFINE plan == run.stages
<1>1. plan \in Plans /\ plan \in Seq(StageName) /\ Len(plan) \in Nat /\ i \in 1 .. Len(plan)
  BY PlanAssumption DEF Run
<1>2. PICK m \in 0 .. Len(plan) : run.saved = {plan[j] : j \in 1 .. m}
  BY DEF Good
<1>3. m < i
  BY <1>1, <1>2
<1>4. plan[i] \in StageName /\ plan[i + 1] \in StageName
  BY <1>1
<1>5. plan[i + 1] \notin run.saved /\ plan[i + 1] # plan[i]
  <2>1. ASSUME NEW j \in 1 .. i, plan[j] = plan[i + 1]
        PROVE  FALSE
    <3>1. j \in DOMAIN plan /\ j # i + 1
      BY <1>1
    <3>. HIDE DEF plan
    <3>. QED
      BY <1>1, <2>1, <3>1 DEF DistinctStages, plan
  <2>2. i \in 1 .. i /\ \A j \in 1 .. m : j \in 1 .. i
    BY <1>1, <1>3
  <2>. QED
    BY <1>2, <2>1, <2>2
<1>6. run.state[plan[i + 1]] # "DONE"
  BY <1>4, <1>5 DEF Good
<1>. QED
  BY <1>4, <1>5, <1>6 DEF Saved, Run

LEMMA GoOnAt ==
  ASSUME SlotsOK, NEW w \in Worker, worker[w].plan \in Seq(StageName), NEW i \in Nat,
         NEW memory, GoOn(w, i, memory), worker'[w].pc = "stage"
  PROVE  i <= Len(worker[w].plan) /\ KeyOf(w)' = KeyOf(w) /\ Current(w)' = worker[w].plan[i]
BY DEF GoOn, Stages, Current, KeyOf, SlotsOK, WorkerTypeOK, Slot

LEMMA FreshNext ==
  ASSUME OneSlot, DistinctStages
  PROVE  TypeInv /\ RunInv /\ Fresh /\ [Next]_vars => Fresh'
<1>. SUFFICES ASSUME TypeInv, RunInv, Fresh, [Next]_vars, NEW w \in Worker,
                    worker'[w].pc = "stage"
             PROVE  runs'[KeyOf(w)'].state[Current(w)'] # "DONE"
  BY DEF Fresh, At
<1>. DEFINE plan == worker[w].plan
           run  == runs[KeyOf(w)]
<1>1. SlotsOK /\ RunsTypeOK /\ ReadersHaveRun /\ RunsGood /\ SlotsMatch
  BY DEF TypeInv, RunInv
<1>2. worker[w] \in Slot /\ plan \in Plans /\ plan \in Seq(StageName) /\ Len(plan) \in Nat
  BY <1>1, PlanAssumption DEF SlotsOK, WorkerTypeOK, Slot
<1>3. CASE worker'[w] = worker[w] /\ UNCHANGED runs
  <2>1. KeyOf(w)' = KeyOf(w) /\ Current(w)' = Current(w)
    BY <1>3 DEF KeyOf, Current, Stages
  <2>. QED
    BY <1>3, <2>1 DEF Fresh, At
<1>4. ASSUME Pipeline(w)
      PROVE  runs'[KeyOf(w)'].state[Current(w)'] # "DONE"
  <2>1. CASE Resume(w)
    <3>. DEFINE i == ResumeFrom(run, plan)
    <3>1. GoOn(w, i, worker[w].memory) /\ UNCHANGED runs
      BY <2>1 DEF Resume, Stages
    <3>2. i \in 1 .. Len(plan) + 1 /\ (i <= Len(plan) => run.state[plan[i]] # "DONE")
      BY <1>2, ResumeFromFirst
    <3>. HIDE DEF i
    <3>. QED
      BY <1>1, <1>2, <3>1, <3>2, GoOnAt
  <2>2. CASE CreateRun(w)
    <3>1. InsertRun(KeyOf(w), plan) /\ GoOn(w, 1, NoMemory)
      BY <1>1, <2>2, ReadAttemptsLeaves DEF CreateRun, Crash, Stages, At
    <3>2. KeyOf(w)' = KeyOf(w) /\ Current(w)' = plan[1] /\ 1 <= Len(plan)
      BY <1>1, <1>2, <3>1, GoOnAt
    <3>3. plan[1] \in StageName
      BY <1>2, <3>2
    <3>. QED
      BY <3>1, <3>2, <3>3 DEF InsertRun
  <2>3. CASE FinishStage(w)
    <3>. DEFINE i == worker[w].at
    <3>1. /\ worker[w].pc = "model" /\ Current(w) = plan[i] /\ i \in DOMAIN plan
          /\ KeyOf(w) \in DOMAIN runs /\ run.stages = plan /\ run \in Run /\ Good(run)
      BY <1>1, <2>3 DEF FinishStage, At, Current, Stages, SlotsOK, BusyHasChapter, Placed, InStage,
         SlotsMatch, Holding, Existent, Matches, RunsTypeOK, RunsGood
    <3>2. PICK output \in Body :
            LET memory == [worker[w].memory EXCEPT ![plan[i]] = output] IN
            /\ plan[i] \notin run.saved
            /\ UpdateRun(KeyOf(w), Saved(run, plan[i], memory))
            /\ GoOn(w, i + 1, memory)
      BY <1>1, <2>3, <3>1, ReadAttemptsLeaves DEF FinishStage, Crash
    <3>. DEFINE memory == [worker[w].memory EXCEPT ![plan[i]] = output]
    <3>3. memory \in Memory
      BY <1>2 DEF Slot, Memory, Text
    <3>4. UpdateRun(KeyOf(w), Saved(run, plan[i], memory)) /\ GoOn(w, i + 1, memory)
      BY <3>2
    <3>. HIDE DEF memory
    <3>5. i + 1 \in Nat
      BY <1>2, <3>1
    <3>6. i + 1 <= Len(plan) /\ KeyOf(w)' = KeyOf(w) /\ Current(w)' = plan[i + 1]
      BY <1>1, <1>2, <3>4, <3>5, GoOnAt
    <3>7. i + 1 \in DOMAIN plan
      <4>1. DOMAIN plan = 1 .. Len(plan) /\ i \in 1 .. Len(plan)
        BY <1>2, <3>1
      <4>. HIDE DEF i, plan
      <4>. QED
        BY <1>2, <3>6, <4>1
    <3>. HIDE DEF i, plan, run
    <3>8. Saved(run, plan[i], memory).state[plan[i + 1]] # "DONE"
      BY <3>1, <3>2, <3>3, <3>7, NextStageFresh
    <3>. QED
      BY <3>1, <3>4, <3>6, <3>8 DEF UpdateRun, run
  <2>4. CASE ~Resume(w) /\ ~CreateRun(w) /\ ~FinishStage(w)
    <3>1. \/ \E pc \in {"load", "create", "model"} : Goto(w, pc)
          \/ Finish(w) \/ LoadMemory(w)
          \/ \E text : Finalize(w, text)
          \/ \E limit, by : ReadAttempts(w, limit, by)
      BY <1>4, <2>4 DEF Pipeline, FindRun, Crash, StartStage, StageFails, Abort, StartFinalize,
         NoResult, MarkSucceeded
    <3>2. ~LoadMemory(w)
      BY <1>1 DEF LoadMemory, SlotsOK, WorkerTypeOK, Slot
    <3>3. worker'[w] = worker[w]
      <4>1. CASE \E pc \in {"load", "create", "model"} : Goto(w, pc)
        BY <1>1, <4>1, GotoLeaves
      <4>2. CASE Finish(w)
        BY <1>1, <4>2, FinishLeaves
      <4>3. CASE \E text : Finalize(w, text)
        BY <1>1, <4>3, FinalizeLeaves
      <4>4. CASE \E limit, by : ReadAttempts(w, limit, by)
        BY <1>1, <4>4, ReadAttemptsLeaves
      <4>. QED
        BY <3>1, <3>2, <4>1, <4>2, <4>3, <4>4
    <3>4. StartStage(w)
      BY <1>4, <2>4, <3>3 DEF Pipeline, FindRun, LoadMemory, StageFails, Abort, StartFinalize,
         NoResult, MarkSucceeded, At
    <3>. QED
      BY <1>2, <3>3, <3>4 DEF StartStage, Goto, At, SlotsOK, WorkerTypeOK, Slot, TypeInv
  <2>. QED
    BY <2>1, <2>2, <2>3, <2>4
<1>5. CASE WorkerNext /\ UNCHANGED <<consoleVars, runs>>
  BY <1>1, <1>3, <1>5, WorkerLeaves DEF Inner
<1>. QED
  BY <1>3, <1>4, <1>5 DEF Next, vars, workerVars, OneSlot

(* With one slot a stage that is DONE stays DONE: no retry, kill or resumed *)
(* run pays for it again.                                                   *)
THEOREM FinishedStagesStay ==
  ASSUME OneSlot, DistinctStages
  PROVE  Spec => DoneStaysDone
<1>1. Init => Fresh
  BY DEF Init, WorkerInit, Fresh, At, Free
<1>2. TypeInv /\ RunInv /\ Fresh /\ [Next]_vars => Fresh'
  BY FreshNext
<1>3. ASSUME TypeInv, RunInv, Fresh, [Next]_vars,
             NEW k \in DOMAIN runs, NEW s \in StageName, runs[k].state[s] = "DONE"
      PROVE  runs'[k].state[s] = "DONE"
  <2>1. runs[k] \in Run
    BY <1>3 DEF TypeInv, RunsTypeOK
  <2>2. CASE UNCHANGED runs
    BY <1>3, <2>2
  <2>3. ASSUME NEW w \in Worker, NEW plan, KeyOf(w) \notin DOMAIN runs, InsertRun(KeyOf(w), plan)
        PROVE  runs'[k] = runs[k]
    BY <2>3 DEF InsertRun
  <2>4. ASSUME NEW j, NEW row, UpdateRun(j, row)
        PROVE  runs'[k] = runs[k] \/ (j = k /\ runs'[k] = row)
    BY <2>4 DEF UpdateRun
  <2>5. ASSUME NEW w \in Worker, Pipeline(w)
        PROVE  runs'[k].state[s] = "DONE"
    <3>1. CASE StartStage(w)
      <4>1. At(w, "stage") /\ UpdateRun(KeyOf(w), Started(runs[KeyOf(w)], Current(w)))
        BY <3>1 DEF StartStage
      <4>2. CASE KeyOf(w) = k
        <5>1. s # Current(w)
          BY <1>3, <4>1, <4>2 DEF Fresh
        <5>2. Started(runs[k], Current(w)).state[s] = "DONE"
          BY <1>3, <2>1, <5>1 DEF Started, Run
        <5>. QED
          BY <1>3, <2>4, <4>1, <4>2, <5>2
      <4>. QED
        BY <1>3, <2>4, <4>1, <4>2
    <3>2. CASE FinishStage(w)
      <4>1. \/ UNCHANGED runs
            \/ \E memory : UpdateRun(KeyOf(w), Saved(runs[KeyOf(w)], Current(w), memory))
        BY <3>2 DEF FinishStage
      <4>2. ASSUME NEW memory, UpdateRun(KeyOf(w), Saved(runs[KeyOf(w)], Current(w), memory))
            PROVE  runs'[k].state[s] = "DONE"
        <5>1. Saved(runs[k], Current(w), memory).state[s] = "DONE"
          BY <1>3, <2>1 DEF Saved, Run
        <5>2. runs'[k] = runs[k]
              \/ (KeyOf(w) = k /\ runs'[k] = Saved(runs[KeyOf(w)], Current(w), memory))
          BY <2>4, <4>2
        <5>. QED
          BY <1>3, <5>1, <5>2
      <4>. QED
        BY <2>2, <4>1, <4>2
    <3>3. CASE NoResult(w) \/ MarkSucceeded(w)
      <4>1. \E status : UpdateRun(KeyOf(w), [runs[KeyOf(w)] EXCEPT !.status = status])
        BY <3>3 DEF NoResult, MarkSucceeded
      <4>2. ASSUME NEW status, UpdateRun(KeyOf(w), [runs[KeyOf(w)] EXCEPT !.status = status])
            PROVE  runs'[k].state[s] = "DONE"
        <5>1. [runs[k] EXCEPT !.status = status].state[s] = "DONE"
          BY <1>3, <2>1 DEF Run
        <5>2. runs'[k] = runs[k]
              \/ (KeyOf(w) = k /\ runs'[k] = [runs[KeyOf(w)] EXCEPT !.status = status])
          BY <2>4, <4>2
        <5>. QED
          BY <1>3, <5>1, <5>2
      <4>. QED
        BY <4>1, <4>2
    <3>4. CASE CreateRun(w)
      BY <1>3, <2>2, <2>3, <3>4 DEF CreateRun, Existent
    <3>5. CASE \/ FindRun(w) \/ LoadMemory(w) \/ Resume(w) \/ StageFails(w) \/ Abort(w)
               \/ StartFinalize(w)
      BY <2>2, <3>5 DEF FindRun, LoadMemory, Resume, StageFails, Abort, StartFinalize
    <3>. QED
      BY <2>5, <3>1, <3>2, <3>3, <3>4, <3>5 DEF Pipeline
  <2>. QED
    BY <1>3, <2>2, <2>5 DEF Next, vars
<1>4. TypeInv /\ RunInv /\ Fresh /\ [Next]_vars =>
        [\A k \in DOMAIN runs : \A s \in StageName :
           runs[k].state[s] = "DONE" => runs'[k].state[s] = "DONE"]_vars
  BY <1>3
<1>5. Spec => []RunInv
  BY RunInvAlways
<1>. QED
  BY <1>1, <1>2, <1>4, <1>5, TypeInvAlways, PTL DEF Spec, DoneStaysDone

-----------------------------------------------------------------------------
(* The drafts of a chapter.  Any number of slots from here on: what two     *)
(* slots on one job can mix up is the memory of its run, not its result,    *)
(* when a plan ends in a written stage that it names once.                  *)

EndsWritten ==
  \A plan \in Plans : plan # <<>> =>
    /\ plan[Len(plan)] \in {"chapter", "polish"}
    /\ \A i \in 1 .. Len(plan) - 1 : plan[i] # plan[Len(plan)]

IsDraft(row, text) == \E v \in DOMAIN row.drafts : row.drafts[v] = text

(* From a chapter to its next value: the incarnation of its job stays and   *)
(* keeps its drafts, or the next one begins.                                *)
KeepsDrafts(before, row, after, new) ==
  \/ after.id = before.id /\ \A text : IsDraft(row, text) => IsDraft(new, text)
  \/ after.id = before.id + 1

(* The first job of a chapter has number 0; a job row never goes away. *)
Numbered(row) == row.status = "NONE" => row.id = 0
JobsNumbered == \A n \in Chapter : Numbered(job[n])

SameId(row, after) == after.id = row.id /\ (after.status = "NONE" => row.status = "NONE")
SameIds == \A n \in Chapter : SameId(job[n], job'[n])

DraftsKept ==
  \A n \in Chapter :
    /\ KeepsDrafts(job[n], chapter[n], job'[n], chapter'[n])
    /\ Numbered(job[n]) => Numbered(job'[n])

LEMMA SameDrafts ==
  ASSUME SameIds, \A n \in Chapter : chapter'[n].drafts = chapter[n].drafts
  PROVE  DraftsKept
BY DEF SameIds, SameId, DraftsKept, KeepsDrafts, IsDraft, Numbered

LEMMA StatusKeepsDrafts ==
  ASSUME StoreTypeOK, NEW n \in Chapter, NEW status, SetStatus(n, status)
  PROVE  DraftsKept /\ SameIds
<1>1. job' = job /\ \A m \in Chapter : chapter'[m].drafts = chapter[m].drafts
  BY DEF SetStatus, StoreTypeOK, ChapterRow, queueVars
<1>. QED
  BY <1>1, SameDrafts DEF SameIds, SameId

LEMMA AppendKeeps ==
  ASSUME NEW drafts \in Seq(Text), NEW text \in Text, NEW row, row.drafts = drafts,
         NEW new, new.drafts = Append(drafts, text)
  PROVE  IsDraft(new, text) /\ \A t : IsDraft(row, t) => IsDraft(new, t)
<1>1. /\ Len(drafts) \in Nat /\ DOMAIN drafts = 1 .. Len(drafts)
      /\ DOMAIN new.drafts = 1 .. Len(drafts) + 1
      /\ new.drafts[Len(drafts) + 1] = text
      /\ \A v \in 1 .. Len(drafts) : new.drafts[v] = drafts[v]
  OBVIOUS
<1>. QED
  BY <1>1 DEF IsDraft

LEMMA SavedIsDraft ==
  ASSUME StoreTypeOK, NEW n \in Chapter, NEW id, NEW text \in Text, NEW passed \in BOOLEAN,
         SaveGeneration(n, id, text, passed)
  PROVE  DraftsKept /\ IsDraft(chapter'[n], text) /\ SameIds
<1>1. \A m \in Chapter : job[m] \in JobRow /\ chapter[m] \in ChapterRow
  BY DEF StoreTypeOK
<1>2. SameIds
  BY <1>1 DEF SaveGeneration, StoreTypeOK, JobRow, SameIds, SameId
<1>3. \A m \in Chapter \ {n} : chapter'[m] = chapter[m]
  BY DEF SaveGeneration, StoreTypeOK
<1>4. chapter'[n].drafts = Append(chapter[n].drafts, text) /\ chapter[n].drafts \in Seq(Text)
  BY <1>1 DEF SaveGeneration, StoreTypeOK, ChapterRow
<1>5. IsDraft(chapter'[n], text) /\ \A t : IsDraft(chapter[n], t) => IsDraft(chapter'[n], t)
  BY <1>4, AppendKeeps
<1>. QED
  BY <1>2, <1>3, <1>5 DEF DraftsKept, KeepsDrafts, SameIds, SameId, Numbered

LEMMA UpdateKeepsDrafts ==
  ASSUME StoreTypeOK, NEW n \in Chapter, NEW text, NEW saved \in Text, UpdateDraft(n, text, saved)
  PROVE  DraftsKept
<1>1. \A m \in Chapter : chapter[m] \in ChapterRow
  BY DEF StoreTypeOK
<1>2. job' = job /\ \A m \in Chapter \ {n} : chapter'[m] = chapter[m]
  BY DEF UpdateDraft, StoreTypeOK, queueVars
<1>3. chapter'[n].drafts = Append(chapter[n].drafts, saved) /\ chapter[n].drafts \in Seq(Text)
  BY <1>1 DEF UpdateDraft, StoreTypeOK, ChapterRow
<1>4. \A t : IsDraft(chapter[n], t) => IsDraft(chapter'[n], t)
  BY <1>3, AppendKeeps
<1>. QED
  BY <1>2, <1>4 DEF DraftsKept, KeepsDrafts, Numbered

(* The worker leaves every job its incarnation. *)
LEMMA WorkerDrafts ==
  ASSUME StoreTypeOK, SlotsOK, WorkerNext
  PROVE  DraftsKept /\ SameIds
<1>1. \A n \in Chapter : job[n] \in JobRow /\ chapter[n] \in ChapterRow
  BY DEF StoreTypeOK
<1>2. \A w \in Worker : worker[w] \in Slot /\ (worker[w].pc \in Busy => worker[w].n \in Chapter)
  BY DEF SlotsOK, WorkerTypeOK, BusyHasChapter, Placed
<1>3. ASSUME UNCHANGED chapter, SameIds
      PROVE  DraftsKept
  BY <1>3, SameDrafts
<1>4. ASSUME NEW w \in Worker, Claim(w)
      PROVE  UNCHANGED chapter /\ SameIds
  <2>1. \A n \in Chapter : SweptRow(job[n]) \in JobRow /\ SweptRow(job[n]).id = job[n].id
    BY <1>1, SweptRowType, SweptFacts
  <2>2. ASSUME NEW n \in Chapter
        PROVE  SameId(job[n], SweptRow(job[n])) /\ SameId(job[n], ClaimedRow(SweptRow(job[n])))
    <3>1. /\ job[n] \in JobRow /\ SweptRow(job[n]) \in JobRow
          /\ SameId(job[n], SweptRow(job[n]))
      BY <1>1, <2>1, SweptFacts DEF SameId
    <3>2. /\ ClaimedRow(SweptRow(job[n])).id = SweptRow(job[n]).id
          /\ ClaimedRow(SweptRow(job[n])).status = "RUNNING"
      BY <3>1 DEF ClaimedRow, JobRow
    <3>. QED
      BY <3>1, <3>2 DEF SameId
  <2>3. CASE ClaimNone
    BY <2>2, <2>3 DEF ClaimNone, textVars, SameIds
  <2>4. ASSUME NEW n \in Chapter, ClaimJob(n)
        PROVE  UNCHANGED chapter /\ SameIds
    <3>1. \A m \in Chapter : job'[m] \in {SweptRow(job[m]), ClaimedRow(SweptRow(job[m]))}
      BY <2>4 DEF ClaimJob
    <3>. QED
      BY <2>2, <2>4, <3>1 DEF ClaimJob, textVars, SameIds
  <2>. QED
    BY <1>4, <2>3, <2>4 DEF Claim
<1>5. ASSUME NEW w \in Worker, NEW status, worker[w].pc \in Busy, SetStatus(worker[w].n, status)
      PROVE  DraftsKept /\ SameIds
  BY <1>2, <1>5, StatusKeepsDrafts
<1>6. ASSUME NEW w \in Worker, StartPlanning(w) \/ VoidChapter(w) \/ StartGenerating(w) \/ StartReviewing(w)
      PROVE  DraftsKept /\ SameIds
  <2>1. worker[w].pc \in Busy /\ \E status : SetStatus(worker[w].n, status)
    BY <1>6 DEF StartPlanning, VoidChapter, StartGenerating, StartReviewing, Finalize, At, Busy
  <2>. QED
    BY <1>5, <2>1
<1>7. ASSUME NEW w \in Worker, VoidTheJob(w)
      PROVE  UNCHANGED chapter /\ SameIds
  BY <1>1, <1>7 DEF VoidTheJob, VoidJob, textVars, StoreTypeOK, JobRow, SameIds, SameId
<1>8. ASSUME NEW w \in Worker, Save(w)
      PROVE  DraftsKept /\ SameIds
  <2>1. worker[w].n \in Chapter /\ worker[w].text \in Text
    BY <1>2, <1>8 DEF Save, At, Busy, Slot
  <2>. QED
    BY <1>8, <2>1, SavedIsDraft DEF Save
<1>9. ASSUME NEW w \in Worker, WriteFailure(w)
      PROVE  DraftsKept /\ SameIds
  <2>1. worker[w].n \in Chapter /\ FailJob(worker[w].n, worker[w].id, worker[w].retry)
    BY <1>2, <1>9 DEF WriteFailure, At, Busy
  <2>2. SameIds /\ \A n \in Chapter : chapter'[n].drafts = chapter[n].drafts
    BY <1>1, <2>1 DEF FailJob, StoreTypeOK, JobRow, ChapterRow, SameIds, SameId
  <2>. QED
    BY <2>2, SameDrafts
<1>10. ASSUME NEW n \in Chapter, BackoffElapses(n) \/ LeaseLapses(n) \/ Overrun(n)
       PROVE  UNCHANGED chapter /\ SameIds
  <2>1. /\ UNCHANGED chapter
        /\ \/ job' = [job EXCEPT ![n].due = TRUE]
           \/ job' = [job EXCEPT ![n].lease = "lapsed"]
    BY <1>10 DEF BackoffElapses, LeaseLapses, Overrun, Lapse, textVars
  <2>2. ASSUME NEW m \in Chapter
        PROVE  job'[m].id = job[m].id /\ job'[m].status = job[m].status
    <3>1. job[m] \in JobRow /\ job \in [Chapter -> JobRow]
      BY DEF StoreTypeOK
    <3>2. CASE job' = [job EXCEPT ![n].due = TRUE]
      BY <3>1, <3>2 DEF JobRow
    <3>3. CASE job' = [job EXCEPT ![n].lease = "lapsed"]
      BY <3>1, <3>3 DEF JobRow
    <3>. QED
      BY <2>1, <3>2, <3>3
  <2>. QED
    BY <2>1, <2>2 DEF SameIds, SameId
<1>11. ASSUME NEW w \in Worker,
              ReadContext(w) \/ AutoRead(w) \/ AutoWrite(w) \/ CallFails(w) \/ Raise(w)
       PROVE  UNCHANGED <<chapter, job>>
  BY <1>11 DEF ReadContext, AutoRead, AutoWrite, CallFails, Raise, WriteFile, storeVars, queueVars,
     textVars
<1>12. ASSUME NEW p \in Process, Kill(p) \/ NextPass(p)
       PROVE  UNCHANGED <<chapter, job>>
  BY <1>12 DEF Kill, NextPass, storeVars, queueVars, textVars
<1>. QED
  BY <1>3, <1>4, <1>6, <1>7, <1>8, <1>9, <1>10, <1>11, <1>12 DEF WorkerNext, Work, SameIds, SameId

LEMMA PipelineDrafts ==
  ASSUME StoreTypeOK, SlotsOK, NEW w \in Worker, Pipeline(w)
  PROVE  DraftsKept /\ UNCHANGED job
<1>1. CASE StartFinalize(w)
  <2>1. worker[w].n \in Chapter /\ SetStatus(worker[w].n, "REVIEWING")
    BY <1>1 DEF StartFinalize, Finalize, At, Busy, SlotsOK, BusyHasChapter, Placed
  <2>. QED
    BY <2>1, StatusKeepsDrafts DEF SetStatus, queueVars
<1>2. CASE ~StartFinalize(w)
  <2>1. UNCHANGED <<chapter, job>>
    BY <1>2 DEF Pipeline, FindRun, LoadMemory, Resume, CreateRun, StartStage, FinishStage,
       StageFails, Abort, NoResult, MarkSucceeded, storeVars, queueVars, textVars
  <2>. QED
    BY <2>1, SameDrafts DEF SameIds, SameId
<1>. QED
  BY <1>1, <1>2

LEMMA ConsoleDrafts ==
  ASSUME StoreTypeOK, ThreadsOK, JobsNumbered, ConsoleNext
  PROVE  DraftsKept
<1>1. \A n \in Chapter : job[n] \in JobRow /\ chapter[n] \in ChapterRow
  BY DEF StoreTypeOK
<1>2. CASE UNCHANGED <<chapter, job>>
  BY <1>2, SameDrafts DEF SameIds, SameId
<1>3. ASSUME SameIds, \A m \in Chapter : chapter'[m].drafts = chapter[m].drafts
      PROVE  DraftsKept
  BY <1>3, SameDrafts
<1>4. ASSUME NEW n \in Chapter, NEW status, SetStatus(n, status)
      PROVE  DraftsKept
  BY <1>4, StatusKeepsDrafts
<1>5. ASSUME NEW r \in Request, Begin(r)
      PROVE  DraftsKept
  <2>1. CASE UNCHANGED storeVars
    BY <1>2, <2>1 DEF storeVars, queueVars, textVars
  <2>2. ASSUME NEW n \in Chapter, CancelJob(n)
        PROVE  DraftsKept
    BY <1>1, <1>3, <2>2 DEF CancelJob, StoreTypeOK, JobRow, ChapterRow, SameIds, SameId
  <2>3. ASSUME NEW n \in Chapter, NEW p \in Platform, ManualPublish(n, p)
        PROVE  DraftsKept
    BY <1>1, <1>3, <2>3 DEF ManualPublish, queueVars, StoreTypeOK, ChapterRow, SameIds, SameId
  <2>4. ASSUME NEW flag, SetPaused(flag)
        PROVE  DraftsKept
    BY <1>2, <2>4 DEF SetPaused, queueVars, textVars
  <2>. QED
    BY <1>5, <2>1, <2>2, <2>3, <2>4
    DEF Begin, Continue, Pause, EditBible, Generate, Cancel, Review, Approve, EditTitle, Rollback,
        Rewrite, EditText, Export, ExportAgain, Publish
<1>6. ASSUME NEW r \in Request, Carry(r)
      PROVE  DraftsKept
  <2>. DEFINE n == request[r].n
  <2>1. request[r] \in Thread /\ (request[r].step \notin {"idle", "bible"} => n \in Chapter)
    BY DEF ThreadsOK, ConsoleTypeOK, OpenHasChapter
  <2>2. CASE \/ ContinueGate(r) \/ ReviewStatus(r) \/ ExportCreate(r) \/ ExportWrite(r)
             \/ ExportFails(r) \/ ExportComplete(r) \/ BibleWrite(r)
    <3>1. UNCHANGED <<chapter, job>>
      BY <2>2
      DEF ContinueGate, ReviewStatus, ExportCreate, CreateExport, ExportWrite, WriteFile,
          ExportFails, ExportComplete, SetExport, BibleWrite, UpdateBible, storeVars, queueVars,
          textVars
    <3>. QED
      BY <1>2, <3>1
  <2>3. CASE Queue(r)
    <3>1. n \in Chapter /\ QueueJob(n)
      BY <2>1, <2>3 DEF Queue
    <3>. HIDE DEF n
    <3>2. Numbered(job[n]) /\ job[n] \in JobRow /\ chapter[n] \in ChapterRow
      BY <1>1, <3>1 DEF JobsNumbered
    <3>3. SameId(job[n], job'[n]) /\ \A m \in Chapter \ {n} : job'[m] = job[m]
      BY <3>1, <3>2 DEF QueueJob, storeVars, queueVars, StoreTypeOK, JobRow, NoJob, Numbered, SameId
    <3>4. \A m \in Chapter : chapter'[m].drafts = chapter[m].drafts
      <4>1. chapter' \in {chapter, [chapter EXCEPT ![n].status = "PENDING"]}
        BY <3>1 DEF QueueJob, storeVars, textVars
      <4>2. CASE chapter' = [chapter EXCEPT ![n].status = "PENDING"]
        BY <1>1, <4>2 DEF StoreTypeOK, ChapterRow
      <4>. QED
        BY <4>1, <4>2
    <3>. QED
      BY <1>3, <3>3, <3>4 DEF SameIds, SameId
  <2>4. CASE Configure(r)
    BY <1>1, <1>3, <2>4 DEF Configure, SetJobConfig, textVars, StoreTypeOK, JobRow, SameIds,
       SameId
  <2>5. CASE ReviewWrite(r)
    BY <1>1, <1>3, <2>5 DEF ReviewWrite, RecordReview, queueVars, StoreTypeOK, ChapterRow, SameIds,
       SameId
  <2>6. CASE ApproveWrite(r) \/ ExportRecord(r)
    BY <1>4, <2>1, <2>6 DEF ApproveWrite, ExportRecord, Answer
  <2>7. CASE EditWrite(r)
    <3>1. /\ n \in Chapter /\ request[r].saved \in Text
          /\ \E text : UpdateDraft(n, text, request[r].saved)
      BY <2>1, <2>7 DEF EditWrite, Answer, Thread
    <3>. QED
      BY <3>1, UpdateKeepsDrafts
  <2>8. CASE RewriteWrite(r)
    <3>1. UNCHANGED storeVars \/ RewriteChapter(n)
      BY <2>8 DEF RewriteWrite
    <3>2. ASSUME RewriteChapter(n), n \in Chapter
          PROVE  DraftsKept
      <4>. HIDE DEF n
      <4>1. job'[n].id = job[n].id + 1 /\ job'[n].status = "PENDING"
        BY <3>2 DEF RewriteChapter, StoreTypeOK, NoJob
      <4>2. \A m \in Chapter \ {n} : job'[m] = job[m] /\ chapter'[m] = chapter[m]
        BY <3>2 DEF RewriteChapter, StoreTypeOK
      <4>. QED
        BY <4>1, <4>2 DEF DraftsKept, KeepsDrafts, Numbered
    <3>3. n \in Chapter
      BY <2>1, <2>8 DEF RewriteWrite, Answer
    <3>. QED
      BY <1>2, <3>1, <3>2, <3>3 DEF storeVars, queueVars, textVars
  <2>. QED
    BY <1>6, <2>2, <2>3, <2>4, <2>5, <2>6, <2>7, <2>8 DEF Carry
<1>7. CASE Outage
  BY <1>2, <1>7 DEF Outage, storeVars, queueVars, textVars
<1>. QED
  BY <1>5, <1>6, <1>7 DEF ConsoleNext

-----------------------------------------------------------------------------
(* The invariant of the results.  A run keeps the result of its plan as     *)
(* soon as the result has a checkpoint: all the other stages have theirs    *)
(* then, and a slot with an older memory that comes to save one of them     *)
(* crashes.                                                                 *)

Goal(plan) == plan[Len(plan)]

Complete(run) ==
  LET goal == Goal(run.stages) IN
  /\ run.stages # <<>>
  /\ \A s \in StageName : run.state[s] = "DONE" => s \in run.saved
  /\ goal \in run.saved => \A i \in DOMAIN run.stages : run.stages[i] \in run.saved
  /\ run.memory[goal] # NoBody => goal \in run.saved
  /\ run.status = "SUCCEEDED" => goal \in run.saved

Delivers(k, run, row, text) ==
  /\ k[2] <= row.id
  /\ run.status = "SUCCEEDED" /\ k[2] = row.id => IsDraft(text, run.memory[Goal(run.stages)])

RunsDeliver ==
  \A k \in DOMAIN runs :
    Complete(runs[k]) /\ Delivers(k, runs[k], job[k[1]], chapter[k[1]])

(* A slot that is bound to a run, and one with the result of its plan. *)
WithResult(slot) == slot.pc \in After /\ slot.plan # <<>>
Linked(slot) == slot.pc \in {"load", "resume", "stage", "model", "drafted"} \/ WithResult(slot)

Knows(slot, run) ==
  /\ run.stages = slot.plan
  /\ slot.pc # "load" /\ slot.memory[Goal(slot.plan)] # NoBody =>
       /\ Goal(slot.plan) \in run.saved
       /\ slot.memory[Goal(slot.plan)] = run.memory[Goal(slot.plan)]
  /\ slot.pc \notin Reading => \A i \in 1 .. slot.at - 1 : slot.plan[i] \in run.saved

Brings(slot, row, text) ==
  LET result == slot.memory[Goal(slot.plan)] IN
  /\ result # NoBody
  /\ slot.pc = "save" => slot.text = result
  /\ slot.pc # "save" /\ slot.id = row.id => IsDraft(text, result)

Fits(slot, jobs, texts, all) ==
  /\ slot.pc \in Busy => slot.id <= jobs[slot.n].id
  /\ slot.pc \in {"compose", "call"} => slot.plan = <<>>
  /\ Linked(slot) =>
       <<slot.n, slot.id>> \in DOMAIN all /\ Knows(slot, all[<<slot.n, slot.id>>])
  /\ WithResult(slot) => Brings(slot, jobs[slot.n], texts[slot.n])

SlotsFit == \A w \in Worker : Fits(worker[w], job, chapter, runs)

DraftInv == JobsNumbered /\ RunsDeliver /\ SlotsFit

-----------------------------------------------------------------------------
(* What keeps it *)

RunKept(run, new) ==
  /\ new.stages = run.stages
  /\ run.saved \subseteq new.saved
  /\ Goal(run.stages) \in run.saved =>
       new.memory[Goal(run.stages)] = run.memory[Goal(run.stages)]

RunsKept == \A k \in DOMAIN runs : k \in DOMAIN runs' /\ RunKept(runs[k], runs'[k])

LEMMA SameRunsKept ==
  ASSUME UNCHANGED runs
  PROVE  RunsKept
BY DEF RunsKept, RunKept

LEMMA DeliversKept ==
  ASSUME StoreTypeOK, DraftsKept, NEW k \in JobId, NEW run, Delivers(k, run, job[k[1]], chapter[k[1]])
  PROVE  Delivers(k, run, job'[k[1]], chapter'[k[1]])
<1>1. k[1] \in Chapter /\ k[2] \in Nat
  BY DEF JobId
<1>2. job[k[1]].id \in Nat /\ KeepsDrafts(job[k[1]], chapter[k[1]], job'[k[1]], chapter'[k[1]])
  BY <1>1 DEF StoreTypeOK, JobRow, DraftsKept
<1>3. CASE job'[k[1]].id = job[k[1]].id + 1
  BY <1>1, <1>2, <1>3 DEF Delivers
<1>4. CASE job'[k[1]].id # job[k[1]].id + 1
  BY <1>1, <1>2, <1>4 DEF Delivers, KeepsDrafts
<1>. QED
  BY <1>3, <1>4

LEMMA BringsKept ==
  ASSUME StoreTypeOK, DraftsKept, NEW slot \in Slot, slot.n \in Chapter,
         slot.id <= job[slot.n].id, Brings(slot, job[slot.n], chapter[slot.n])
  PROVE  Brings(slot, job'[slot.n], chapter'[slot.n])
<1>1. slot.id \in Nat /\ job[slot.n].id \in Nat
  BY DEF Slot, StoreTypeOK, JobRow
<1>2. KeepsDrafts(job[slot.n], chapter[slot.n], job'[slot.n], chapter'[slot.n])
  BY DEF DraftsKept
<1>3. slot.id = job'[slot.n].id => job'[slot.n].id = job[slot.n].id
  BY <1>1, <1>2 DEF KeepsDrafts
<1>4. slot.id = job'[slot.n].id =>
        \A t : IsDraft(chapter[slot.n], t) => IsDraft(chapter'[slot.n], t)
  BY <1>1, <1>2, <1>3 DEF KeepsDrafts
<1>. QED
  BY <1>3, <1>4 DEF Brings

LEMMA KnowsKept ==
  ASSUME NEW slot, NEW run, NEW new, Knows(slot, run), RunKept(run, new)
  PROVE  Knows(slot, new)
BY DEF Knows, RunKept

LEMMA FitsKept ==
  ASSUME StoreTypeOK, DraftsKept, RunsKept, NEW slot \in Slot, Placed(slot),
         Fits(slot, job, chapter, runs)
  PROVE  Fits(slot, job', chapter', runs')
<1>1. slot.pc \in Busy => slot.id <= job'[slot.n].id
  <2>. SUFFICES ASSUME slot.pc \in Busy
               PROVE  slot.id <= job'[slot.n].id
    OBVIOUS
  <2>1. slot.n \in Chapter /\ slot.id \in Nat /\ slot.id <= job[slot.n].id /\ job[slot.n].id \in Nat
    BY DEF Placed, Slot, Fits, StoreTypeOK, JobRow
  <2>2. job'[slot.n].id \in {job[slot.n].id, job[slot.n].id + 1}
    BY <2>1 DEF DraftsKept, KeepsDrafts
  <2>. QED
    BY <2>1, <2>2
<1>2. Linked(slot) => <<slot.n, slot.id>> \in DOMAIN runs' /\ Knows(slot, runs'[<<slot.n, slot.id>>])
  BY KnowsKept DEF Fits, RunsKept
<1>3. WithResult(slot) => Brings(slot, job'[slot.n], chapter'[slot.n])
  <2>1. WithResult(slot) => slot.pc \in Busy
    BY DEF WithResult, After, Busy
  <2>. QED
    BY <2>1, BringsKept DEF Fits, Placed
<1>. QED
  BY <1>1, <1>2, <1>3 DEF Fits

LEMMA NumbersKept ==
  ASSUME DraftsKept, JobsNumbered
  PROVE  JobsNumbered'
BY DEF DraftsKept, JobsNumbered, Numbered

LEMMA RunsStay ==
  ASSUME StoreTypeOK, RunsTypeOK, DraftsKept, RunsDeliver, UNCHANGED runs
  PROVE  RunsDeliver'
<1>1. \A k \in DOMAIN runs : k \in JobId
  BY DEF RunsTypeOK
<1>2. \A k \in DOMAIN runs : Delivers(k, runs[k], job'[k[1]], chapter'[k[1]])
  BY <1>1, DeliversKept DEF RunsDeliver
<1>. QED
  BY <1>2 DEF RunsDeliver

(* One slot changes, or none of those that fit. *)
LEMMA OneFits ==
  ASSUME StoreTypeOK, SlotsOK, DraftsKept, RunsKept, SlotsFit, NEW w \in Worker, NEW slot,
         worker' = [worker EXCEPT ![w] = slot], Fits(slot, job', chapter', runs')
  PROVE  SlotsFit'
<1>1. \A v \in Worker : worker[v] \in Slot /\ Placed(worker[v]) /\ Fits(worker[v], job, chapter, runs)
  BY DEF SlotsOK, WorkerTypeOK, BusyHasChapter, SlotsFit
<1>2. \A v \in Worker : Fits(worker[v], job', chapter', runs')
  BY <1>1, FitsKept
<1>3. \A v \in Worker : worker'[v] \in {worker[v], slot}
  BY DEF SlotsOK, WorkerTypeOK
<1>. QED
  BY <1>2, <1>3 DEF SlotsFit

(* A slot outside the pipeline fits with the job it has. *)
Loose(slot) ==
  slot.pc \notin {"load", "resume", "stage", "model", "drafted", "compose", "call"} \cup After

LEMMA LooseFits ==
  ASSUME NEW slot, Loose(slot), NEW jobs, NEW texts, NEW all,
         slot.pc \in Busy => slot.id <= jobs[slot.n].id
  PROVE  Fits(slot, jobs, texts, all)
BY DEF Loose, Fits, Linked, WithResult

LEMMA FreeFits ==
  ASSUME NEW pc \in {"ready", "done"}, NEW jobs, NEW texts, NEW all
  PROVE  Fits(Free(pc), jobs, texts, all)
<1>1. Free(pc).pc \in {"ready", "done"}
  BY DEF Free
<1>. HIDE DEF Free
<1>2. Loose(Free(pc)) /\ Free(pc).pc \notin Busy
  BY <1>1 DEF Loose, After, Busy
<1>. QED
  BY <1>2, LooseFits

LEMMA FinishFits ==
  ASSUME StoreTypeOK, SlotsOK, DraftsKept, RunsKept, SlotsFit, NEW w \in Worker, Finish(w)
  PROVE  SlotsFit'
BY FreeFits, OneFits DEF Finish

(* A slot that leaves the pipeline, or goes on outside it, keeps its job.   *)
LEMMA LeavesFits ==
  ASSUME StoreTypeOK, SlotsOK, DraftsKept, RunsKept, SlotsFit, NEW w \in Worker,
         worker[w].pc \in Busy, NEW slot, slot.n = worker[w].n, slot.id = worker[w].id,
         Loose(slot), worker' = [worker EXCEPT ![w] = slot]
  PROVE  SlotsFit'
<1>1. Fits(worker[w], job', chapter', runs')
  BY FitsKept DEF SlotsOK, WorkerTypeOK, BusyHasChapter, SlotsFit
<1>2. slot.id <= job'[slot.n].id
  BY <1>1 DEF Fits
<1>. QED
  BY <1>2, LooseFits, OneFits

LEMMA AttemptsFits ==
  ASSUME StoreTypeOK, SlotsOK, DraftsKept, RunsKept, SlotsFit, NEW w \in Worker,
         worker[w].pc \in Busy, NEW limit, NEW by, ReadAttempts(w, limit, by)
  PROVE  SlotsFit'
<1>1. PICK retry :
        worker' = [worker EXCEPT ![w] = [@ EXCEPT !.pc = "fail", !.retry = retry, !.by = by]]
  BY DEF ReadAttempts
<1>. DEFINE slot == [worker[w] EXCEPT !.pc = "fail", !.retry = retry, !.by = by]
<1>2. slot.pc = "fail" /\ slot.n = worker[w].n /\ slot.id = worker[w].id
  BY DEF SlotsOK, WorkerTypeOK, Slot
<1>3. worker' = [worker EXCEPT ![w] = slot]
  BY <1>1
<1>. HIDE DEF slot
<1>4. Loose(slot)
  BY <1>2 DEF Loose, After
<1>. QED
  BY <1>2, <1>3, <1>4, LeavesFits

(* A slot that keeps what it has. *)
Same(slot, old) ==
  /\ slot.n = old.n /\ slot.id = old.id /\ slot.plan = old.plan
  /\ slot.at = old.at /\ slot.memory = old.memory

LEMMA GoesOnFits ==
  ASSUME StoreTypeOK, SlotsOK, DraftsKept, RunsKept, SlotsFit, NEW w \in Worker,
         worker[w].pc \in Busy, NEW slot, Same(slot, worker[w]),
         worker' = [worker EXCEPT ![w] = slot],
         slot.pc \in {"compose", "call"} => slot.plan = <<>>,
         Linked(slot) => Linked(worker[w]) /\ worker[w].pc \notin Reading,
         WithResult(slot) =>
           /\ WithResult(worker[w]) /\ worker[w].pc # "save"
           /\ slot.pc # "save"
  PROVE  SlotsFit'
<1>1. Fits(worker[w], job', chapter', runs')
  BY FitsKept DEF SlotsOK, WorkerTypeOK, BusyHasChapter, SlotsFit
<1>2. slot.id <= job'[slot.n].id
  BY <1>1 DEF Fits, Same
<1>3. Linked(slot) => <<slot.n, slot.id>> \in DOMAIN runs' /\ Knows(slot, runs'[<<slot.n, slot.id>>])
  BY <1>1 DEF Fits, Same, Knows, Reading
<1>4. WithResult(slot) => Brings(slot, job'[slot.n], chapter'[slot.n])
  BY <1>1 DEF Fits, Same, Brings
<1>5. Fits(slot, job', chapter', runs')
  BY <1>2, <1>3, <1>4 DEF Fits
<1>. QED
  BY <1>5, OneFits

LEMMA GotoFits ==
  ASSUME StoreTypeOK, SlotsOK, DraftsKept, RunsKept, SlotsFit, NEW w \in Worker,
         worker[w].pc \in Busy, NEW pc, Goto(w, pc),
         \/ pc \in {"plan", "void", "voidjob", "agent", "create", "abort"}
         \/ pc \in {"compose", "call"} \cup After /\ worker[w].plan = <<>>
         \/ pc = "model" /\ worker[w].pc = "stage"
         \/ pc \in After \ {"save"} /\ worker[w].pc \in After \ {"save"}
  PROVE  SlotsFit'
<1>. DEFINE slot == [worker[w] EXCEPT !.pc = pc]
<1>1. slot.pc = pc /\ Same(slot, worker[w])
  BY DEF SlotsOK, WorkerTypeOK, Slot, Same
<1>2. worker' = [worker EXCEPT ![w] = slot]
  BY DEF Goto
<1>. HIDE DEF slot
<1>3. slot.pc \in {"compose", "call"} => slot.plan = <<>>
  BY <1>1 DEF Same, After
<1>4. Linked(slot) => Linked(worker[w]) /\ worker[w].pc \notin Reading
  BY <1>1 DEF Same, Linked, WithResult, After, Reading
<1>5. WithResult(slot) => WithResult(worker[w]) /\ worker[w].pc # "save" /\ slot.pc # "save"
  BY <1>1 DEF Same, WithResult, After
<1>. QED
  BY <1>1, <1>2, <1>3, <1>4, <1>5, GoesOnFits

-----------------------------------------------------------------------------
(* Steps of the worker *)

LEMMA SaveFits ==
  ASSUME StoreTypeOK, SlotsOK, DraftsKept, RunsKept, SlotsFit, NEW w \in Worker, Save(w)
  PROVE  SlotsFit'
<1>1. /\ worker[w] \in Slot /\ Placed(worker[w]) /\ worker[w].pc = "save"
      /\ Fits(worker[w], job, chapter, runs) /\ worker[w].n \in Chapter /\ worker[w].text \in Text
  BY DEF SlotsOK, WorkerTypeOK, BusyHasChapter, SlotsFit, Save, At, Placed, Busy, Slot
<1>2. Fits(worker[w], job', chapter', runs')
  BY <1>1, FitsKept
<1>3. CASE Finish(w)
  BY <1>3, FinishFits
<1>4. ASSUME NEW pc \in {"export", "mark"}, Goto(w, pc)
      PROVE  SlotsFit'
  <2>. DEFINE slot == [worker[w] EXCEPT !.pc = pc]
  <2>1. slot.pc = pc /\ Same(slot, worker[w])
    BY <1>1 DEF Slot, Same
  <2>2. worker' = [worker EXCEPT ![w] = slot]
    BY <1>4 DEF Goto
  <2>3. IsDraft(chapter'[worker[w].n], worker[w].text)
    BY <1>1, SavedIsDraft DEF Save
  <2>. HIDE DEF slot
  <2>4. slot.id <= job'[slot.n].id
    BY <1>1, <1>2, <2>1 DEF Fits, Same, Busy
  <2>5. Linked(slot) => Linked(worker[w])
    BY <1>1, <2>1 DEF Linked, WithResult, After, Same
  <2>6. Linked(slot) => <<slot.n, slot.id>> \in DOMAIN runs' /\ Knows(slot, runs'[<<slot.n, slot.id>>])
    BY <1>1, <1>2, <2>1, <2>5 DEF Fits, Same, Knows, Reading
  <2>7. WithResult(slot) => Brings(slot, job'[slot.n], chapter'[slot.n])
    BY <1>1, <1>2, <2>1, <2>3 DEF Fits, Same, Brings, WithResult, After
  <2>8. Fits(slot, job', chapter', runs')
    BY <2>1, <2>4, <2>6, <2>7 DEF Fits
  <2>. QED
    BY <2>2, <2>8, OneFits
<1>5. Finish(w) \/ \E pc \in {"export", "mark"} : Goto(w, pc)
  BY DEF Save, Finalized
<1>. QED
  BY <1>3, <1>4, <1>5

LEMMA FinalizeFits ==
  ASSUME StoreTypeOK, SlotsOK, DraftsKept, RunsKept, SlotsFit, NEW w \in Worker,
         worker[w].pc \in Busy, NEW text, Finalize(w, text),
         \/ worker[w].plan = <<>>
         \/ /\ worker[w].pc = "drafted" /\ text # NoBody
            /\ text = worker[w].memory[Goal(worker[w].plan)]
  PROVE  SlotsFit'
<1>. DEFINE slot == [worker[w] EXCEPT !.pc = "save", !.text = text]
<1>1. slot.pc = "save" /\ slot.text = text /\ Same(slot, worker[w])
  BY DEF SlotsOK, WorkerTypeOK, Slot, Same
<1>2. worker' = [worker EXCEPT ![w] = slot]
  BY DEF Finalize
<1>. HIDE DEF slot
<1>3. Fits(worker[w], job', chapter', runs')
  BY FitsKept DEF SlotsOK, WorkerTypeOK, BusyHasChapter, SlotsFit
<1>4. slot.id <= job'[slot.n].id
  BY <1>1, <1>3 DEF Fits, Same
<1>5. Linked(slot) => worker[w].pc = "drafted"
  BY <1>1 DEF Linked, WithResult, Same
<1>6. Linked(slot) => <<slot.n, slot.id>> \in DOMAIN runs' /\ Knows(slot, runs'[<<slot.n, slot.id>>])
  BY <1>1, <1>3, <1>5 DEF Fits, Same, Knows, Reading, Linked
<1>7. WithResult(slot) => Brings(slot, job'[slot.n], chapter'[slot.n])
  BY <1>1 DEF Same, Brings, WithResult
<1>8. Fits(slot, job', chapter', runs')
  BY <1>1, <1>4, <1>6, <1>7 DEF Fits
<1>. QED
  BY <1>2, <1>8, OneFits

LEMMA WorkerFits ==
  ASSUME StoreTypeOK, SlotsOK, RunsTypeOK, DraftInv, WorkerNext, UNCHANGED runs
  PROVE  DraftInv'
<1>1. DraftsKept /\ SameIds /\ RunsKept /\ SlotsFit
  BY WorkerDrafts, SameRunsKept DEF DraftInv
<1>2. \A w \in Worker : /\ worker[w] \in Slot /\ Placed(worker[w])
                        /\ Fits(worker[w], job, chapter, runs)
  BY <1>1 DEF SlotsOK, WorkerTypeOK, BusyHasChapter, SlotsFit
<1>3. ASSUME NEW w \in Worker, Claim(w)
      PROVE  SlotsFit'
  <2>1. CASE Finish(w)
    BY <1>1, <2>1, FinishFits
  <2>2. ASSUME NEW n \in Chapter,
               worker' = [worker EXCEPT ![w] =
                            [Free("context") EXCEPT !.n = n, !.id = job[n].id, !.plan = job[n].plan]]
        PROVE  SlotsFit'
    <3>. DEFINE slot == [Free("context") EXCEPT !.n = n, !.id = job[n].id, !.plan = job[n].plan]
    <3>1. slot.pc = "context" /\ slot.n = n /\ slot.id = job[n].id
      BY DEF Free
    <3>2. worker' = [worker EXCEPT ![w] = slot]
      BY <2>2
    <3>3. job[n].id \in Nat /\ job'[n].id = job[n].id
      BY <1>1 DEF SameIds, SameId, StoreTypeOK, JobRow
    <3>. HIDE DEF slot
    <3>4. Loose(slot) /\ slot.id <= job'[slot.n].id
      BY <3>1, <3>3 DEF Loose, After
    <3>. QED
      BY <1>1, <3>2, <3>4, LooseFits, OneFits
  <2>. QED
    BY <1>3, <2>1, <2>2 DEF Claim
<1>4. ASSUME NEW w \in Worker, ReadContext(w)
      PROVE  SlotsFit'
  <2>. DEFINE slot == [worker[w] EXCEPT !.pc = "plan", !.paused = novel.paused]
  <2>1. slot.pc = "plan" /\ slot.n = worker[w].n /\ slot.id = worker[w].id
    BY <1>2 DEF Slot
  <2>2. worker' = [worker EXCEPT ![w] = slot] /\ worker[w].pc \in Busy
    BY <1>4 DEF ReadContext, At, Busy
  <2>. HIDE DEF slot
  <2>3. Loose(slot)
    BY <2>1 DEF Loose, After
  <2>. QED
    BY <1>1, <2>1, <2>2, <2>3, LeavesFits
<1>5. ASSUME NEW w \in Worker, StartPlanning(w) \/ VoidChapter(w) \/ StartGenerating(w)
      PROVE  SlotsFit'
  <2>1. worker[w].pc \in Busy /\ (worker[w].pc = "compose" => worker[w].plan = <<>>)
    BY <1>2, <1>5 DEF Fits, StartPlanning, VoidChapter, StartGenerating, At, Busy
  <2>2. \E pc : /\ Goto(w, pc)
                /\ \/ pc \in {"void", "voidjob", "agent"}
                   \/ pc \in {"compose", "call"} /\ worker[w].plan = <<>>
    BY <1>5, <2>1 DEF StartPlanning, VoidChapter, StartGenerating, At
  <2>. QED
    BY <1>1, <2>1, <2>2, GotoFits
<1>6. ASSUME NEW w \in Worker, StartReviewing(w)
      PROVE  SlotsFit'
  <2>1. worker[w].plan = <<>> /\ worker[w].pc \in Busy /\ \E text : Finalize(w, text)
    BY <1>2, <1>6 DEF StartReviewing, At, Fits, Busy
  <2>. QED
    BY <1>1, <2>1, FinalizeFits
<1>7. ASSUME NEW w \in Worker, Save(w)
      PROVE  SlotsFit'
  BY <1>1, <1>7, SaveFits
<1>8. ASSUME NEW w \in Worker, AutoRead(w)
      PROVE  SlotsFit'
  <2>. DEFINE slot == [worker[w] EXCEPT !.pc = "write", !.text = chapter[worker[w].n].body]
  <2>1. slot.pc = "write" /\ Same(slot, worker[w])
    BY <1>2 DEF Slot, Same
  <2>2. worker[w].pc = "export" /\ worker[w].pc \in Busy
    BY <1>8 DEF AutoRead, At, Busy
  <2>3. worker' = [worker EXCEPT ![w] = slot] \/ ReadAttempts(w, MaxAttempts, "loop")
    BY <1>8 DEF AutoRead
  <2>. HIDE DEF slot
  <2>4. CASE worker' = [worker EXCEPT ![w] = slot]
    <3>1. Linked(slot) => Linked(worker[w]) /\ worker[w].pc \notin Reading
      BY <2>1, <2>2 DEF Same, Linked, WithResult, After, Reading
    <3>2. WithResult(slot) => WithResult(worker[w]) /\ worker[w].pc # "save" /\ slot.pc # "save"
      BY <2>1, <2>2 DEF Same, WithResult, After
    <3>. QED
      BY <1>1, <2>1, <2>2, <2>4, <3>1, <3>2, GoesOnFits
  <2>. QED
    BY <1>1, <2>2, <2>3, <2>4, AttemptsFits
<1>9. ASSUME NEW w \in Worker, AutoWrite(w)
      PROVE  SlotsFit'
  <2>1. worker[w].pc = "write" /\ (Finish(w) \/ Goto(w, "mark"))
    BY <1>9 DEF AutoWrite, At, Finalized
  <2>2. worker[w].pc \in Busy /\ {"write", "mark"} \subseteq After \ {"save"}
    BY <2>1 DEF Busy, After
  <2>. QED
    BY <1>1, <2>1, <2>2, FinishFits, GotoFits
<1>10. ASSUME NEW w \in Worker, VoidTheJob(w) \/ CallFails(w) \/ WriteFailure(w) \/ Raise(w)
       PROVE  SlotsFit'
  <2>1. /\ worker[w].pc \in Busy
        /\ \/ Finish(w) \/ Goto(w, "abort")
           \/ \E limit, by : ReadAttempts(w, limit, by)
    BY <1>10 DEF VoidTheJob, CallFails, WriteFailure, Raise, At, Busy
  <2>. QED
    BY <1>1, <2>1, FinishFits, GotoFits, AttemptsFits
<1>11. ASSUME NEW p \in Process, Kill(p) \/ NextPass(p)
       PROVE  SlotsFit'
  <2>1. \A w \in Worker : worker'[w] = Free("ready") \/ worker'[w] = worker[w]
    BY <1>11 DEF Kill, NextPass
  <2>2. \A w \in Worker : Fits(worker[w], job', chapter', runs')
    BY <1>1, <1>2, FitsKept
  <2>. QED
    BY <2>1, <2>2, FreeFits DEF SlotsFit
<1>12. ASSUME UNCHANGED worker
       PROVE  SlotsFit'
  BY <1>1, <1>2, <1>12, FitsKept DEF SlotsFit
<1>13. ASSUME NEW n \in Chapter, BackoffElapses(n) \/ LeaseLapses(n) \/ Overrun(n)
       PROVE  UNCHANGED worker
  BY <1>13 DEF BackoffElapses, LeaseLapses, Overrun, Lapse, workerVars
<1>14. SlotsFit'
  BY <1>3, <1>4, <1>5, <1>6, <1>7, <1>8, <1>9, <1>10, <1>11, <1>12, <1>13 DEF WorkerNext, Work
<1>. QED
  BY <1>1, <1>14, NumbersKept, RunsStay DEF DraftInv

-----------------------------------------------------------------------------
(* Steps of the pipeline *)

LEMMA GoalFacts ==
  ASSUME EndsWritten, NEW plan \in Plans, plan # <<>>
  PROVE  /\ Len(plan) \in Nat \ {0} /\ DOMAIN plan = 1 .. Len(plan)
         /\ Goal(plan) \in StageName /\ Goal(plan) = Final(plan)
         /\ \A i \in DOMAIN plan : plan[i] \in StageName
         /\ \A i \in DOMAIN plan : plan[i] = Goal(plan) => i = Len(plan)
<1>1. plan \in Seq(StageName) /\ Len(plan) \in Nat /\ DOMAIN plan = 1 .. Len(plan)
  BY PlanAssumption
<1>2. Len(plan) # 0
  BY <1>1
<1>3. Len(plan) \in DOMAIN plan
  BY <1>1, <1>2
<1>4. \A i \in DOMAIN plan : plan[i] = Goal(plan) => i = Len(plan)
  BY <1>1, <1>3 DEF EndsWritten, Goal
<1>5. Goal(plan) = Final(plan)
  <2>. DEFINE Last(i) == /\ plan[i] \in {"chapter", "polish"}
                         /\ \A j \in DOMAIN plan : j > i => plan[j] = "outline"
  <2>1. Last(Len(plan))
    BY <1>1 DEF EndsWritten
  <2>2. ASSUME NEW i \in DOMAIN plan, Last(i)
        PROVE  i = Len(plan)
    <3>1. i <= Len(plan) /\ (Len(plan) > i => plan[Len(plan)] = "outline")
      BY <1>1, <1>3, <2>2
    <3>. QED
      BY <1>1, <2>1, <3>1
  <2>3. (CHOOSE i \in DOMAIN plan : Last(i)) = Len(plan)
    BY <1>3, <2>1, <2>2
  <2>. QED
    BY <2>3 DEF Final, Goal
<1>. QED
  BY <1>1, <1>2, <1>3, <1>4, <1>5 DEF Goal

(* A run row changes. *)
LEMMA OneRun ==
  ASSUME StoreTypeOK, RunsTypeOK, DraftsKept, RunsDeliver, NEW k \in DOMAIN runs, NEW row,
         UpdateRun(k, row), RunKept(runs[k], row), Complete(row),
         Delivers(k, row, job[k[1]], chapter[k[1]])
  PROVE  RunsKept /\ RunsDeliver' /\ runs'[k] = row
<1>1. DOMAIN runs' = DOMAIN runs /\ \A j \in DOMAIN runs : runs'[j] = IF j = k THEN row ELSE runs[j]
  BY DEF UpdateRun
<1>2. RunsKept
  BY <1>1 DEF RunsKept, RunKept
<1>3. \A j \in DOMAIN runs :
        j \in JobId /\ Complete(runs'[j]) /\ Delivers(j, runs'[j], job[j[1]], chapter[j[1]])
  BY <1>1 DEF RunsTypeOK, RunsDeliver
<1>4. \A j \in DOMAIN runs : Delivers(j, runs'[j], job'[j[1]], chapter'[j[1]])
  BY <1>3, DeliversKept
<1>. QED
  BY <1>1, <1>2, <1>3, <1>4 DEF RunsDeliver

(* A stage of the plan begins, or the run ends. *)
LEMMA StartedKeeps ==
  ASSUME NEW run \in Run, Complete(run), NEW s \in StageName
  PROVE  LET new == Started(run, s) IN
         Complete(new) /\ RunKept(run, new) /\ new.status = "RUNNING"
<1>. DEFINE new == Started(run, s)
<1>1. /\ new.stages = run.stages /\ new.saved = run.saved /\ new.memory = run.memory
      /\ new.status = "RUNNING"
      /\ \A t \in StageName : new.state[t] = "DONE" => run.state[t] = "DONE"
  BY DEF Started, Run
<1>. HIDE DEF new
<1>2. Complete(new) /\ RunKept(run, new)
  BY <1>1 DEF Complete, RunKept
<1>. QED
  BY <1>1, <1>2 DEF new

LEMMA EndedKeeps ==
  ASSUME NEW run \in Run, Complete(run), NEW status,
         status = "SUCCEEDED" => Goal(run.stages) \in run.saved
  PROVE  LET new == [run EXCEPT !.status = status] IN
         /\ Complete(new) /\ RunKept(run, new) /\ new.status = status
         /\ new.stages = run.stages /\ new.memory = run.memory
<1>. DEFINE new == [run EXCEPT !.status = status]
<1>1. /\ new.stages = run.stages /\ new.saved = run.saved /\ new.memory = run.memory
      /\ new.status = status /\ new.state = run.state
  BY DEF Run
<1>. HIDE DEF new
<1>2. Complete(new) /\ RunKept(run, new)
  BY <1>1 DEF Complete, RunKept
<1>. QED
  BY <1>1, <1>2 DEF new

(* A slot that knows the run saves a stage that has no checkpoint yet.  If  *)
(* it is the result, all the others have theirs; if it is not, neither has  *)
(* the result, and the memory of the slot is without it.                    *)
LEMMA SavedKeeps ==
  ASSUME EndsWritten, NEW run \in Run, Complete(run), NEW slot \in Slot, Knows(slot, run),
         slot.pc = "model", NEW i \in DOMAIN slot.plan, i = slot.at,
         slot.plan[i] \notin run.saved, NEW output \in Body
  PROVE  LET memory == [slot.memory EXCEPT ![slot.plan[i]] = output]
             new == Saved(run, slot.plan[i], memory) IN
         /\ Complete(new) /\ RunKept(run, new) /\ new.status # "SUCCEEDED"
         /\ new.memory = memory /\ new.stages = slot.plan
         /\ \A j \in 1 .. i : slot.plan[j] \in new.saved
<1>. DEFINE plan == slot.plan
           goal == Goal(plan)
           s == plan[i]
           memory == [slot.memory EXCEPT ![s] = output]
           new == Saved(run, s, memory)
<1>1. plan \in Plans /\ plan # <<>> /\ run.stages = plan
  BY DEF Slot, Knows, Complete
<1>2. /\ Len(plan) \in Nat \ {0} /\ DOMAIN plan = 1 .. Len(plan)
      /\ goal \in StageName /\ s \in StageName /\ (s = goal => i = Len(plan))
      /\ i \in 1 .. Len(plan)
  BY <1>1, GoalFacts
<1>3. /\ slot.memory[goal] # NoBody => goal \in run.saved
      /\ \A j \in 1 .. i - 1 : plan[j] \in run.saved
  BY DEF Knows, Reading
<1>4. goal \notin run.saved
  BY <1>1 DEF Complete
<1>5. /\ new.stages = plan /\ new.saved = run.saved \cup {s} /\ new.memory = memory
      /\ new.status = run.status
      /\ \A t \in StageName : new.state[t] = "DONE" => t = s \/ run.state[t] = "DONE"
  BY <1>1 DEF Saved, Run
<1>6. memory[goal] # NoBody => s = goal
  <2>1. slot.memory \in [StageName -> Text]
    BY DEF Slot, Memory
  <2>. QED
    BY <1>2, <1>3, <1>4, <2>1
<1>. HIDE DEF plan, goal, s, memory, new
<1>7. \A j \in 1 .. i : plan[j] \in new.saved
  <2>1. \A j \in 1 .. i : j = i \/ j \in 1 .. i - 1
    BY <1>2
  <2>. QED
    BY <1>3, <1>5, <2>1 DEF s
<1>8. run.status # "SUCCEEDED"
  BY <1>1, <1>4 DEF Complete, goal
<1>9. Complete(new)
  <2>1. goal \in new.saved => s = goal
    BY <1>4, <1>5
  <2>2. goal \in new.saved => \A j \in DOMAIN plan : plan[j] \in new.saved
    BY <1>2, <1>7, <2>1
  <2>3. \A t \in StageName : new.state[t] = "DONE" => t \in new.saved
    BY <1>5 DEF Complete
  <2>4. new.memory[goal] # NoBody => goal \in new.saved
    BY <1>5, <1>6
  <2>. QED
    BY <1>1, <1>5, <1>8, <2>2, <2>3, <2>4 DEF Complete, goal
<1>10. RunKept(run, new)
  BY <1>1, <1>4, <1>5 DEF RunKept, goal
<1>. QED
  BY <1>5, <1>7, <1>8, <1>9, <1>10 DEF plan, s, memory, new

LEMMA GoOnFits ==
  ASSUME StoreTypeOK, SlotsOK, DraftsKept, RunsKept, SlotsFit, NEW w \in Worker,
         worker[w].pc \in Busy, NEW i, NEW memory, GoOn(w, i, memory),
         KeyOf(w) \in DOMAIN runs', NEW run, run = runs'[KeyOf(w)], run.stages = worker[w].plan,
         memory[Goal(run.stages)] # NoBody =>
           /\ Goal(run.stages) \in run.saved
           /\ memory[Goal(run.stages)] = run.memory[Goal(run.stages)],
         \A j \in 1 .. i - 1 : run.stages[j] \in run.saved
  PROVE  SlotsFit'
<1>. DEFINE pc   == IF i > Len(worker[w].plan) THEN "drafted" ELSE "stage"
           slot == [worker[w] EXCEPT !.pc = pc, !.at = i, !.memory = memory]
<1>1. /\ slot.n = worker[w].n /\ slot.id = worker[w].id /\ slot.plan = worker[w].plan
      /\ slot.at = i /\ slot.memory = memory /\ slot.pc \in {"drafted", "stage"}
  BY DEF SlotsOK, WorkerTypeOK, Slot
<1>2. worker' = [worker EXCEPT ![w] = slot]
  BY DEF GoOn, Stages
<1>. HIDE DEF slot
<1>3. slot.id <= job'[slot.n].id
  <2>1. Fits(worker[w], job', chapter', runs')
    BY FitsKept DEF SlotsOK, WorkerTypeOK, BusyHasChapter, SlotsFit
  <2>. QED
    BY <1>1, <2>1 DEF Fits
<1>4. <<slot.n, slot.id>> = KeyOf(w) /\ ~WithResult(slot)
  BY <1>1 DEF KeyOf, WithResult, After
<1>5. Knows(slot, run)
  BY <1>1 DEF Knows
<1>6. Fits(slot, job', chapter', runs')
  BY <1>1, <1>3, <1>4, <1>5 DEF Fits
<1>. QED
  BY <1>2, <1>6, OneFits

LEMMA PipelineFits ==
  ASSUME EndsWritten, StoreTypeOK, SlotsOK, RunsTypeOK, DraftInv, NEW w \in Worker, Pipeline(w)
  PROVE  DraftInv'
<1>. DEFINE slot == worker[w]
           k == <<slot.n, slot.id>>
           run == runs[k]
<1>1. DraftsKept /\ UNCHANGED job /\ SlotsFit /\ RunsDeliver /\ JobsNumbered
  BY PipelineDrafts DEF DraftInv
<1>2. /\ slot \in Slot /\ Placed(slot) /\ Fits(slot, job, chapter, runs)
      /\ KeyOf(w) = k
  BY <1>1 DEF SlotsOK, WorkerTypeOK, BusyHasChapter, SlotsFit, KeyOf
<1>3. slot.pc \in Busy
  BY DEF Pipeline, FindRun, LoadMemory, Resume, CreateRun, StartStage, FinishStage, StageFails,
     Abort, StartFinalize, NoResult, MarkSucceeded, At, Busy
<1>4. slot.n \in Chapter /\ slot.id \in Nat /\ slot.plan \in Plans /\ slot.id <= job[slot.n].id
  BY <1>2, <1>3 DEF Placed, Fits, Slot
<1>5. Linked(slot) => /\ k \in DOMAIN runs /\ run \in Run /\ Complete(run) /\ Knows(slot, run)
                      /\ Delivers(k, run, job[slot.n], chapter[slot.n])
  BY <1>1, <1>2 DEF Fits, RunsTypeOK, RunsDeliver
<1>6. ASSUME RunsKept, RunsDeliver', SlotsFit'
      PROVE  DraftInv'
  BY <1>1, <1>6, NumbersKept DEF DraftInv
<1>7. ASSUME UNCHANGED runs, RunsKept => SlotsFit'
      PROVE  DraftInv'
  BY <1>1, <1>6, <1>7, SameRunsKept, RunsStay
<1>. HIDE DEF slot, k, run
<1>8. CASE FindRun(w)
  <2>1. ASSUME Goto(w, "load"), Resumable(w), RunsKept, UNCHANGED runs
        PROVE  SlotsFit'
    <3>. DEFINE next == [slot EXCEPT !.pc = "load"]
    <3>1. next.pc = "load" /\ Same(next, slot)
      BY <1>2 DEF Slot, Same
    <3>2. worker' = [worker EXCEPT ![w] = next]
      BY <2>1 DEF Goto, slot
    <3>. HIDE DEF next
    <3>3. k \in DOMAIN runs' /\ Knows(next, runs'[k]) /\ <<next.n, next.id>> = k
      BY <1>2, <2>1, <3>1 DEF Resumable, Existent, Stages, Knows, Reading, Same, slot, k
    <3>4. ~WithResult(next) /\ next.id <= job'[next.n].id
      BY <1>1, <1>4, <3>1 DEF WithResult, After, Same
    <3>5. Fits(next, job', chapter', runs')
      BY <3>1, <3>3, <3>4 DEF Fits
    <3>. QED
      BY <1>1, <2>1, <3>2, <3>5, OneFits
  <2>2. RunsKept => SlotsFit'
    BY <1>1, <1>3, <1>8, <2>1, FinishFits, GotoFits DEF FindRun, slot
  <2>. QED
    BY <1>7, <1>8, <2>2 DEF FindRun
<1>9. CASE LoadMemory(w)
  <2>1. slot.pc = "load" /\ UNCHANGED runs
    BY <1>9 DEF LoadMemory, At, slot
  <2>2. k \in DOMAIN runs /\ Complete(run) /\ run.stages = slot.plan
    BY <1>5, <2>1 DEF Linked, Knows
  <2>. DEFINE next == [slot EXCEPT !.pc = "resume", !.memory = run.memory]
  <2>3. /\ next.pc = "resume" /\ next.memory = run.memory /\ next.plan = slot.plan
        /\ next.n = slot.n /\ next.id = slot.id
    BY <1>2 DEF Slot
  <2>4. worker' = [worker EXCEPT ![w] = next]
    BY <1>2, <1>9 DEF LoadMemory, Loaded, slot, run
  <2>. HIDE DEF next
  <2>5. Knows(next, run)
    BY <2>2, <2>3 DEF Knows, Reading, Complete
  <2>6. Fits(next, job', chapter', runs')
    BY <1>1, <1>4, <2>1, <2>2, <2>3, <2>5 DEF Fits, WithResult, After, k, run
  <2>. QED
    BY <1>1, <1>7, <2>1, <2>4, <2>6, OneFits
<1>10. CASE Resume(w)
  <2>. DEFINE i == ResumeFrom(run, slot.plan)
  <2>1. slot.pc = "resume" /\ UNCHANGED runs /\ GoOn(w, i, slot.memory)
    BY <1>2, <1>10 DEF Resume, At, Stages, slot, run
  <2>2. k \in DOMAIN runs /\ run \in Run /\ Complete(run) /\ Knows(slot, run)
    BY <1>5, <2>1 DEF Linked
  <2>3. /\ slot.plan \in Seq(StageName) /\ Len(slot.plan) \in Nat /\ i \in 1 .. Len(slot.plan) + 1
        /\ \A j \in 1 .. i - 1 : run.state[slot.plan[j]] = "DONE"
    BY <1>4, PlanAssumption, ResumeFromFirst
  <2>4. /\ run.stages = slot.plan
        /\ slot.memory[Goal(run.stages)] # NoBody =>
             /\ Goal(run.stages) \in run.saved
             /\ slot.memory[Goal(run.stages)] = run.memory[Goal(run.stages)]
    BY <2>1, <2>2 DEF Knows
  <2>. HIDE DEF i
  <2>5. \A j \in 1 .. i - 1 : run.stages[j] \in run.saved
    <3>1. \A j \in 1 .. i - 1 : slot.plan[j] \in StageName
      BY <2>3
    <3>. QED
      BY <2>2, <2>3, <2>4, <3>1 DEF Complete
  <2>6. run = runs'[KeyOf(w)] /\ KeyOf(w) \in DOMAIN runs'
    BY <1>2, <2>1, <2>2 DEF run
  <2>7. RunsKept => SlotsFit'
    BY <1>1, <1>3, <2>1, <2>4, <2>5, <2>6, GoOnFits DEF slot
  <2>. QED
    BY <1>7, <2>1, <2>7
<1>11. CASE CreateRun(w)
  <2>1. CASE Crash(w) /\ UNCHANGED runs
    <3>1. RunsKept => SlotsFit'
      BY <1>1, <1>3, <2>1, AttemptsFits DEF Crash, slot
    <3>. QED
      BY <1>7, <2>1, <3>1
  <2>2. CASE ~Existent(w) /\ InsertRun(k, slot.plan) /\ GoOn(w, 1, NoMemory)
    <3>. DEFINE row == [status |-> "PENDING", stages |-> slot.plan,
                       state |-> [s \in StageName |-> "NONE"], saved |-> {},
                       memory |-> NoMemory]
    <3>1. slot.plan # <<>>
      BY <1>2, <1>11 DEF CreateRun, At, Placed, Piped, slot
    <3>2. Goal(slot.plan) \in StageName
      BY <1>4, <3>1, GoalFacts
    <3>3. NoMemory[Goal(slot.plan)] = NoBody
      BY <3>2 DEF NoMemory
    <3>4. Complete(row) /\ row.stages = slot.plan
      BY <3>1, <3>3 DEF Complete
    <3>5. row.status # "SUCCEEDED"
      OBVIOUS
    <3>6. runs' = [j \in DOMAIN runs \cup {k} |-> IF j = k THEN row ELSE runs[j]]
      BY <2>2 DEF InsertRun
    <3>. HIDE DEF row
    <3>7. k \notin DOMAIN runs /\ k[1] = slot.n /\ k[2] = slot.id
      BY <1>2, <2>2 DEF Existent, k
    <3>8. Delivers(k, row, job'[k[1]], chapter'[k[1]])
      BY <1>1, <1>4, <3>5, <3>7 DEF Delivers
    <3>9. \A j \in DOMAIN runs : runs'[j] = runs[j] /\ j \in DOMAIN runs'
      BY <3>6, <3>7
    <3>10. RunsKept
      BY <3>9 DEF RunsKept, RunKept
    <3>11. \A j \in DOMAIN runs :
             Complete(runs[j]) /\ Delivers(j, runs[j], job'[j[1]], chapter'[j[1]])
      <4>1. \A j \in DOMAIN runs : j \in JobId
        BY DEF RunsTypeOK
      <4>. QED
        BY <1>1, <4>1, DeliversKept DEF RunsDeliver
    <3>12. RunsDeliver'
      BY <3>4, <3>6, <3>8, <3>11 DEF RunsDeliver
    <3>13. row = runs'[KeyOf(w)] /\ KeyOf(w) \in DOMAIN runs'
      BY <1>2, <3>6
    <3>14. SlotsFit'
      BY <1>1, <1>3, <2>2, <3>3, <3>4, <3>10, <3>13, GoOnFits DEF slot
    <3>. QED
      BY <1>6, <3>10, <3>12, <3>14
  <2>. QED
    BY <1>2, <1>11, <2>1, <2>2 DEF CreateRun, Stages, slot
<1>12. CASE StartStage(w)
  <2>1. slot.pc = "stage" /\ Goto(w, "model") /\ UpdateRun(k, Started(run, Current(w)))
    BY <1>2, <1>12 DEF StartStage, At, slot, run
  <2>2. k \in DOMAIN runs /\ run \in Run /\ Complete(run)
    BY <1>5, <2>1 DEF Linked
  <2>3. Current(w) \in StageName
    <3>1. slot.plan \in Seq(StageName) /\ slot.at \in DOMAIN slot.plan
      BY <1>2, <1>4, <2>1, PlanAssumption DEF Placed, InStage
    <3>. QED
      BY <3>1 DEF Current, Stages, slot
  <2>. DEFINE new == Started(run, Current(w))
  <2>4. Complete(new) /\ RunKept(run, new) /\ new.status # "SUCCEEDED"
    BY <2>2, <2>3, StartedKeeps
  <2>. HIDE DEF new
  <2>5. Delivers(k, new, job[k[1]], chapter[k[1]])
    BY <1>4, <2>4 DEF Delivers, k
  <2>6. UpdateRun(k, new) /\ RunKept(runs[k], new)
    BY <2>1, <2>4 DEF new, run
  <2>7. RunsKept /\ RunsDeliver'
    BY <1>1, <2>2, <2>4, <2>5, <2>6, OneRun
  <2>8. SlotsFit'
    BY <1>1, <1>3, <2>1, <2>7, GotoFits DEF slot
  <2>. QED
    BY <1>6, <2>7, <2>8
<1>13. CASE FinishStage(w)
  <2>1. slot.pc = "model" /\ Current(w) = slot.plan[slot.at]
    BY <1>13 DEF FinishStage, At, Current, Stages, slot
  <2>2. CASE Crash(w) /\ UNCHANGED runs
    <3>1. RunsKept => SlotsFit'
      BY <1>1, <1>3, <2>2, AttemptsFits DEF Crash, slot
    <3>. QED
      BY <1>7, <2>2, <3>1
  <2>3. ASSUME Current(w) \notin run.saved, NEW output \in Body, NEW memory,
               memory = [slot.memory EXCEPT ![Current(w)] = output],
               UpdateRun(k, Saved(run, Current(w), memory)), GoOn(w, slot.at + 1, memory)
        PROVE  DraftInv'
    <3>1. k \in DOMAIN runs /\ run \in Run /\ Complete(run) /\ Knows(slot, run)
      BY <1>5, <2>1 DEF Linked
    <3>2. slot.at \in DOMAIN slot.plan /\ slot.at \in Nat
      BY <1>2, <2>1 DEF Placed, InStage, Slot
    <3>. DEFINE new == Saved(run, Current(w), memory)
    <3>3. /\ Complete(new) /\ RunKept(run, new) /\ new.status # "SUCCEEDED"
          /\ new.memory = memory /\ new.stages = slot.plan
          /\ \A j \in 1 .. slot.at : slot.plan[j] \in new.saved
      BY <1>2, <2>1, <2>3, <3>1, <3>2, SavedKeeps
    <3>4. UpdateRun(k, new)
      BY <2>3
    <3>. HIDE DEF new
    <3>5. Delivers(k, new, job[k[1]], chapter[k[1]])
      BY <1>4, <3>3 DEF Delivers, k
    <3>6. RunsKept /\ RunsDeliver' /\ runs'[k] = new
      BY <1>1, <3>1, <3>3, <3>4, <3>5, OneRun DEF run
    <3>7. KeyOf(w) \in DOMAIN runs' /\ new = runs'[KeyOf(w)]
      BY <1>2, <3>1, <3>6 DEF RunsKept
    <3>8. memory[Goal(new.stages)] # NoBody =>
            /\ Goal(new.stages) \in new.saved
            /\ memory[Goal(new.stages)] = new.memory[Goal(new.stages)]
      BY <3>3 DEF Complete
    <3>9. \A j \in 1 .. (slot.at + 1) - 1 : new.stages[j] \in new.saved
      BY <3>2, <3>3
    <3>10. SlotsFit'
      BY <1>1, <1>3, <2>3, <3>3, <3>6, <3>7, <3>8, <3>9, GoOnFits DEF slot
    <3>. QED
      BY <1>6, <3>6, <3>10
  <2>. QED
    BY <1>2, <1>13, <2>2, <2>3 DEF FinishStage, slot, run
<1>14. CASE StageFails(w) \/ Abort(w)
  <2>1. UNCHANGED runs /\ \E limit, by : ReadAttempts(w, limit, by)
    BY <1>14 DEF StageFails, Abort, Crash
  <2>2. RunsKept => SlotsFit'
    BY <1>1, <1>3, <2>1, AttemptsFits DEF slot
  <2>. QED
    BY <1>7, <2>1, <2>2
<1>15. CASE StartFinalize(w)
  <2>1. /\ UNCHANGED runs /\ slot.pc = "drafted"
        /\ slot.memory[Final(slot.plan)] # NoBody /\ Finalize(w, slot.memory[Final(slot.plan)])
    BY <1>15 DEF StartFinalize, At, Stages, slot
  <2>2. Final(slot.plan) = Goal(slot.plan)
    BY <1>2, <1>4, <2>1, GoalFacts DEF Placed, Piped
  <2>3. RunsKept => SlotsFit'
    BY <1>1, <1>3, <2>1, <2>2, FinalizeFits DEF slot
  <2>. QED
    BY <1>7, <2>1, <2>3
<1>16. CASE NoResult(w) \/ MarkSucceeded(w)
  <2>1. PICK status : /\ UpdateRun(k, [run EXCEPT !.status = status])
                      /\ status = "SUCCEEDED" => slot.pc = "mark"
                      /\ slot.pc \in {"drafted", "mark"} /\ Finish(w)
    BY <1>2, <1>16 DEF NoResult, MarkSucceeded, At, slot, run
  <2>2. slot.plan # <<>> /\ Linked(slot)
    BY <1>2, <2>1 DEF Placed, Piped, Linked, WithResult, After
  <2>3. /\ k \in DOMAIN runs /\ run \in Run /\ Complete(run) /\ Knows(slot, run)
        /\ Delivers(k, run, job[slot.n], chapter[slot.n])
    BY <1>5, <2>2
  <2>4. status = "SUCCEEDED" =>
          /\ Goal(run.stages) \in run.saved
          /\ slot.id = job[slot.n].id => IsDraft(chapter[slot.n], run.memory[Goal(run.stages)])
    <3>1. status = "SUCCEEDED" => WithResult(slot) /\ Brings(slot, job[slot.n], chapter[slot.n])
      BY <1>2, <2>1, <2>2 DEF Fits, WithResult, After
    <3>. QED
      BY <2>1, <2>3, <3>1 DEF Knows, Brings
  <2>. DEFINE new == [run EXCEPT !.status = status]
  <2>5. /\ Complete(new) /\ RunKept(run, new) /\ new.status = status
        /\ new.stages = run.stages /\ new.memory = run.memory
    BY <2>3, <2>4, EndedKeeps
  <2>6. UpdateRun(k, new)
    BY <2>1
  <2>. HIDE DEF new
  <2>7. Delivers(k, new, job[k[1]], chapter[k[1]])
    BY <1>4, <2>4, <2>5 DEF Delivers, k
  <2>8. RunsKept /\ RunsDeliver'
    BY <1>1, <2>3, <2>5, <2>6, <2>7, OneRun DEF run
  <2>9. SlotsFit'
    BY <1>1, <2>1, <2>8, FinishFits
  <2>. QED
    BY <1>6, <2>8, <2>9
<1>. QED
  BY <1>8, <1>9, <1>10, <1>11, <1>12, <1>13, <1>14, <1>15, <1>16 DEF Pipeline

-----------------------------------------------------------------------------
(* The results *)

LEMMA DraftInvInit == Init => DraftInv
<1>. SUFFICES ASSUME Init PROVE DraftInv
  OBVIOUS
<1>1. \A w \in Worker : Fits(worker[w], job, chapter, runs)
  BY FreeFits DEF Init, WorkerInit
<1>2. JobsNumbered
  BY DEF Init, StoreInit, NoJob, JobsNumbered, Numbered
<1>. QED
  BY <1>1, <1>2 DEF Init, RunsInit, DraftInv, RunsDeliver, SlotsFit

LEMMA DraftInvNext ==
  ASSUME EndsWritten
  PROVE  TypeInv /\ DraftInv /\ [Next]_vars => DraftInv'
<1>. SUFFICES ASSUME TypeInv, DraftInv, [Next]_vars
             PROVE  DraftInv'
  OBVIOUS
<1>1. StoreTypeOK /\ SlotsOK /\ ThreadsOK /\ RunsTypeOK
  BY DEF TypeInv
<1>2. CASE UNCHANGED vars
  <2>1. UNCHANGED <<job, chapter, worker, runs>>
    BY <1>2 DEF vars, storeVars, queueVars, textVars, workerVars
  <2>. QED
    BY <2>1 DEF DraftInv, JobsNumbered, RunsDeliver, SlotsFit
<1>3. CASE WorkerNext /\ UNCHANGED runs
  BY <1>1, <1>3, WorkerFits
<1>4. CASE \E w \in Worker : Pipeline(w)
  BY <1>1, <1>4, PipelineFits
<1>5. CASE ConsoleNext /\ UNCHANGED <<workerVars, runs>>
  <2>1. DraftsKept /\ RunsKept /\ RunsDeliver /\ SlotsFit
    BY <1>1, <1>5, ConsoleDrafts, SameRunsKept DEF DraftInv
  <2>2. \A w \in Worker : Fits(worker[w], job', chapter', runs')
    BY <1>1, <2>1, FitsKept DEF SlotsOK, WorkerTypeOK, BusyHasChapter, SlotsFit
  <2>3. SlotsFit'
    BY <1>5, <2>2 DEF SlotsFit, workerVars
  <2>. QED
    BY <1>1, <1>5, <2>1, <2>3, NumbersKept, RunsStay DEF DraftInv
<1>. QED
  BY <1>2, <1>3, <1>4, <1>5 DEF Next

(* With any number of slots: a run that has SUCCEEDED, which ends every     *)
(* further try of its job, has its result among the drafts of the chapter,  *)
(* whichever slots ran its stages.                                          *)
THEOREM ResultsAreDrafts ==
  ASSUME EndsWritten
  PROVE  Spec => []SucceededWasDrafted
<1>1. TypeInv /\ DraftInv => SucceededWasDrafted
  <2>. SUFFICES ASSUME TypeInv, DraftInv, NEW k \in DOMAIN runs,
                      runs[k].status = "SUCCEEDED", k[2] = job[k[1]].id
               PROVE  IsDraft(chapter[k[1]], runs[k].memory[Final(runs[k].stages)])
    BY DEF SucceededWasDrafted, IsDraft
  <2>1. runs[k].stages \in Plans /\ runs[k].stages # <<>>
    BY DEF TypeInv, RunsTypeOK, Run, DraftInv, RunsDeliver, Complete
  <2>2. Final(runs[k].stages) = Goal(runs[k].stages)
    BY <2>1, GoalFacts
  <2>. QED
    BY <2>2 DEF DraftInv, RunsDeliver, Delivers
<1>2. TypeInv /\ DraftInv /\ [Next]_vars => DraftInv'
  BY DraftInvNext
<1>. QED
  BY <1>1, <1>2, DraftInvInit, TypeInvAlways, PTL DEF Spec

=============================================================================
