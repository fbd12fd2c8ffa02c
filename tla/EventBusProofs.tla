--------------------------- MODULE EventBusProofs ---------------------------
(***************************************************************************)
(* Proofs about EventBus: its types, that no event is written before what it *)
(* announces is in the database, and what becomes of the text of the model.  *)
(*                                                                         *)
(* The second is proved from what holds of the events a slot has still to    *)
(* emit (they hold already), and from BusyInv: a job is in one slot at a     *)
(* time, and a job whose run has succeeded is never taken up again.  The     *)
(* last is proved from TextInv: the text in the table, what a slot holds of  *)
(* it and the piece it gets next follow one another.                        *)
(***************************************************************************)
EXTENDS EventBus, SequenceTheorems, FiniteSetTheorems, TLAPS

StageNames == {"outline", "chapter", "polish"}
Types ==
  {"chapter.status", "agent.run", "agent.stage", "checkpoint.saved", "llm.delta", "llm.text",
   "chapter.ready"}
Notes == {"", "PLANNING", "GENERATING", "CANCELLED", "RUNNING", "SUCCEEDED", "running", "done"}
PieceType == [job : Job, try : Nat, stage : StageNames, call : Nat, at : Nat]
EventType ==
  [novel : Novel, job : Job, type : Types, stage : StageNames \cup {""}, note : Notes,
   pieces : Seq(PieceType), try : Nat]
Working == {"planned", "stage", "call", "stream", "answer", "text", "finalize"}
SlotType ==
  [pc : Working \cup {"idle", "succeed"}, job : Job \cup {"none"}, call : Nat, got : Nat,
   ask : {1, 2}]

(* A row, and a row to be written, is of its job's novel. *)
OfItsNovel(es) == \A k \in DOMAIN es : es[k].novel = NovelOf[es[k].job]

TableInv ==
  /\ events \in Seq(EventType) /\ OfItsNovel(events)
  /\ gone \subseteq DOMAIN events
  /\ faults \in 0..MaxFaults

OutInv ==
  /\ out \in [Slot -> Seq(EventType)] /\ \A w \in Slot : OfItsNovel(out[w])
  /\ buf \in [Slot -> Seq(PieceType)]

JobInv ==
  /\ jobs \in [Job -> {"pending", "running", "ended"}] /\ tries \in [Job -> Nat]
  /\ runs \in [Job -> {"none", "RUNNING", "SUCCEEDED"}]
  /\ marked \in [Job -> Nat] /\ (\A j \in Job : marked[j] <= Len(Plan[j]))
  /\ drafted \subseteq Job

(* In a slot that asks for a stage, the stage is not done yet. *)
SlotInv ==
  /\ slot \in [Slot -> SlotType]
  /\ \A w \in Slot : slot[w].pc # "idle" => slot[w].job \in Job
  /\ \A w \in Slot :
       slot[w].pc \in {"call", "stream", "answer"} =>
         Compose(slot[w].job) \/ marked[slot[w].job] < Len(Plan[slot[w].job])

(* A job is in at most one slot, which has claimed it; it is over when its   *)
(* run has succeeded.                                                        *)
BusyInv ==
  /\ \A w \in Slot : slot[w].pc \in Working => jobs[slot[w].job] = "running"
  /\ \A w \in Slot :
       slot[w].pc = "succeed" => jobs[slot[w].job] = "ended" /\ slot[w].job \in drafted
  /\ \A w, v \in Slot :
       slot[w].pc # "idle" /\ slot[v].pc # "idle" /\ slot[w].job = slot[v].job => w = v
  /\ \A j \in Job : runs[j] = "SUCCEEDED" => jobs[j] = "ended"

TypeInv == TableInv /\ OutInv /\ JobInv /\ SlotInv
BusInv == TypeInv /\ BusyInv

LEMMA PlanLength == \A j \in Job : Len(Plan[j]) \in Nat
  BY PlanAssumption

(* The stage a slot works on has a name. *)
LEMMA StageTyped ==
  ASSUME JobInv, NEW j \in Job, Compose(j) \/ marked[j] < Len(Plan[j])
  PROVE  StageOf(j) \in StageNames
<1>1. CASE Compose(j)
  BY <1>1 DEF StageOf, StageNames
<1>2. CASE ~Compose(j)
  <2>1. marked[j] + 1 \in 1..Len(Plan[j])
    BY <1>2, PlanLength DEF JobInv
  <2>2. Plan[j][marked[j] + 1] \in {"outline", "chapter", "polish"}
    BY <2>1, PlanAssumption
  <2> QED
    BY <1>2, <2>2 DEF StageOf, StageNames
<1> QED
  BY <1>1, <1>2

(* What a row of a job is made of. *)
LEMMA RowParts ==
  ASSUME JobInv, NEW j \in Job
  PROVE  <<>> \in Seq(PieceType) /\ tries[j] \in Nat /\ NovelOf[j] \in Novel
BY EmptySeq, NovelOfAssumption DEF JobInv

LEMMA DeltaTyped ==
  ASSUME JobInv, SlotInv, NEW w \in Slot, slot[w].pc = "stream", NEW pieces \in Seq(PieceType)
  PROVE  /\ Piece(w) \in PieceType
         /\ Delta(w, pieces) \in EventType
         /\ Delta(w, pieces).novel = NovelOf[Delta(w, pieces).job]
         /\ Delta(w, pieces).type = "llm.delta"
<1>1. slot[w].job \in Job /\ slot[w] \in SlotType
  BY DEF SlotInv
<1>2. StageOf(slot[w].job) \in StageNames
  BY <1>1, StageTyped DEF SlotInv
<1>3. Piece(w) \in PieceType
  BY <1>1, <1>2 DEF Piece, PieceType, SlotType, JobInv
<1>4. tries[slot[w].job] \in Nat /\ "llm.delta" \in Types /\ "" \in Notes
  BY <1>1 DEF JobInv, Types, Notes
<1>5. NovelOf[slot[w].job] \in Novel
  BY <1>1, NovelOfAssumption
<1> QED
  BY <1>1, <1>2, <1>3, <1>4, <1>5 DEF Delta, Row, EventType

(* What a slot says is typed when each event is. *)
LEMMA SayTyped ==
  ASSUME OutInv, NEW w \in Slot, NEW es \in Seq(EventType), OfItsNovel(es), Say(w, es)
  PROVE  out' \in [Slot -> Seq(EventType)] /\ \A v \in Slot : OfItsNovel(out'[v])
BY DEF OutInv, Say

LEMMA NoneTyped == <<>> \in Seq(EventType) /\ OfItsNovel(<<>>)
<1>1. <<>> \in Seq(EventType) /\ DOMAIN <<>> = {}
  BY EmptySeq
<1> QED
  BY <1>1 DEF OfItsNovel

LEMMA OneTyped ==
  ASSUME NEW e \in EventType, e.novel = NovelOf[e.job]
  PROVE  <<e>> \in Seq(EventType) /\ OfItsNovel(<<e>>)
BY DEF OfItsNovel

LEMMA TwoTyped ==
  ASSUME NEW e \in EventType, e.novel = NovelOf[e.job],
         NEW f \in EventType, f.novel = NovelOf[f.job]
  PROVE  <<e, f>> \in Seq(EventType) /\ OfItsNovel(<<e, f>>)
BY DEF OfItsNovel

(* A slot takes the first event it has to emit. *)
LEMMA EmitTyped ==
  ASSUME TableInv, OutInv, NEW w \in Slot, Emit(w)
  PROVE  TableInv' /\ OutInv'
<1> DEFINE s == out[w]
<1>1. s \in Seq(EventType) /\ s # <<>> /\ OfItsNovel(s)
  BY DEF OutInv, Emit
<1>2. /\ Head(s) \in EventType /\ Tail(s) \in Seq(EventType)
      /\ Head(s) = s[1] /\ Len(s) \in Nat \ {0}
      /\ \A i \in 1..Len(Tail(s)) : Tail(s)[i] = s[i + 1]
      /\ Len(Tail(s)) = Len(s) - 1
  BY <1>1, HeadTailProperties, EmptySeq
<1>3. OfItsNovel(Tail(s)) /\ Head(s).novel = NovelOf[Head(s).job]
  BY <1>1, <1>2 DEF OfItsNovel
<1>4. OutInv'
  BY <1>2, <1>3 DEF OutInv, Emit
<1>5. CASE events' = Append(events, Head(s)) /\ UNCHANGED faults
  <2>1. events' \in Seq(EventType) /\ gone \subseteq DOMAIN events'
    BY <1>2, <1>5 DEF TableInv
  <2>2. OfItsNovel(events')
    BY <1>2, <1>3, <1>5 DEF TableInv, OfItsNovel
  <2> QED
    BY <2>1, <2>2, <1>5, <1>4 DEF TableInv, Emit
<1>6. CASE faults < MaxFaults /\ faults' = faults + 1 /\ UNCHANGED events
  <2>1. faults' \in 0..MaxFaults
    BY <1>6, BoundsAssumption DEF TableInv
  <2>2. OfItsNovel(events')
    BY <1>6 DEF TableInv
  <2> QED
    BY <1>4, <1>6, <2>1, <2>2 DEF TableInv, Emit
<1> QED
  BY <1>5, <1>6 DEF Emit

-----------------------------------------------------------------------------
(* The invariant of types and of slots, action by action.                   *)

LEMMA BusInvInit == BusInit => BusInv
<1> SUFFICES ASSUME BusInit PROVE BusInv
  OBVIOUS
<1>1. TableInv
  <2>1. events \in Seq(EventType) /\ OfItsNovel(events)
    BY NoneTyped DEF BusInit
  <2>2. faults \in 0..MaxFaults
    BY BoundsAssumption DEF BusInit
  <2> QED
    BY <2>1, <2>2 DEF BusInit, TableInv
<1>2. OutInv
  <2>1. <<>> \in Seq(PieceType)
    BY EmptySeq
  <2> QED
    BY <2>1, NoneTyped DEF BusInit, OutInv
<1>3. JobInv
  BY PlanLength DEF BusInit, JobInv
<1>4. SlotInv
  BY DEF BusInit, SlotInv, SlotType, Idle, SlotAt
<1>5. BusyInv
  BY DEF BusInit, BusyInv, Idle, SlotAt, Working
<1> QED
  BY <1>1, <1>2, <1>3, <1>4, <1>5 DEF BusInv, TypeInv

LEMMA TableSame ==
  ASSUME TableInv, UNCHANGED <<events, gone, faults>>
  PROVE  TableInv'
BY DEF TableInv, OfItsNovel

(* One event is said, the buffer is as it was. *)
LEMMA SayOne ==
  ASSUME OutInv, NEW w \in Slot, NEW e \in EventType, e.novel = NovelOf[e.job],
         Say(w, <<e>>), UNCHANGED buf
  PROVE  OutInv'
<1>1. <<e>> \in Seq(EventType) /\ OfItsNovel(<<e>>)
  BY OneTyped
<1>2. out' \in [Slot -> Seq(EventType)] /\ \A v \in Slot : OfItsNovel(out'[v])
  BY <1>1, SayTyped
<1> QED
  BY <1>2 DEF OutInv

LEMMA OutSame ==
  ASSUME OutInv, UNCHANGED <<out, buf>>
  PROVE  OutInv'
BY DEF OutInv, OfItsNovel

LEMMA StartKeeps ==
  ASSUME BusInv, NEW w \in Slot, NEW j \in Job, Start(w, j)
  PROVE  BusInv'
<1> DEFINE e == Row(j, "chapter.status", "", "PLANNING", <<>>, tries[j] + 1)
<1>1. e \in EventType /\ e.novel = NovelOf[e.job]
  <2>1. <<>> \in Seq(PieceType) /\ tries[j] + 1 \in Nat /\ NovelOf[j] \in Novel
    BY EmptySeq, NovelOfAssumption DEF BusInv, TypeInv, JobInv
  <2> QED
    BY <2>1 DEF Row, EventType, Types, Notes
<1>2. OutInv'
  <2>1. <<e>> \in Seq(EventType) /\ OfItsNovel(<<e>>)
    BY <1>1, OneTyped
  <2>2. out' \in [Slot -> Seq(EventType)] /\ \A v \in Slot : OfItsNovel(out'[v])
    BY <2>1, SayTyped DEF BusInv, TypeInv, Start
  <2>3. buf' \in [Slot -> Seq(PieceType)]
    BY EmptySeq DEF BusInv, TypeInv, OutInv, Start
  <2> QED
    BY <2>2, <2>3 DEF OutInv
<1>3. TableInv'
  BY TableSame DEF BusInv, TypeInv, Start
<1>4. /\ slot[w].pc = "idle" /\ jobs[j] = "pending"
      /\ jobs' = [jobs EXCEPT ![j] = "running"] /\ tries' = [tries EXCEPT ![j] = @ + 1]
      /\ slot' = [slot EXCEPT ![w] = SlotAt("planned", j)]
      /\ UNCHANGED <<runs, marked, drafted>>
  BY DEF Start, At
<1>5. JobInv'
  BY <1>4 DEF BusInv, TypeInv, JobInv
<1>6. SlotInv'
  BY <1>4 DEF BusInv, TypeInv, SlotInv, SlotType, Working, Compose, SlotAt
<1>7. BusyInv'
  BY <1>4 DEF BusInv, TypeInv, SlotInv, SlotType, JobInv, BusyInv, Working, SlotAt
<1> QED
  BY <1>2, <1>3, <1>5, <1>6, <1>7 DEF BusInv, TypeInv

(* What a step of a slot must bring about for its own job, and leave of the   *)
(* others.                                                                  *)
Own(w) ==
  LET j == slot[w].job IN
  /\ \A k \in Job : k # j => jobs'[k] = jobs[k] /\ marked'[k] = marked[k] /\ runs'[k] = runs[k]
  /\ drafted \subseteq drafted'
  /\ slot'[w].pc \in Working => jobs'[j] = "running"
  /\ slot'[w].pc = "succeed" => jobs'[j] = "ended" /\ j \in drafted'
  /\ slot'[w].pc \in {"call", "stream", "answer"} => Compose(j) \/ marked'[j] < Len(Plan[j])
  /\ runs'[j] = "SUCCEEDED" => jobs'[j] = "ended"

LEMMA StepKeeps ==
  ASSUME BusInv, NEW w \in Slot, slot[w].pc # "idle", Own(w),
         slot' \in [Slot -> SlotType], slot'[w].pc = "idle" \/ slot'[w].job = slot[w].job,
         \A v \in Slot : v # w => slot'[v] = slot[v]
  PROVE  SlotInv' /\ BusyInv'
<1>1. slot[w].job \in Job
  BY DEF BusInv, TypeInv, SlotInv
<1>2. ASSUME NEW v \in Slot, v # w, slot[v].pc # "idle"
      PROVE  /\ slot[v].job \in Job /\ slot[v].job # slot[w].job
             /\ jobs'[slot[v].job] = jobs[slot[v].job]
             /\ marked'[slot[v].job] = marked[slot[v].job]
  BY <1>2 DEF BusInv, TypeInv, SlotInv, BusyInv, Own
<1>3. SlotInv'
  <2>1. ASSUME NEW v \in Slot, slot'[v].pc # "idle" PROVE slot'[v].job \in Job
    BY <1>1, <1>2, <2>1
  <2>2. ASSUME NEW v \in Slot, slot'[v].pc \in {"call", "stream", "answer"}
        PROVE  Compose(slot'[v].job) \/ marked'[slot'[v].job] < Len(Plan[slot'[v].job])
    <3>1. CASE v = w
      BY <2>2, <3>1 DEF Own
    <3>2. CASE v # w
      BY <1>2, <2>2, <3>2 DEF BusInv, TypeInv, SlotInv
    <3> QED
      BY <3>1, <3>2
  <2> QED
    BY <2>1, <2>2 DEF SlotInv, Compose
<1>4. BusyInv'
  <2>1. ASSUME NEW v \in Slot, slot'[v].pc \in Working PROVE jobs'[slot'[v].job] = "running"
    <3>1. CASE v = w
      BY <2>1, <3>1 DEF Own, Working
    <3>2. CASE v # w
      BY <1>2, <2>1, <3>2 DEF BusInv, BusyInv, Working
    <3> QED
      BY <3>1, <3>2
  <2>2. ASSUME NEW v \in Slot, slot'[v].pc = "succeed"
        PROVE  jobs'[slot'[v].job] = "ended" /\ slot'[v].job \in drafted'
    <3>1. CASE v = w
      BY <2>2, <3>1 DEF Own
    <3>2. CASE v # w
      BY <1>2, <2>2, <3>2 DEF BusInv, BusyInv, Own
    <3> QED
      BY <3>1, <3>2
  <2>3. ASSUME NEW u \in Slot, NEW v \in Slot, slot'[u].pc # "idle", slot'[v].pc # "idle",
               slot'[u].job = slot'[v].job
        PROVE  u = v
    BY <1>2, <2>3 DEF BusInv, BusyInv
  <2>4. ASSUME NEW k \in Job, runs'[k] = "SUCCEEDED" PROVE jobs'[k] = "ended"
    BY <2>4 DEF BusInv, BusyInv, Own
  <2> QED
    BY <2>1, <2>2, <2>3, <2>4 DEF BusyInv
<1> QED
  BY <1>3, <1>4

LEMMA CancelKeeps ==
  ASSUME BusInv, NEW w \in Slot, Cancel(w)
  PROVE  BusInv'
<1> DEFINE j == slot[w].job
<1>1. j \in Job /\ slot[w] \in SlotType
  BY DEF BusInv, TypeInv, SlotInv, SlotType, Cancel, At
<1>2. /\ slot[w].pc = "planned" /\ jobs' = [jobs EXCEPT ![j] = "ended"]
      /\ UNCHANGED <<tries, runs, marked, drafted>>
  BY DEF Cancel, At, Leave
<1>3. /\ slot' \in [Slot -> SlotType] /\ slot'[w].pc = "idle"
      /\ \A v \in Slot : v # w => slot'[v] = slot[v]
  <2>1. slot' = [slot EXCEPT ![w] = Idle]
    BY DEF Cancel, At, Leave
  <2> QED
    BY <1>1, <2>1 DEF BusInv, TypeInv, SlotInv, SlotType, Working, Idle, SlotAt
<1>4. TableInv'
  BY TableSame DEF BusInv, TypeInv, Cancel
<1>5. OutInv'
  <2> DEFINE e == Event(j, "chapter.status", "", "CANCELLED")
  <2>1. e \in EventType /\ e.novel = NovelOf[e.job]
    BY <1>1, RowParts DEF BusInv, TypeInv, Types, Notes, StageNames, EventType, Event, Row
  <2> QED
    BY <2>1, SayOne DEF BusInv, TypeInv, Cancel
<1>6. JobInv'
  BY <1>1, <1>2, PlanLength DEF BusInv, TypeInv, SlotInv, SlotType, JobInv, BusyInv, Working, Compose
<1>7. Own(w)
  BY <1>1, <1>2, <1>3, PlanLength DEF BusInv, TypeInv, SlotInv, SlotType, JobInv, BusyInv, Working, Compose, Own
<1>8. SlotInv' /\ BusyInv'
  BY <1>2, <1>3, <1>7, StepKeeps
<1> QED
  BY <1>4, <1>5, <1>6, <1>8 DEF BusInv, TypeInv

LEMMA PrepareKeeps ==
  ASSUME BusInv, NEW w \in Slot, Prepare(w)
  PROVE  BusInv'
<1> DEFINE j == slot[w].job
<1>1. j \in Job /\ slot[w] \in SlotType
  BY DEF BusInv, TypeInv, SlotInv, SlotType, Prepare, At
<1>2. /\ slot[w].pc = "planned" /\ UNCHANGED <<jobs, tries, marked, drafted>>
      /\ UNCHANGED runs \/ runs' = [runs EXCEPT ![j] = "RUNNING"]
  BY DEF Prepare, At
<1>3. /\ slot' \in [Slot -> SlotType] /\ slot'[w].job = j
      /\ slot'[w].pc = "stage" \/ (Compose(j) /\ slot'[w].pc = "call")
      /\ \A v \in Slot : v # w => slot'[v] = slot[v]
  <2>1. \/ Compose(j) /\ slot' = [slot EXCEPT ![w].pc = "call"]
        \/ slot' = [slot EXCEPT ![w].pc = "stage"]
    BY DEF Prepare, Goto
  <2> QED
    BY <1>1, <2>1 DEF BusInv, TypeInv, SlotInv, SlotType, Working
<1>4. TableInv'
  BY TableSame DEF BusInv, TypeInv, Prepare
<1>5. OutInv'
  <2> DEFINE e == Event(j, "chapter.status", "", "GENERATING")
             f == Event(j, "agent.run", "", "RUNNING")
  <2>1. /\ e \in EventType /\ e.novel = NovelOf[e.job]
        /\ f \in EventType /\ f.novel = NovelOf[f.job]
    BY <1>1, RowParts DEF BusInv, TypeInv, Types, Notes, StageNames, EventType, Event, Row
  <2>2. CASE Compose(j)
    BY <2>1, <2>2, SayOne DEF BusInv, TypeInv, Prepare
  <2>3. CASE ~Compose(j) /\ runs[j] = "none"
    BY <2>1, <2>3, SayOne DEF BusInv, TypeInv, Prepare
  <2>4. CASE ~Compose(j) /\ runs[j] # "none"
    <3>1. Say(w, <<>>) /\ UNCHANGED buf
      BY <2>4 DEF Prepare
    <3> QED
      BY <3>1, NoneTyped, SayTyped DEF BusInv, TypeInv, OutInv
  <2> QED
    BY <2>2, <2>3, <2>4
<1>6. JobInv'
  BY <1>1, <1>2, PlanLength DEF BusInv, TypeInv, SlotInv, SlotType, JobInv, BusyInv, Working, Compose
<1>7. Own(w)
  BY <1>1, <1>2, <1>3, PlanLength DEF BusInv, TypeInv, SlotInv, SlotType, JobInv, BusyInv, Working, Compose, Own
<1>8. SlotInv' /\ BusyInv'
  BY <1>2, <1>3, <1>7, StepKeeps
<1> QED
  BY <1>4, <1>5, <1>6, <1>8 DEF BusInv, TypeInv

LEMMA StartStageKeeps ==
  ASSUME BusInv, NEW w \in Slot, StartStage(w)
  PROVE  BusInv'
<1> DEFINE j == slot[w].job
<1>1. j \in Job /\ slot[w] \in SlotType
  BY DEF BusInv, TypeInv, SlotInv, SlotType, StartStage, At
<1>2. /\ slot[w].pc = "stage" /\ marked[j] < Len(Plan[j])
      /\ UNCHANGED <<jobs, tries, runs, marked, drafted>>
  BY DEF StartStage, At, jobVars
<1>3. /\ slot' \in [Slot -> SlotType] /\ slot'[w].pc = "call" /\ slot'[w].job = j
      /\ \A v \in Slot : v # w => slot'[v] = slot[v]
  <2>1. slot' = [slot EXCEPT ![w].pc = "call", ![w].ask = 1]
    BY DEF StartStage, At, jobVars
  <2> QED
    BY <1>1, <2>1 DEF BusInv, TypeInv, SlotInv, SlotType, Working
<1>4. TableInv'
  BY TableSame DEF BusInv, TypeInv, StartStage
<1>5. OutInv'
  <2> DEFINE e == Event(j, "agent.stage", StageOf(j), "running")
  <2>1. StageOf(j) \in StageNames
    BY <1>1, <1>2, StageTyped DEF BusInv, TypeInv
  <2>2. e \in EventType /\ e.novel = NovelOf[e.job]
    BY <1>1, <2>1, RowParts DEF BusInv, TypeInv, Types, Notes, EventType, Event, Row
  <2> QED
    BY <2>2, SayOne DEF BusInv, TypeInv, StartStage
<1>6. JobInv'
  BY <1>1, <1>2, PlanLength DEF BusInv, TypeInv, SlotInv, SlotType, JobInv, BusyInv, Working, Compose
<1>7. Own(w)
  BY <1>1, <1>2, <1>3, PlanLength DEF BusInv, TypeInv, SlotInv, SlotType, JobInv, BusyInv, Working, Compose, Own
<1>8. SlotInv' /\ BusyInv'
  BY <1>2, <1>3, <1>7, StepKeeps
<1> QED
  BY <1>4, <1>5, <1>6, <1>8 DEF BusInv, TypeInv

LEMMA CallKeeps ==
  ASSUME BusInv, NEW w \in Slot, Call(w)
  PROVE  BusInv'
<1> DEFINE j == slot[w].job
<1>1. j \in Job /\ slot[w] \in SlotType
  BY DEF BusInv, TypeInv, SlotInv, SlotType, Call, At
<1>2. /\ slot[w].pc = "call"
      /\ UNCHANGED <<jobs, tries, runs, marked, drafted>>
  BY DEF Call, At, jobVars
<1>3. /\ slot' \in [Slot -> SlotType] /\ slot'[w].pc = "stream" /\ slot'[w].job = j
      /\ \A v \in Slot : v # w => slot'[v] = slot[v]
  <2>1. slot' = [slot EXCEPT ![w].pc = "stream", ![w].call = @ + 1, ![w].got = 0]
    BY DEF Call, At, jobVars
  <2> QED
    BY <1>1, <2>1 DEF BusInv, TypeInv, SlotInv, SlotType, Working
<1>4. TableInv'
  BY TableSame DEF BusInv, TypeInv, Call
<1>5. OutInv'
  BY OutSame DEF BusInv, TypeInv, Call
<1>6. JobInv'
  BY <1>1, <1>2, PlanLength DEF BusInv, TypeInv, SlotInv, SlotType, JobInv, BusyInv, Working, Compose
<1>7. Own(w)
  BY <1>1, <1>2, <1>3, PlanLength DEF BusInv, TypeInv, SlotInv, SlotType, JobInv, BusyInv, Working, Compose, Own
<1>8. SlotInv' /\ BusyInv'
  BY <1>2, <1>3, <1>7, StepKeeps
<1> QED
  BY <1>4, <1>5, <1>6, <1>8 DEF BusInv, TypeInv

LEMMA ReceiveKeeps ==
  ASSUME BusInv, NEW w \in Slot, Receive(w)
  PROVE  BusInv'
<1> DEFINE j == slot[w].job
<1>1. j \in Job /\ slot[w] \in SlotType
  BY DEF BusInv, TypeInv, SlotInv, SlotType, Receive, At
<1>2. /\ slot[w].pc = "stream"
      /\ UNCHANGED <<jobs, tries, runs, marked, drafted>>
  BY DEF Receive, At, jobVars
<1>3. /\ slot' \in [Slot -> SlotType] /\ slot'[w].pc = "stream" /\ slot'[w].job = j
      /\ \A v \in Slot : v # w => slot'[v] = slot[v]
  <2>1. slot' = [slot EXCEPT ![w].got = @ + 1] /\ slot[w].pc = "stream"
    BY DEF Receive, At, jobVars
  <2>2. slot[w].got + 1 \in Nat
    BY <1>1 DEF SlotType
  <2>3. [slot[w] EXCEPT !.got = @ + 1] \in SlotType
    BY <1>1, <2>2 DEF SlotType
  <2> QED
    BY <1>1, <2>1, <2>3 DEF BusInv, TypeInv, SlotInv, SlotType, Working
<1>4. TableInv'
  BY TableSame DEF BusInv, TypeInv, Receive
<1>5. OutInv'
  <2> DEFINE more == Append(buf[w], Piece(w))
             e == Delta(w, more)
  <2>1. more \in Seq(PieceType)
    <3>1. <<>> \in Seq(PieceType)
      BY EmptySeq
    <3>2. Piece(w) \in PieceType
      BY <1>2, <3>1, DeltaTyped DEF BusInv, TypeInv
    <3> QED
      BY <3>2 DEF BusInv, TypeInv, OutInv
  <2>2. e \in EventType /\ e.novel = NovelOf[e.job]
    BY <1>2, <2>1, DeltaTyped DEF BusInv, TypeInv
  <2>3. CASE buf' = [buf EXCEPT ![w] = more] /\ UNCHANGED out
    <3>1. buf' \in [Slot -> Seq(PieceType)]
      BY <2>1, <2>3 DEF BusInv, TypeInv, OutInv
    <3> QED
      BY <2>3, <3>1 DEF BusInv, TypeInv, OutInv
  <2>4. CASE buf' = [buf EXCEPT ![w] = <<>>] /\ Say(w, <<e>>)
    <3>1. buf' \in [Slot -> Seq(PieceType)]
      BY <2>4, EmptySeq DEF BusInv, TypeInv, OutInv
    <3>2. out' \in [Slot -> Seq(EventType)] /\ \A v \in Slot : OfItsNovel(out'[v])
      BY <2>2, <2>4, OneTyped, SayTyped DEF BusInv, TypeInv
    <3> QED
      BY <3>1, <3>2 DEF OutInv
  <2> QED
    BY <2>3, <2>4 DEF Receive
<1>6. JobInv'
  BY <1>1, <1>2, PlanLength DEF BusInv, TypeInv, SlotInv, SlotType, JobInv, BusyInv, Working, Compose
<1>7. Own(w)
  BY <1>1, <1>2, <1>3, PlanLength DEF BusInv, TypeInv, SlotInv, SlotType, JobInv, BusyInv, Working, Compose, Own
<1>8. SlotInv' /\ BusyInv'
  BY <1>2, <1>3, <1>7, StepKeeps
<1> QED
  BY <1>4, <1>5, <1>6, <1>8 DEF BusInv, TypeInv

LEMMA EndOfAnswerKeeps ==
  ASSUME BusInv, NEW w \in Slot, EndOfAnswer(w)
  PROVE  BusInv'
<1> DEFINE j == slot[w].job
<1>1. j \in Job /\ slot[w] \in SlotType
  BY DEF BusInv, TypeInv, SlotInv, SlotType, EndOfAnswer, At
<1>2. /\ slot[w].pc = "stream"
      /\ UNCHANGED <<jobs, tries, runs, marked, drafted>>
  BY DEF EndOfAnswer, At, Goto, jobVars
<1>3. /\ slot' \in [Slot -> SlotType] /\ slot'[w].pc = "answer" /\ slot'[w].job = j
      /\ \A v \in Slot : v # w => slot'[v] = slot[v]
  <2>1. slot' = [slot EXCEPT ![w].pc = "answer"]
    BY DEF EndOfAnswer, At, Goto, jobVars
  <2> QED
    BY <1>1, <2>1 DEF BusInv, TypeInv, SlotInv, SlotType, Working
<1>4. TableInv'
  BY TableSame DEF BusInv, TypeInv, EndOfAnswer
<1>5. OutInv'
  <2> DEFINE e == Delta(w, buf[w])
  <2>1. e \in EventType /\ e.novel = NovelOf[e.job]
    BY <1>2, DeltaTyped DEF BusInv, TypeInv, OutInv
  <2>2. buf' \in [Slot -> Seq(PieceType)]
    BY EmptySeq DEF BusInv, TypeInv, OutInv, EndOfAnswer
  <2>3. Say(w, <<>>) \/ Say(w, <<e>>)
    BY DEF EndOfAnswer
  <2>4. out' \in [Slot -> Seq(EventType)] /\ \A v \in Slot : OfItsNovel(out'[v])
    BY <2>1, <2>3, NoneTyped, OneTyped, SayTyped DEF BusInv, TypeInv
  <2> QED
    BY <2>2, <2>4 DEF OutInv
<1>6. JobInv'
  BY <1>1, <1>2, PlanLength DEF BusInv, TypeInv, SlotInv, SlotType, JobInv, BusyInv, Working, Compose
<1>7. Own(w)
  BY <1>1, <1>2, <1>3, PlanLength DEF BusInv, TypeInv, SlotInv, SlotType, JobInv, BusyInv, Working, Compose, Own
<1>8. SlotInv' /\ BusyInv'
  BY <1>2, <1>3, <1>7, StepKeeps
<1> QED
  BY <1>4, <1>5, <1>6, <1>8 DEF BusInv, TypeInv

LEMMA RepairKeeps ==
  ASSUME BusInv, NEW w \in Slot, Repair(w)
  PROVE  BusInv'
<1> DEFINE j == slot[w].job
<1>1. j \in Job /\ slot[w] \in SlotType
  BY DEF BusInv, TypeInv, SlotInv, SlotType, Repair, At
<1>2. /\ slot[w].pc = "answer"
      /\ UNCHANGED <<jobs, tries, runs, marked, drafted>>
  BY DEF Repair, At, jobVars
<1>3. /\ slot' \in [Slot -> SlotType] /\ slot'[w].pc = "call" /\ slot'[w].job = j
      /\ \A v \in Slot : v # w => slot'[v] = slot[v]
  <2>1. slot' = [slot EXCEPT ![w].pc = "call", ![w].ask = 2]
    BY DEF Repair, At, jobVars
  <2> QED
    BY <1>1, <2>1 DEF BusInv, TypeInv, SlotInv, SlotType, Working
<1>4. TableInv'
  BY TableSame DEF BusInv, TypeInv, Repair
<1>5. OutInv'
  BY OutSame DEF BusInv, TypeInv, Repair
<1>6. JobInv'
  BY <1>1, <1>2, PlanLength DEF BusInv, TypeInv, SlotInv, SlotType, JobInv, BusyInv, Working, Compose
<1>7. Own(w)
  BY <1>1, <1>2, <1>3, PlanLength DEF BusInv, TypeInv, SlotInv, SlotType, JobInv, BusyInv, Working, Compose, Own
<1>8. SlotInv' /\ BusyInv'
  BY <1>2, <1>3, <1>7, StepKeeps
<1> QED
  BY <1>4, <1>5, <1>6, <1>8 DEF BusInv, TypeInv

LEMMA FailKeeps ==
  ASSUME BusInv, NEW w \in Slot, Fail(w)
  PROVE  BusInv'
<1> DEFINE j == slot[w].job
<1>1. j \in Job /\ slot[w] \in SlotType
  BY DEF BusInv, TypeInv, SlotInv, SlotType, Fail, At
<1>2. /\ slot[w].pc \in {"stream", "answer"}
      /\ \E s \in {"pending", "ended"} : jobs' = [jobs EXCEPT ![j] = s]
      /\ UNCHANGED <<tries, runs, marked, drafted>>
  BY DEF Fail, At, Leave
<1>3. /\ slot' \in [Slot -> SlotType] /\ slot'[w].pc = "idle"
      /\ \A v \in Slot : v # w => slot'[v] = slot[v]
  <2>1. slot' = [slot EXCEPT ![w] = Idle]
    BY DEF Fail, At, Leave
  <2> QED
    BY <1>1, <2>1 DEF BusInv, TypeInv, SlotInv, SlotType, Working, Idle, SlotAt
<1>4. TableInv'
  BY TableSame DEF BusInv, TypeInv, Fail
<1>5. OutInv'
  BY OutSame DEF BusInv, TypeInv, Fail
<1>6. JobInv'
  BY <1>1, <1>2, PlanLength DEF BusInv, TypeInv, SlotInv, SlotType, JobInv, BusyInv, Working, Compose
<1>7. Own(w)
  BY <1>1, <1>2, <1>3, PlanLength DEF BusInv, TypeInv, SlotInv, SlotType, JobInv, BusyInv, Working, Compose, Own
<1>8. SlotInv' /\ BusyInv'
  BY <1>2, <1>3, <1>7, StepKeeps
<1> QED
  BY <1>4, <1>5, <1>6, <1>8 DEF BusInv, TypeInv

LEMMA AcceptKeeps ==
  ASSUME BusInv, NEW w \in Slot, Accept(w)
  PROVE  BusInv'
<1> DEFINE j == slot[w].job
<1>1. j \in Job /\ slot[w] \in SlotType
  BY DEF BusInv, TypeInv, SlotInv, SlotType, Accept, At
<1>2. /\ slot[w].pc = "answer" /\ UNCHANGED <<jobs, tries, runs, drafted>>
      /\ UNCHANGED marked \/ (~Compose(j) /\ marked' = [marked EXCEPT ![j] = @ + 1])
  BY DEF Accept, At, Goto
<1>3. /\ slot' \in [Slot -> SlotType] /\ slot'[w].pc \in {"text", "stage"} /\ slot'[w].job = j
      /\ \A v \in Slot : v # w => slot'[v] = slot[v]
  <2>1. slot' = [slot EXCEPT ![w].pc = "text"] \/ slot' = [slot EXCEPT ![w].pc = "stage"]
    BY DEF Accept, At, Goto
  <2>2. CASE slot' = [slot EXCEPT ![w].pc = "text"]
    BY <1>1, <2>2 DEF BusInv, TypeInv, SlotInv, SlotType, Working
  <2>3. CASE slot' = [slot EXCEPT ![w].pc = "stage"]
    BY <1>1, <2>3 DEF BusInv, TypeInv, SlotInv, SlotType, Working
  <2> QED
    BY <2>1, <2>2, <2>3
<1>4. TableInv'
  BY TableSame DEF BusInv, TypeInv, Accept
<1>5. OutInv'
  <2>1. CASE Compose(j)
    BY <2>1, OutSame DEF BusInv, TypeInv, Accept
  <2>2. CASE ~Compose(j)
    <3> DEFINE e == Event(j, "agent.stage", StageOf(j), "done")
               f == Event(j, "checkpoint.saved", StageOf(j), "")
    <3>1. StageOf(j) \in StageNames
      BY <1>1, <1>2, StageTyped DEF BusInv, TypeInv, SlotInv
    <3>2. /\ e \in EventType /\ e.novel = NovelOf[e.job]
          /\ f \in EventType /\ f.novel = NovelOf[f.job]
      BY <1>1, <3>1, RowParts DEF BusInv, TypeInv, Types, Notes, EventType, Event, Row
    <3>3. Say(w, <<e, f>>) /\ UNCHANGED buf
      BY <2>2 DEF Accept
    <3> QED
      BY <3>2, <3>3, TwoTyped, SayTyped DEF BusInv, TypeInv, OutInv
  <2> QED
    BY <2>1, <2>2
<1>6. JobInv'
  <2>1. Compose(j) \/ marked[j] + 1 <= Len(Plan[j])
    BY <1>1, <1>2, PlanLength DEF BusInv, TypeInv, SlotInv, JobInv
  <2>2. CASE UNCHANGED marked
    BY <1>2, <2>2 DEF BusInv, TypeInv, JobInv
  <2>3. CASE ~Compose(j) /\ marked' = [marked EXCEPT ![j] = @ + 1]
    BY <1>1, <1>2, <2>1, <2>3 DEF BusInv, TypeInv, JobInv
  <2> QED
    BY <1>2, <2>2, <2>3
<1>7. Own(w)
  BY <1>1, <1>2, <1>3, PlanLength DEF BusInv, TypeInv, SlotInv, SlotType, JobInv, BusyInv, Working, Compose, Own
<1>8. SlotInv' /\ BusyInv'
  BY <1>2, <1>3, <1>7, StepKeeps
<1> QED
  BY <1>4, <1>5, <1>6, <1>8 DEF BusInv, TypeInv

LEMMA PublishKeeps ==
  ASSUME BusInv, NEW w \in Slot, Publish(w)
  PROVE  BusInv'
<1> DEFINE j == slot[w].job
<1>1. j \in Job /\ slot[w] \in SlotType
  BY DEF BusInv, TypeInv, SlotInv, SlotType, Publish, At
<1>2. /\ slot[w].pc \in {"text", "stage"}
      /\ UNCHANGED <<jobs, tries, runs, marked, drafted>>
  BY DEF Publish, At, Goto, jobVars
<1>3. /\ slot' \in [Slot -> SlotType] /\ slot'[w].pc = "finalize" /\ slot'[w].job = j
      /\ \A v \in Slot : v # w => slot'[v] = slot[v]
  <2>1. slot' = [slot EXCEPT ![w].pc = "finalize"]
    BY DEF Publish, At, Goto, jobVars
  <2> QED
    BY <1>1, <2>1 DEF BusInv, TypeInv, SlotInv, SlotType, Working
<1>4. TableInv'
  BY TableSame DEF BusInv, TypeInv, Publish
<1>5. OutInv'
  <2> DEFINE e == Event(j, "llm.text", "", "")
  <2>1. e \in EventType /\ e.novel = NovelOf[e.job]
    BY <1>1, RowParts DEF BusInv, TypeInv, Types, Notes, StageNames, EventType, Event, Row
  <2> QED
    BY <2>1, SayOne DEF BusInv, TypeInv, Publish
<1>6. JobInv'
  BY <1>1, <1>2, PlanLength DEF BusInv, TypeInv, SlotInv, SlotType, JobInv, BusyInv, Working, Compose
<1>7. Own(w)
  BY <1>1, <1>2, <1>3, PlanLength DEF BusInv, TypeInv, SlotInv, SlotType, JobInv, BusyInv, Working, Compose, Own
<1>8. SlotInv' /\ BusyInv'
  BY <1>2, <1>3, <1>7, StepKeeps
<1> QED
  BY <1>4, <1>5, <1>6, <1>8 DEF BusInv, TypeInv

LEMMA FinalizeKeeps ==
  ASSUME BusInv, NEW w \in Slot, Finalize(w)
  PROVE  BusInv'
<1> DEFINE j == slot[w].job
<1>1. j \in Job /\ slot[w] \in SlotType
  BY DEF BusInv, TypeInv, SlotInv, SlotType, Finalize, At
<1>2. /\ slot[w].pc = "finalize" /\ drafted' = drafted \cup {j}
      /\ jobs' = [jobs EXCEPT ![j] = "ended"]
      /\ UNCHANGED <<tries, runs, marked>>
  BY DEF Finalize, At, Goto, Leave
<1>3. /\ slot' \in [Slot -> SlotType] /\ (slot'[w].pc = "idle" \/ (slot'[w].pc = "succeed" /\ slot'[w].job = j))
      /\ \A v \in Slot : v # w => slot'[v] = slot[v]
  <2>1. slot' = [slot EXCEPT ![w] = Idle] \/ slot' = [slot EXCEPT ![w].pc = "succeed"]
    BY DEF Finalize, At, Goto, Leave
  <2> QED
    BY <1>1, <2>1 DEF BusInv, TypeInv, SlotInv, SlotType, Working, Idle, SlotAt
<1>4. TableInv'
  BY TableSame DEF BusInv, TypeInv, Finalize
<1>5. OutInv'
  <2> DEFINE e == Event(j, "chapter.ready", "", "")
  <2>1. e \in EventType /\ e.novel = NovelOf[e.job]
    BY <1>1, RowParts DEF BusInv, TypeInv, Types, Notes, StageNames, EventType, Event, Row
  <2>2. CASE Compose(j)
    BY <2>1, <2>2, SayOne DEF BusInv, TypeInv, Finalize
  <2>3. CASE ~Compose(j)
    BY <2>3, OutSame DEF BusInv, TypeInv, Finalize
  <2> QED
    BY <2>2, <2>3
<1>6. JobInv'
  BY <1>1, <1>2, PlanLength DEF BusInv, TypeInv, SlotInv, SlotType, JobInv, BusyInv, Working, Compose
<1>7. Own(w)
  BY <1>1, <1>2, <1>3, PlanLength DEF BusInv, TypeInv, SlotInv, SlotType, JobInv, BusyInv, Working, Compose, Own
<1>8. SlotInv' /\ BusyInv'
  BY <1>2, <1>3, <1>7, StepKeeps
<1> QED
  BY <1>4, <1>5, <1>6, <1>8 DEF BusInv, TypeInv

LEMMA FinalizeFailsKeeps ==
  ASSUME BusInv, NEW w \in Slot, FinalizeFails(w)
  PROVE  BusInv'
<1> DEFINE j == slot[w].job
<1>1. j \in Job /\ slot[w] \in SlotType
  BY DEF BusInv, TypeInv, SlotInv, SlotType, FinalizeFails, At
<1>2. /\ slot[w].pc = "finalize" /\ drafted' = drafted \cup {j}
      /\ \E s \in {"pending", "ended"} : jobs' = [jobs EXCEPT ![j] = s]
      /\ UNCHANGED <<tries, runs, marked>>
  BY DEF FinalizeFails, At, Leave
<1>3. /\ slot' \in [Slot -> SlotType] /\ slot'[w].pc = "idle"
      /\ \A v \in Slot : v # w => slot'[v] = slot[v]
  <2>1. slot' = [slot EXCEPT ![w] = Idle]
    BY DEF FinalizeFails, At, Leave
  <2> QED
    BY <1>1, <2>1 DEF BusInv, TypeInv, SlotInv, SlotType, Working, Idle, SlotAt
<1>4. TableInv'
  BY TableSame DEF BusInv, TypeInv, FinalizeFails
<1>5. OutInv'
  BY OutSame DEF BusInv, TypeInv, FinalizeFails
<1>6. JobInv'
  BY <1>1, <1>2, PlanLength DEF BusInv, TypeInv, SlotInv, SlotType, JobInv, BusyInv, Working, Compose
<1>7. Own(w)
  BY <1>1, <1>2, <1>3, PlanLength DEF BusInv, TypeInv, SlotInv, SlotType, JobInv, BusyInv, Working, Compose, Own
<1>8. SlotInv' /\ BusyInv'
  BY <1>2, <1>3, <1>7, StepKeeps
<1> QED
  BY <1>4, <1>5, <1>6, <1>8 DEF BusInv, TypeInv

LEMMA SucceedKeeps ==
  ASSUME BusInv, NEW w \in Slot, Succeed(w)
  PROVE  BusInv'
<1> DEFINE j == slot[w].job
<1>1. j \in Job /\ slot[w] \in SlotType
  BY DEF BusInv, TypeInv, SlotInv, SlotType, Succeed, At
<1>2. /\ slot[w].pc = "succeed" /\ runs' = [runs EXCEPT ![j] = "SUCCEEDED"]
      /\ UNCHANGED <<jobs, tries, marked, drafted>>
  BY DEF Succeed, At, Leave
<1>3. /\ slot' \in [Slot -> SlotType] /\ slot'[w].pc = "idle"
      /\ \A v \in Slot : v # w => slot'[v] = slot[v]
  <2>1. slot' = [slot EXCEPT ![w] = Idle]
    BY DEF Succeed, At, Leave
  <2> QED
    BY <1>1, <2>1 DEF BusInv, TypeInv, SlotInv, SlotType, Working, Idle, SlotAt
<1>4. TableInv'
  BY TableSame DEF BusInv, TypeInv, Succeed
<1>5. OutInv'
  <2> DEFINE e == Event(j, "agent.run", "", "SUCCEEDED")
             f == Event(j, "chapter.ready", "", "")
  <2>1. /\ e \in EventType /\ e.novel = NovelOf[e.job]
        /\ f \in EventType /\ f.novel = NovelOf[f.job]
    BY <1>1, RowParts DEF BusInv, TypeInv, Types, Notes, StageNames, EventType, Event, Row
  <2> QED
    BY <2>1, TwoTyped, SayTyped DEF BusInv, TypeInv, OutInv, Succeed
<1>6. JobInv'
  BY <1>1, <1>2, PlanLength DEF BusInv, TypeInv, SlotInv, SlotType, JobInv, BusyInv, Working, Compose
<1>7. Own(w)
  BY <1>1, <1>2, <1>3, PlanLength DEF BusInv, TypeInv, SlotInv, SlotType, JobInv, BusyInv, Working, Compose, Own
<1>8. SlotInv' /\ BusyInv'
  BY <1>2, <1>3, <1>7, StepKeeps
<1> QED
  BY <1>4, <1>5, <1>6, <1>8 DEF BusInv, TypeInv

(* A kill of the worker leaves every slot idle. *)
LEMMA RestartKeeps ==
  ASSUME BusInv, Restart
  PROVE  BusInv'
<1>1. /\ UNCHANGED <<events, tries, runs, marked, drafted>>
      /\ jobs' = [j \in Job |-> IF jobs[j] = "running" THEN "pending" ELSE jobs[j]]
      /\ slot' = [w \in Slot |-> Idle] /\ faults < MaxFaults /\ faults' = faults + 1
      /\ out' = [w \in Slot |-> <<>>] /\ buf' = [w \in Slot |-> <<>>]
  BY DEF Restart
<1>2. PICK last \in 0..Len(events) : gone' = gone \cup 1..last
  BY DEF Restart, Prune
<1>3. TableInv'
  <2>1. gone' \subseteq DOMAIN events
    BY <1>2 DEF BusInv, TypeInv, TableInv
  <2> QED
    BY <1>1, <2>1, BoundsAssumption DEF BusInv, TypeInv, TableInv, OfItsNovel
<1>4. OutInv'
  BY <1>1, NoneTyped, EmptySeq DEF OutInv
<1>5. JobInv'
  BY <1>1 DEF BusInv, TypeInv, JobInv
<1>6. SlotInv'
  BY <1>1 DEF SlotInv, SlotType, Idle, SlotAt
<1>7. BusyInv'
  BY <1>1 DEF BusInv, TypeInv, JobInv, BusyInv, Idle, SlotAt, Working
<1> QED
  BY <1>3, <1>4, <1>5, <1>6, <1>7 DEF BusInv, TypeInv

LEMMA EmitKeeps ==
  ASSUME BusInv, NEW w \in Slot, Emit(w)
  PROVE  BusInv'
<1>1. TableInv' /\ OutInv'
  BY EmitTyped DEF BusInv, TypeInv
<1>2. UNCHANGED <<jobs, tries, runs, marked, drafted, slot>>
  BY DEF Emit, jobVars
<1>3. JobInv' /\ SlotInv' /\ BusyInv'
  BY <1>2 DEF BusInv, TypeInv, JobInv, SlotInv, BusyInv, Compose
<1> QED
  BY <1>1, <1>3 DEF BusInv, TypeInv

LEMMA BusInvNext == BusInv /\ [BusNext]_busVars => BusInv'
<1> SUFFICES ASSUME BusInv, [BusNext]_busVars PROVE BusInv'
  OBVIOUS
<1>1. ASSUME NEW w \in Slot, SlotStep(w) PROVE BusInv'
  BY <1>1, EmitKeeps, StartKeeps, CancelKeeps, PrepareKeeps, StartStageKeeps, CallKeeps,
     ReceiveKeeps, EndOfAnswerKeeps, RepairKeeps, FailKeeps, AcceptKeeps, PublishKeeps,
     FinalizeKeeps, FinalizeFailsKeeps, SucceedKeeps DEF SlotStep
<1>2. CASE Restart
  BY <1>2, RestartKeeps
<1>3. CASE UNCHANGED busVars
  BY <1>3 DEF busVars, jobVars, slotVars, BusInv, TypeInv, TableInv, OutInv, JobInv, SlotInv,
              BusyInv, OfItsNovel, Compose
<1> QED
  BY <1>1, <1>2, <1>3 DEF BusNext

LEMMA BusInvTyped ==
  ASSUME BusInv
  PROVE  BusTypeOK
<1>1. \A i \in DOMAIN events : events[i].job \in Job /\ events[i].novel = NovelOf[events[i].job]
  <2>1. \A i \in DOMAIN events : events[i] \in EventType
    BY DEF BusInv, TypeInv, TableInv
  <2> QED
    BY <2>1 DEF BusInv, TypeInv, TableInv, OfItsNovel, EventType
<1>2. \A j \in Job : marked[j] \in 0..Len(Plan[j])
  BY PlanLength DEF BusInv, TypeInv, JobInv
<1> QED
  BY <1>1, <1>2 DEF BusInv, TypeInv, TableInv, JobInv, SlotInv, BusTypeOK

(* Every row, every job and every slot is what the module says it is, in any *)
(* number of jobs, slots and stages.                                        *)
THEOREM BusTypes == BusSpec => []BusTypeOK
  BY BusInvInit, BusInvNext, BusInvTyped, PTL DEF BusSpec

-----------------------------------------------------------------------------
(* An event holds from the moment a slot means to write it.                 *)

Said(e) ==
  \/ \E i \in DOMAIN events : events[i] = e
  \/ \E w \in Slot : \E k \in DOMAIN out[w] : out[w][k] = e

SayInv == \A e \in EventType : Said(e) => Holds(e)

(* What is saved stays saved. *)
Lasting ==
  /\ drafted \subseteq drafted'
  /\ \A j \in Job : marked[j] <= marked'[j]
  /\ \A j \in Job : runs[j] = "SUCCEEDED" => runs'[j] = "SUCCEEDED"

LEMMA HoldsLasts ==
  ASSUME Lasting, JobInv, JobInv', NEW e \in EventType, Holds(e)
  PROVE  Holds(e)'
<1>1. e.job \in Job
  BY DEF EventType
<1>2. marked[e.job] \in Nat /\ marked'[e.job] \in Nat /\ marked[e.job] <= marked'[e.job]
  BY <1>1 DEF Lasting, JobInv
<1>3. 1..marked[e.job] \subseteq 1..marked'[e.job]
  BY <1>2
<1> QED
  BY <1>1, <1>3 DEF Lasting, Holds

(* A step keeps SayInv when what it means to write holds after it. *)
LEMMA SaysWhatHolds ==
  ASSUME SayInv, Lasting, JobInv, JobInv',
         \A e \in EventType : Said(e)' => Said(e) \/ Holds(e)'
  PROVE  SayInv'
BY HoldsLasts DEF SayInv

LEMMA OneSaid ==
  ASSUME OutInv, NEW w \in Slot, NEW f \in EventType, Say(w, <<f>>), UNCHANGED events,
         NEW e \in EventType, Said(e)'
  PROVE  Said(e) \/ e = f
BY DEF OutInv, Say, Said

LEMMA TwoSaid ==
  ASSUME OutInv, NEW w \in Slot, NEW f \in EventType, NEW g \in EventType,
         Say(w, <<f, g>>), UNCHANGED events,
         NEW e \in EventType, Said(e)'
  PROVE  Said(e) \/ e = f \/ e = g
BY DEF OutInv, Say, Said

LEMMA NoneSaid ==
  ASSUME OutInv, NEW w \in Slot, Say(w, <<>>) \/ UNCHANGED out, UNCHANGED events,
         NEW e \in EventType, Said(e)'
  PROVE  Said(e)
<1>1. CASE Say(w, <<>>)
  BY <1>1, NoneTyped DEF OutInv, Say, Said
<1>2. CASE UNCHANGED out
  BY <1>2 DEF Said
<1> QED
  BY <1>1, <1>2

(* Most events announce nothing that is saved. *)
Plain(e) == e.type \notin {"chapter.ready", "checkpoint.saved"} /\ e.note # "SUCCEEDED"

LEMMA PlainHolds ==
  ASSUME NEW e \in EventType, Plain(e)
  PROVE  Holds(e)'
BY DEF Plain, Holds

LEMMA StepLasts ==
  ASSUME BusInv, [BusNext]_busVars
  PROVE  Lasting
<1>1. \A j \in Job : marked[j] \in Nat /\ marked[j] <= marked[j]
  BY DEF BusInv, TypeInv, JobInv
<1>2. CASE UNCHANGED <<drafted, marked, runs>>
  BY <1>1, <1>2 DEF Lasting
<1>3. ASSUME NEW w \in Slot, Prepare(w) PROVE Lasting
  <2>1. runs[slot[w].job] # "SUCCEEDED"
    BY <1>3 DEF BusInv, TypeInv, SlotInv, BusyInv, Working, Prepare, At
  <2> QED
    BY <1>1, <1>3, <2>1 DEF Lasting, Prepare, BusInv, TypeInv, JobInv
<1>4. ASSUME NEW w \in Slot, Accept(w) PROVE Lasting
  <2>1. CASE UNCHANGED marked
    BY <1>1, <1>4, <2>1 DEF Lasting, Accept
  <2>2. CASE marked' = [marked EXCEPT ![slot[w].job] = @ + 1]
    <3>1. \A j \in Job : marked[j] <= marked'[j]
      BY <1>1, <2>2 DEF BusInv, TypeInv, JobInv
    <3> QED
      BY <1>4, <3>1 DEF Lasting, Accept
  <2> QED
    BY <1>4, <2>1, <2>2 DEF Accept
<1>5. ASSUME NEW w \in Slot, Finalize(w) \/ FinalizeFails(w) PROVE Lasting
  BY <1>1, <1>5 DEF Lasting, Finalize, FinalizeFails
<1>6. ASSUME NEW w \in Slot, Succeed(w) PROVE Lasting
  BY <1>1, <1>6 DEF Lasting, Succeed, BusInv, TypeInv, JobInv
<1>7. ASSUME NEW w \in Slot, SlotStep(w) PROVE Lasting
  <2>1. CASE \/ Emit(w) \/ (\E j \in Job : Start(w, j)) \/ Cancel(w) \/ StartStage(w) \/ Call(w)
             \/ Receive(w) \/ EndOfAnswer(w) \/ Repair(w) \/ Fail(w) \/ Publish(w)
    BY <1>2, <2>1 DEF Emit, Start, Cancel, StartStage, Call, Receive, EndOfAnswer, Repair, Fail,
                      Publish, jobVars
  <2> QED
    BY <1>3, <1>4, <1>5, <1>6, <1>7, <2>1 DEF SlotStep
<1>8. CASE Restart
  BY <1>2, <1>8 DEF Restart
<1>9. CASE UNCHANGED busVars
  BY <1>2, <1>9 DEF busVars, jobVars
<1> QED
  BY <1>7, <1>8, <1>9 DEF BusNext

(* What each step of a slot means to write. *)
LEMMA StepSays ==
  ASSUME BusInv, BusInv', NEW w \in Slot, SlotStep(w), NEW e \in EventType, Said(e)'
  PROVE  Said(e) \/ Holds(e)'
<1> DEFINE j == slot[w].job
<1>1. OutInv /\ JobInv /\ SlotInv /\ JobInv'
  BY DEF BusInv, TypeInv
<1>2. CASE slot[w].pc # "idle" => j \in Job
  <2>1. CASE Emit(w)
    <3> DEFINE s == out[w]
    <3>1. s \in Seq(EventType) /\ s # <<>>
      BY <1>1, <2>1 DEF OutInv, Emit
    <3>2. /\ Head(s) = s[1] /\ 1 \in DOMAIN s
          /\ \A k \in DOMAIN Tail(s) : k + 1 \in DOMAIN s /\ Tail(s)[k] = s[k + 1]
      <4>1. /\ Len(s) \in Nat \ {0} /\ Len(Tail(s)) = Len(s) - 1 /\ Tail(s) \in Seq(EventType)
            /\ \A k \in 1..Len(Tail(s)) : Tail(s)[k] = s[k + 1]
        BY <3>1, HeadTailProperties, EmptySeq
      <4> QED
        BY <3>1, <4>1
    <3>3. CASE \E i \in DOMAIN events' : events'[i] = e
      <4>1. events \in Seq(EventType) /\ Head(s) \in EventType
        BY <3>1, HeadTailProperties DEF BusInv, TypeInv, TableInv
      <4>2. (\E i \in DOMAIN events : events[i] = e) \/ e = Head(s)
        BY <2>1, <3>3, <4>1 DEF Emit
      <4> QED
        BY <3>2, <4>2 DEF Said
    <3>4. CASE \E v \in Slot : \E k \in DOMAIN out'[v] : out'[v][k] = e
      <4>1. PICK v \in Slot : \E k \in DOMAIN out'[v] : out'[v][k] = e
        BY <3>4
      <4>2. out' = [out EXCEPT ![w] = Tail(s)]
        BY <2>1 DEF Emit
      <4> QED
        BY <1>1, <3>2, <4>1, <4>2 DEF OutInv, Said
    <3> QED
      BY <3>3, <3>4 DEF Said
  <2>2. ASSUME NEW i \in Job, Start(w, i) PROVE Said(e) \/ Holds(e)'
    <3> DEFINE f == Row(i, "chapter.status", "", "PLANNING", <<>>, tries[i] + 1)
    <3>1. f \in EventType /\ Plain(f)
      <4>1. <<>> \in Seq(PieceType) /\ tries[i] + 1 \in Nat /\ NovelOf[i] \in Novel
        BY <1>1, RowParts
      <4> QED
        BY <4>1 DEF Row, EventType, Types, Notes, Plain
    <3> QED
      BY <1>1, <2>2, <3>1, OneSaid, PlainHolds DEF Start
  <2>3. CASE Cancel(w)
    <3> DEFINE f == Event(j, "chapter.status", "", "CANCELLED")
    <3>1. f \in EventType /\ Plain(f)
      BY <1>1, <1>2, <2>3, RowParts DEF BusInv, TypeInv, Types, Notes, StageNames, EventType, Event, Row, Plain, Cancel, At
    <3> QED
      BY <1>1, <2>3, <3>1, OneSaid, PlainHolds DEF Cancel
  <2>4. CASE Prepare(w)
    <3> DEFINE f == Event(j, "chapter.status", "", "GENERATING")
               g == Event(j, "agent.run", "", "RUNNING")
    <3>1. f \in EventType /\ Plain(f) /\ g \in EventType /\ Plain(g)
      BY <1>1, <1>2, <2>4, RowParts DEF BusInv, TypeInv, Types, Notes, StageNames, EventType, Event, Row, Plain, Prepare, At
    <3>2. (Say(w, <<f>>) \/ Say(w, <<g>>) \/ Say(w, <<>>)) /\ UNCHANGED events
      BY <2>4 DEF Prepare
    <3> QED
      BY <1>1, <3>1, <3>2, OneSaid, NoneSaid, PlainHolds
  <2>5. CASE StartStage(w)
    <3> DEFINE f == Event(j, "agent.stage", StageOf(j), "running")
    <3>1. j \in Job /\ marked[j] < Len(Plan[j])
      BY <1>2, <2>5 DEF StartStage, At
    <3>2. StageOf(j) \in StageNames
      BY <1>1, <3>1, StageTyped
    <3>3. f \in EventType /\ Plain(f)
      BY <1>1, <3>1, <3>2, RowParts DEF BusInv, TypeInv, Types, Notes, EventType, Event, Row, Plain
    <3> QED
      BY <1>1, <2>5, <3>3, OneSaid, PlainHolds DEF StartStage
  <2>6. CASE Receive(w)
    <3> DEFINE more == Append(buf[w], Piece(w))
               f == Delta(w, more)
    <3>1. slot[w].pc = "stream"
      BY <2>6 DEF Receive, At
    <3>2. more \in Seq(PieceType)
      <4>1. Piece(w) \in PieceType
        BY <1>1, <3>1, DeltaTyped, EmptySeq
      <4> QED
        BY <1>1, <4>1 DEF OutInv
    <3>3. f \in EventType /\ Plain(f)
      <4>1. f \in EventType /\ f.type = "llm.delta"
        BY <1>1, <3>1, <3>2, DeltaTyped
      <4>2. f.note = ""
        BY DEF Delta, Row
      <4> QED
        BY <4>1, <4>2 DEF Plain
    <3>4. (Say(w, <<f>>) \/ UNCHANGED out) /\ UNCHANGED events
      BY <2>6 DEF Receive
    <3> QED
      BY <1>1, <3>3, <3>4, OneSaid, NoneSaid, PlainHolds
  <2>7. CASE EndOfAnswer(w)
    <3> DEFINE f == Delta(w, buf[w])
    <3>1. f \in EventType /\ f.type = "llm.delta"
      BY <1>1, <2>7, DeltaTyped DEF EndOfAnswer, At, OutInv
    <3>2. Plain(f)
      <4>1. f.note = ""
        BY DEF Delta, Row
      <4> QED
        BY <3>1, <4>1 DEF Plain
    <3>3. (Say(w, <<f>>) \/ Say(w, <<>>)) /\ UNCHANGED events
      BY <2>7 DEF EndOfAnswer
    <3> QED
      BY <1>1, <3>1, <3>2, <3>3, OneSaid, NoneSaid, PlainHolds
  <2>8. CASE Call(w) \/ Repair(w) \/ Fail(w) \/ FinalizeFails(w)
    BY <1>1, <2>8, NoneSaid DEF Call, Repair, Fail, FinalizeFails
  <2>9. CASE Publish(w)
    <3> DEFINE f == Event(j, "llm.text", "", "")
    <3>1. f \in EventType /\ Plain(f)
      BY <1>1, <1>2, <2>9, RowParts DEF BusInv, TypeInv, Types, Notes, StageNames, EventType, Event, Row, Plain, Publish, At
    <3> QED
      BY <1>1, <2>9, <3>1, OneSaid, PlainHolds DEF Publish
  <2>10. CASE Accept(w)
    <3>1. CASE Compose(j)
      BY <1>1, <2>10, <3>1, NoneSaid DEF Accept
    <3>2. CASE ~Compose(j)
      <4> DEFINE f == Event(j, "agent.stage", StageOf(j), "done")
                 g == Event(j, "checkpoint.saved", StageOf(j), "")
      <4>1. j \in Job /\ marked[j] \in Nat /\ marked[j] < Len(Plan[j])
        BY <1>1, <1>2, <2>10, <3>2 DEF Accept, At, SlotInv, JobInv
      <4>2. StageOf(j) \in StageNames
        BY <1>1, <4>1, StageTyped
      <4>3. /\ f \in EventType /\ Plain(f)
            /\ g \in EventType /\ g.type = "checkpoint.saved" /\ g.job = j /\ g.stage = StageOf(j)
        BY <1>1, <4>1, <4>2, RowParts DEF BusInv, TypeInv, Types, Notes, EventType, Event, Row, Plain
      <4>4. Say(w, <<f, g>>) /\ UNCHANGED events
        BY <2>10, <3>2 DEF Accept
      <4> HIDE DEF f, g
      <4>5. Said(e) \/ e = f \/ e = g
        BY <1>1, <4>3, <4>4, TwoSaid
      <4>6. ASSUME e = g PROVE Holds(e)'
        <5>1. marked'[j] = marked[j] + 1
          BY <1>1, <2>10, <3>2, <4>1 DEF Accept, JobInv
        <5>2. marked[j] + 1 \in 1..marked'[j] /\ Plan[j][marked[j] + 1] = StageOf(j)
          BY <3>2, <4>1, <5>1 DEF StageOf
        <5> QED
          BY <4>3, <4>6, <5>2 DEF Holds
      <4> QED
        BY <4>3, <4>5, <4>6, PlainHolds
    <3> QED
      BY <3>1, <3>2
  <2>11. CASE Finalize(w)
    <3> DEFINE f == Event(j, "chapter.ready", "", "")
    <3>1. f \in EventType /\ f.type = "chapter.ready" /\ f.job = j /\ f.note = ""
      BY <1>1, <1>2, <2>11, RowParts DEF BusInv, TypeInv, Types, Notes, StageNames, EventType, Event, Row, Finalize, At
    <3>2. ASSUME e = f PROVE Holds(e)'
      BY <2>11, <3>1, <3>2 DEF Holds, Finalize
    <3>3. (Say(w, <<f>>) \/ UNCHANGED out) /\ UNCHANGED events
      BY <2>11 DEF Finalize
    <3> QED
      BY <1>1, <3>1, <3>2, <3>3, OneSaid, NoneSaid
  <2>12. CASE Succeed(w)
    <3> DEFINE f == Event(j, "agent.run", "", "SUCCEEDED")
               g == Event(j, "chapter.ready", "", "")
    <3>1. /\ f \in EventType /\ f.type = "agent.run" /\ f.job = j
          /\ g \in EventType /\ g.type = "chapter.ready" /\ g.job = j /\ g.note = ""
      BY <1>1, <1>2, <2>12, RowParts DEF BusInv, TypeInv, Types, Notes, StageNames, EventType, Event, Row, Succeed, At
    <3>2. j \in Job /\ j \in drafted /\ drafted' = drafted /\ runs'[j] = "SUCCEEDED"
      BY <1>1, <1>2, <2>12 DEF Succeed, At, BusInv, BusyInv, JobInv
    <3>3. Say(w, <<f, g>>) /\ UNCHANGED events
      BY <2>12 DEF Succeed
    <3>4. Said(e) \/ e = f \/ e = g
      BY <1>1, <3>1, <3>3, TwoSaid
    <3> QED
      BY <3>1, <3>2, <3>4 DEF Holds
  <2> QED
    BY <2>1, <2>2, <2>3, <2>4, <2>5, <2>6, <2>7, <2>8, <2>9, <2>10, <2>11, <2>12 DEF SlotStep
<1> QED
  BY <1>1, <1>2 DEF SlotInv

LEMMA SayInvNext == BusInv /\ SayInv /\ [BusNext]_busVars => SayInv'
<1> SUFFICES ASSUME BusInv, SayInv, [BusNext]_busVars PROVE SayInv'
  OBVIOUS
<1>1. BusInv' /\ Lasting /\ JobInv /\ JobInv'
  BY BusInvNext, StepLasts DEF BusInv, TypeInv
<1>2. ASSUME NEW e \in EventType, Said(e)' PROVE Said(e) \/ Holds(e)'
  <2>1. ASSUME NEW w \in Slot, SlotStep(w) PROVE Said(e) \/ Holds(e)'
    BY <1>1, <1>2, <2>1, StepSays
  <2>2. CASE Restart
    <3>1. UNCHANGED events /\ out' = [w \in Slot |-> <<>>] /\ DOMAIN <<>> = {}
      BY <2>2, EmptySeq DEF Restart
    <3> QED
      BY <1>2, <3>1 DEF Said
  <2>3. CASE UNCHANGED busVars
    BY <1>2, <2>3 DEF busVars, slotVars, Said
  <2> QED
    BY <2>1, <2>2, <2>3 DEF BusNext
<1> QED
  BY <1>1, <1>2, SaysWhatHolds

LEMMA SayInvInit == BusInit => SayInv
<1> SUFFICES ASSUME BusInit PROVE SayInv
  OBVIOUS
<1>1. DOMAIN <<>> = {}
  BY EmptySeq
<1> QED
  BY <1>1 DEF BusInit, SayInv, Said

(* No event reaches the table before the draft, the checkpoint or the end of *)
(* the run that it announces is in the database, and none is made false by   *)
(* what crashes, failures and later tries do (service.py, stages.py,         *)
(* events.py).                                                              *)
THEOREM EventsAnnounceWhatIsSaved == BusSpec => []AnnouncedIsSaved
<1>1. ASSUME BusInv, SayInv PROVE AnnouncedIsSaved
  <2>1. ASSUME NEW i \in DOMAIN events PROVE Holds(events[i])
    <3>1. events[i] \in EventType /\ Said(events[i])
      BY <1>1, <2>1 DEF BusInv, TypeInv, TableInv, Said
    <3> QED
      BY <1>1, <3>1 DEF SayInv
  <2> QED
    BY <2>1 DEF AnnouncedIsSaved
<1> QED
  BY <1>1, BusInvInit, BusInvNext, SayInvInit, SayInvNext, PTL DEF BusSpec

-----------------------------------------------------------------------------
(* The pieces of an answer.                                                  *)
(*                                                                         *)
(* A piece is in the buffer of its slot, then in an event to be emitted,      *)
(* then in the table.  The operators take the parts of the state they speak   *)
(* of: the table es; and of one slot its record s, the try t and the stage g  *)
(* of its job, its buffer b, its events o to emit; f counts what was lost.    *)

IsDelta(e) == e.type = "llm.delta"
Last(ps) == ps[Len(ps)]

(* Pieces of one call that follow one another. *)
Run(ps) == \A k \in DOMAIN ps : ps[k] = [ps[1] EXCEPT !.at = @ + k - 1]

Whole(e) ==
  /\ e.pieces # <<>> /\ Run(e.pieces)
  /\ e.pieces[1].job = e.job /\ e.pieces[1].try = e.try /\ e.pieces[1].stage = e.stage

(* The rows with text of one try of a job. *)
TextRows(es, j, t) == {i \in DOMAIN es : IsDelta(es[i]) /\ es[i].job = j /\ es[i].try = t}

TableSound(es, ts) ==
  /\ \A i \in DOMAIN es : IsDelta(es[i]) => Whole(es[i]) /\ es[i].try <= ts[es[i].job]
  /\ \A h, i \in DOMAIN es :
       /\ h < i /\ IsDelta(es[h]) /\ IsDelta(es[i])
       /\ es[h].job = es[i].job /\ es[h].try = es[i].try
       => After(Last(es[h].pieces), es[i].pieces[1])

(* Piece number a of the call that a slot is in. *)
PieceAt(s, t, g, a) == [job |-> s.job, try |-> t, stage |-> g, call |-> s.call, at |-> a]
OfCall(ps, s, t, g) == \A k \in DOMAIN ps : \E a \in 1..s.got : ps[k] = PieceAt(s, t, g, a)

(* What the slot holds comes after what is in the table, and the piece it    *)
(* gets next after what it holds.                                           *)
Upcoming(s, t, g, b) == Append(b, PieceAt(s, t, g, s.got + 1))

BufferSound(es, s, t, g, b) ==
  /\ s.pc # "stream" => b = <<>>
  /\ Run(Upcoming(s, t, g, b)) /\ OfCall(b, s, t, g)
  /\ \A i \in TextRows(es, s.job, t) : After(Last(es[i].pieces), Upcoming(s, t, g, b)[1])

OutSound(es, s, t, g, b, o) ==
  \A k \in DOMAIN o : IsDelta(o[k]) =>
    /\ s.pc \in {"stream", "answer"} /\ Len(o) = 1 /\ b = <<>>
    /\ Whole(o[k]) /\ o[k].job = s.job /\ o[k].try = t /\ OfCall(o[k].pieces, s, t, g)
    /\ \A i \in TextRows(es, s.job, t) : After(Last(es[i].pieces), o[k].pieces[1])

(* Nothing but pieces of the call is taken for its text, and when nothing    *)
(* was lost, each is somewhere.                                              *)
In(ps, p) == \E k \in DOMAIN ps : ps[k] = p
InRows(es, p) == \E i \in DOMAIN es : IsDelta(es[i]) /\ In(es[i].pieces, p)

CallSound(es, s, t, g, b, o, f) ==
  /\ \A i \in TextRows(es, s.job, t) : \A k \in DOMAIN es[i].pieces :
       es[i].pieces[k].call = s.call => \E a \in 1..s.got : es[i].pieces[k] = PieceAt(s, t, g, a)
  /\ f = 0 => \A a \in 1..s.got :
       LET p == PieceAt(s, t, g, a) IN InRows(es, p) \/ InRows(o, p) \/ In(b, p)

SlotSound(es, s, t, g, b, o, f) ==
  /\ s.pc # "idle" => BufferSound(es, s, t, g, b)
  /\ OutSound(es, s, t, g, b, o)
  /\ s.pc \in {"stream", "answer"} => CallSound(es, s, t, g, b, o, f)

TryOf(w) == tries[slot[w].job]
TextInv ==
  /\ TableSound(events, tries)
  /\ \A w \in Slot :
       SlotSound(events, slot[w], TryOf(w), StageOf(slot[w].job), buf[w], out[w], faults)

(* A run of pieces is of one call, and its last piece is not before its      *)
(* first.                                                                   *)
LEMMA RunOfOneCall ==
  ASSUME NEW ps \in Seq(PieceType), ps # <<>>, Run(ps)
  PROVE  /\ 1 \in DOMAIN ps /\ Len(ps) \in DOMAIN ps /\ Len(ps) \in Nat \ {0}
         /\ \A k \in DOMAIN ps :
              /\ ps[k] \in PieceType /\ ps[k].at = ps[1].at + k - 1
              /\ ps[k].job = ps[1].job /\ ps[k].try = ps[1].try /\ ps[k].stage = ps[1].stage
              /\ ps[k].call = ps[1].call
         /\ Last(ps) \in PieceType /\ Last(ps).call = ps[1].call /\ Last(ps).at >= ps[1].at
<1>1. 1 \in DOMAIN ps /\ Len(ps) \in DOMAIN ps /\ Len(ps) \in Nat \ {0}
  BY EmptySeq
<1>2. ASSUME NEW k \in DOMAIN ps
      PROVE  /\ ps[k] \in PieceType /\ ps[k].at = ps[1].at + k - 1
             /\ ps[k].job = ps[1].job /\ ps[k].try = ps[1].try /\ ps[k].stage = ps[1].stage
             /\ ps[k].call = ps[1].call
  <2>1. ps[k] \in PieceType /\ ps[1] \in PieceType /\ k \in Nat
    BY <1>1, <1>2
  <2>2. ps[k] = [ps[1] EXCEPT !.at = @ + k - 1]
    BY <1>2 DEF Run
  <2> QED
    BY <2>1, <2>2 DEF PieceType
<1>3. Last(ps) \in PieceType /\ Last(ps).call = ps[1].call /\ Last(ps).at >= ps[1].at
  <2>1. ps[1].at \in Nat
    BY <1>1, <1>2 DEF PieceType
  <2> QED
    BY <1>1, <1>2, <2>1 DEF Last
<1> QED
  BY <1>1, <1>2, <1>3

(* The same of the pieces of a row. *)
LEMMA PiecesOfRow ==
  ASSUME NEW e \in EventType, Whole(e)
  PROVE  /\ 1 \in DOMAIN e.pieces /\ Len(e.pieces) \in DOMAIN e.pieces
         /\ Last(e.pieces) \in PieceType /\ Last(e.pieces).call = e.pieces[1].call
         /\ Last(e.pieces).at >= e.pieces[1].at
         /\ \A k \in DOMAIN e.pieces :
              /\ e.pieces[k] \in PieceType /\ e.pieces[k].at = e.pieces[1].at + k - 1
              /\ e.pieces[k].job = e.job /\ e.pieces[k].try = e.try /\ e.pieces[k].stage = e.stage
              /\ e.pieces[k].call = e.pieces[1].call
<1>1. e.pieces \in Seq(PieceType)
  BY DEF EventType
<1> QED
  BY <1>1, RunOfOneCall DEF Whole

LEMMA PieceRecord ==
  ASSUME NEW s \in SlotType, NEW t, NEW g, NEW a \in Nat
  PROVE  /\ PieceAt(s, t, g, a).call = s.call /\ PieceAt(s, t, g, a).at = a
         /\ PieceAt(s, t, g, a).job = s.job /\ PieceAt(s, t, g, a).try = t
         /\ PieceAt(s, t, g, a).stage = g
         /\ s.call \in Nat /\ s.got \in Nat /\ s.got + 1 \in Nat
BY DEF PieceAt, SlotType

(* The first of what a slot holds or gets next. *)
LEMMA UpcomingPieces ==
  ASSUME NEW s \in SlotType, NEW t, NEW g, NEW b \in Seq(PieceType)
  PROVE  /\ b = <<>> => Upcoming(s, t, g, b) = <<PieceAt(s, t, g, s.got + 1)>>
         /\ b = <<>> => Upcoming(s, t, g, b)[1] = PieceAt(s, t, g, s.got + 1)
         /\ b # <<>> => Upcoming(s, t, g, b)[1] = b[1] /\ 1 \in DOMAIN b
         /\ Len(Upcoming(s, t, g, b)) = Len(b) + 1
         /\ \A k \in DOMAIN b : Upcoming(s, t, g, b)[k] = b[k]
         /\ Last(Upcoming(s, t, g, b)) = PieceAt(s, t, g, s.got + 1)
         /\ DOMAIN Upcoming(s, t, g, b) = 1..(Len(b) + 1) /\ DOMAIN b = 1..Len(b) /\ Len(b) \in Nat
<1> DEFINE p == PieceAt(s, t, g, s.got + 1)
           S == PieceType \cup {p}
<1>1. Upcoming(s, t, g, b) = Append(b, p)
  BY DEF Upcoming
<1>2. b \in Seq(S) /\ p \in S
  OBVIOUS
<1> HIDE DEF p, S
<1>3. /\ Append(b, p) \in Seq(S) /\ Len(Append(b, p)) = Len(b) + 1 /\ Len(b) \in Nat
      /\ Append(b, p)[Len(b) + 1] = p /\ \A k \in 1..Len(b) : Append(b, p)[k] = b[k]
      /\ DOMAIN b = 1..Len(b) /\ DOMAIN Append(b, p) = 1..(Len(b) + 1)
  BY <1>2, AppendProperties
<1>4. b = <<>> => Append(b, p) = <<p>> /\ Len(b) = 0
  BY <1>2
<1>5. b # <<>> => 1 \in DOMAIN b
  BY <1>2, EmptySeq
<1> QED
  BY <1>1, <1>3, <1>4, <1>5 DEF Last, p

LEMMA UpcomingAlone ==
  ASSUME NEW s, NEW t, NEW g
  PROVE  /\ Upcoming(s, t, g, <<>>) = <<PieceAt(s, t, g, s.got + 1)>>
         /\ Upcoming(s, t, g, <<>>)[1] = PieceAt(s, t, g, s.got + 1)
<1> DEFINE p == PieceAt(s, t, g, s.got + 1)
<1> HIDE DEF p
<1>1. Append(<<>>, p) = <<p>> /\ <<p>>[1] = p
  OBVIOUS
<1> QED
  BY <1>1 DEF Upcoming, p

(* One piece is a run. *)
LEMMA RunOfOne ==
  ASSUME NEW s \in SlotType, NEW t, NEW g, NEW a \in Nat
  PROVE  Run(<<PieceAt(s, t, g, a)>>)
<1> DEFINE p == PieceAt(s, t, g, a)
<1>1. p = [p EXCEPT !.at = @ + 1 - 1]
  BY DEF PieceAt
<1> HIDE DEF p
<1>2. DOMAIN <<p>> = {1} /\ <<p>>[1] = p
  OBVIOUS
<1> QED
  BY <1>1, <1>2 DEF Run, p

(* A slot without text in hand: what it needs to be sound. *)
LEMMA NothingHeld ==
  ASSUME NEW es, NEW s \in SlotType, NEW t, NEW g,
         \A i \in TextRows(es, s.job, t) : After(Last(es[i].pieces), PieceAt(s, t, g, s.got + 1))
  PROVE  BufferSound(es, s, t, g, <<>>)
<1>1. <<>> \in Seq(PieceType) /\ DOMAIN <<>> = {}
  BY EmptySeq
<1>2. s.got + 1 \in Nat
  BY DEF SlotType
<1>3. Run(Upcoming(s, t, g, <<>>))
  BY <1>2, UpcomingAlone, RunOfOne
<1> QED
  BY <1>1, <1>3, UpcomingAlone DEF BufferSound, OfCall

(* What holds of a slot that is not in a call does not depend on the stage   *)
(* it is in.                                                                *)
LEMMA SoundBetweenCalls ==
  ASSUME NEW es, NEW s \in SlotType, NEW t, NEW g, NEW b \in Seq(PieceType), NEW o, NEW f,
         SlotSound(es, s, t, g, b, o, f), s.pc \notin {"idle", "stream"},
         NEW r \in SlotType, NEW h, NEW q, NEW u, r.pc \notin {"stream", "answer"},
         r.job = s.job, r.call = s.call, r.got = s.got,
         \A k \in DOMAIN q : ~IsDelta(q[k])
  PROVE  SlotSound(es, r, t, h, b, q, u)
<1>1. b = <<>>
  BY DEF SlotSound, BufferSound
<1>2. \A i \in TextRows(es, r.job, t) : After(Last(es[i].pieces), PieceAt(r, t, h, r.got + 1))
  <2>1. \A i \in TextRows(es, s.job, t) : After(Last(es[i].pieces), PieceAt(s, t, g, s.got + 1))
    BY <1>1, UpcomingAlone DEF SlotSound, BufferSound
  <2> QED
    BY <2>1 DEF After, PieceAt
<1>3. BufferSound(es, r, t, h, b)
  BY <1>1, <1>2, NothingHeld
<1> QED
  BY <1>3 DEF SlotSound, OutSound

(* A slot that has left its job. *)
LEMMA SoundIdle ==
  ASSUME NEW es, NEW s, NEW t, NEW g, NEW b, NEW o, NEW f, s.pc = "idle",
         \A k \in DOMAIN o : ~IsDelta(o[k])
  PROVE  SlotSound(es, s, t, g, b, o, f)
BY DEF SlotSound, OutSound

(* A slot that has just claimed a job: its try has no rows yet. *)
LEMMA SoundClaimed ==
  ASSUME NEW es, NEW s \in SlotType, NEW t, NEW g, NEW o, NEW f, s.pc = "planned",
         TextRows(es, s.job, t) = {}, \A k \in DOMAIN o : ~IsDelta(o[k])
  PROVE  SlotSound(es, s, t, g, <<>>, o, f)
<1>1. BufferSound(es, s, t, g, <<>>)
  BY NothingHeld
<1> QED
  BY <1>1 DEF SlotSound, OutSound

-----------------------------------------------------------------------------
(* What a row added to the table changes.                                   *)

LEMMA AppendedRow ==
  ASSUME NEW es \in Seq(EventType), NEW e \in EventType
  PROVE  /\ DOMAIN es = 1..Len(es) /\ Len(es) \in Nat
         /\ DOMAIN Append(es, e) = 1..(Len(es) + 1) /\ Append(es, e)[Len(es) + 1] = e
         /\ \A i \in DOMAIN es : Append(es, e)[i] = es[i] /\ es[i] \in EventType
BY AppendProperties

LEMMA StillInRows ==
  ASSUME NEW es \in Seq(EventType), NEW e \in EventType, NEW p, InRows(es, p)
  PROVE  InRows(Append(es, e), p)
<1>1. PICK i \in DOMAIN es : IsDelta(es[i]) /\ In(es[i].pieces, p)
  BY DEF InRows
<1>2. i \in DOMAIN Append(es, e) /\ Append(es, e)[i] = es[i]
  BY AppendedRow
<1> QED
  BY <1>1, <1>2 DEF InRows

(* A row that is not text of the try a slot is in. *)
LEMMA OtherRowKeeps ==
  ASSUME NEW es \in Seq(EventType), NEW e \in EventType,
         NEW s, NEW t, NEW g, NEW b, NEW o, NEW f, SlotSound(es, s, t, g, b, o, f),
         s.pc # "idle" => ~(IsDelta(e) /\ e.job = s.job /\ e.try = t)
  PROVE  SlotSound(Append(es, e), s, t, g, b, o, f)
<1> DEFINE fs == Append(es, e)
<1>1. ASSUME s.pc # "idle", NEW i \in TextRows(fs, s.job, t)
      PROVE  i \in TextRows(es, s.job, t) /\ fs[i] = es[i]
  <2>1. i \in 1..(Len(es) + 1) /\ IsDelta(fs[i]) /\ fs[i].job = s.job /\ fs[i].try = t
    BY <1>1, AppendedRow DEF TextRows
  <2>2. i # Len(es) + 1
    BY <1>1, <2>1, AppendedRow
  <2>3. i \in DOMAIN es /\ fs[i] = es[i]
    BY <2>1, <2>2, AppendedRow
  <2> QED
    BY <2>1, <2>3 DEF TextRows
<1>2. \A p : InRows(es, p) => InRows(fs, p)
  BY StillInRows
<1> HIDE DEF fs
<1>3. s.pc # "idle" => BufferSound(fs, s, t, g, b)
  BY <1>1 DEF SlotSound, BufferSound
<1>4. OutSound(fs, s, t, g, b, o)
  BY <1>1 DEF SlotSound, OutSound
<1>5. s.pc \in {"stream", "answer"} => CallSound(fs, s, t, g, b, o, f)
  BY <1>1, <1>2 DEF SlotSound, CallSound
<1> QED
  BY <1>3, <1>4, <1>5 DEF SlotSound, fs

(* A row that is not text keeps the table in order. *)
LEMMA PlainRowKeepsTable ==
  ASSUME NEW es \in Seq(EventType), NEW e \in EventType, ~IsDelta(e), NEW ts, TableSound(es, ts)
  PROVE  TableSound(Append(es, e), ts)
<1> DEFINE fs == Append(es, e)
<1>1. ASSUME NEW i \in DOMAIN fs, IsDelta(fs[i]) PROVE i \in DOMAIN es /\ fs[i] = es[i]
  <2>1. i \in 1..(Len(es) + 1) /\ Len(es) \in Nat
    BY <1>1, AppendedRow
  <2>2. i # Len(es) + 1
    BY <1>1, AppendedRow
  <2> QED
    BY <2>1, <2>2, AppendedRow
<1> HIDE DEF fs
<1>2. TableSound(fs, ts)
  BY <1>1 DEF TableSound
<1> QED
  BY <1>2 DEF fs

(* The text that a slot had to emit, written. *)
LEMMA OwnTextWritten ==
  ASSUME NEW es \in Seq(EventType), NEW d \in EventType, IsDelta(d), NEW ts, TableSound(es, ts),
         NEW s \in SlotType, NEW t \in Nat, NEW g, NEW b, NEW f,
         SlotSound(es, s, t, g, b, <<d>>, f), ts[s.job] = t
  PROVE  TableSound(Append(es, d), ts) /\ SlotSound(Append(es, d), s, t, g, b, <<>>, f)
<1> DEFINE fs == Append(es, d)
<1>1. DOMAIN <<d>> = {1} /\ <<d>>[1] = d /\ DOMAIN <<>> = {}
  BY EmptySeq
<1>2. /\ s.pc \in {"stream", "answer"} /\ b = <<>>
      /\ Whole(d) /\ d.job = s.job /\ d.try = t /\ OfCall(d.pieces, s, t, g)
      /\ \A i \in TextRows(es, s.job, t) : After(Last(es[i].pieces), d.pieces[1])
  <2>1. OutSound(es, s, t, g, b, <<d>>)
    BY DEF SlotSound
  <2> QED
    BY <1>1, <2>1 DEF OutSound
<1>3. \A i \in DOMAIN fs : (i \in DOMAIN es /\ fs[i] = es[i]) \/ (i = Len(es) + 1 /\ fs[i] = d)
  <2>1. \A i \in 1..(Len(es) + 1) : i \in 1..Len(es) \/ i = Len(es) + 1
    BY AppendedRow
  <2> QED
    BY <2>1, AppendedRow
<1>4. \A i \in DOMAIN es : i <= Len(es)
  BY AppendedRow
<1>5. Len(es) \in Nat /\ DOMAIN es \subseteq Nat
  BY AppendedRow
<1>6. ASSUME NEW i \in TextRows(fs, s.job, t)
      PROVE  (i \in TextRows(es, s.job, t) /\ fs[i] = es[i]) \/ fs[i] = d
  BY <1>3, <1>6 DEF TextRows
<1>7. \A p : InRows(es, p) => InRows(fs, p)
  BY StillInRows
<1>8. Len(es) + 1 \in DOMAIN fs /\ fs[Len(es) + 1] = d
  BY AppendedRow
<1> HIDE DEF fs
<1>9. TableSound(fs, ts)
  <2>1. ASSUME NEW i \in DOMAIN fs, IsDelta(fs[i])
        PROVE  Whole(fs[i]) /\ fs[i].try <= ts[fs[i].job]
    BY <1>2, <1>3, <2>1 DEF TableSound
  <2>2. ASSUME NEW h \in DOMAIN fs, NEW i \in DOMAIN fs, h < i, IsDelta(fs[h]), IsDelta(fs[i]),
               fs[h].job = fs[i].job, fs[h].try = fs[i].try
        PROVE  After(Last(fs[h].pieces), fs[i].pieces[1])
    <3>1. h \in DOMAIN es /\ fs[h] = es[h]
      BY <1>3, <1>4, <1>5, <2>2
    <3>2. CASE i \in DOMAIN es /\ fs[i] = es[i]
      BY <2>2, <3>1, <3>2 DEF TableSound
    <3>3. CASE fs[i] = d
      BY <1>2, <2>2, <3>1, <3>3 DEF TextRows
    <3> QED
      BY <1>3, <3>2, <3>3
  <2> QED
    BY <2>1, <2>2 DEF TableSound
<1>10. BufferSound(fs, s, t, g, <<>>)
  <2>1. \A i \in TextRows(es, s.job, t) : After(Last(es[i].pieces), PieceAt(s, t, g, s.got + 1))
    BY <1>2, UpcomingAlone DEF SlotSound, BufferSound
  <2>2. After(Last(d.pieces), PieceAt(s, t, g, s.got + 1))
    <3>1. PICK a \in 1..s.got : Last(d.pieces) = PieceAt(s, t, g, a)
      BY <1>2, PiecesOfRow DEF OfCall, Last
    <3>2. s.got \in Nat /\ a \in Nat /\ a < s.got + 1
      BY DEF SlotType
    <3> QED
      BY <3>1, <3>2 DEF After, PieceAt
  <2> QED
    BY <1>6, <2>1, <2>2, NothingHeld
<1>11. CallSound(fs, s, t, g, <<>>, <<>>, f)
  <2>1. CallSound(es, s, t, g, <<>>, <<d>>, f)
    BY <1>2 DEF SlotSound
  <2>2. ASSUME NEW i \in TextRows(fs, s.job, t), NEW k \in DOMAIN fs[i].pieces,
               fs[i].pieces[k].call = s.call
        PROVE  \E a \in 1..s.got : fs[i].pieces[k] = PieceAt(s, t, g, a)
    BY <1>2, <1>6, <2>1, <2>2 DEF CallSound, OfCall
  <2>3. ASSUME f = 0, NEW a \in 1..s.got
        PROVE  InRows(fs, PieceAt(s, t, g, a))
    <3> DEFINE p == PieceAt(s, t, g, a)
    <3>1. InRows(es, p) \/ InRows(<<d>>, p) \/ In(<<>>, p)
      BY <2>1, <2>3 DEF CallSound
    <3>2. ~In(<<>>, p)
      BY <1>1 DEF In
    <3>3. ASSUME InRows(<<d>>, p) PROVE In(d.pieces, p)
      BY <1>1, <3>3 DEF InRows
    <3> QED
      BY <1>7, <1>8, <3>1, <3>2, <3>3 DEF InRows
  <2> QED
    BY <2>2, <2>3 DEF CallSound
<1>12. OutSound(fs, s, t, g, b, <<>>)
  BY <1>1 DEF OutSound
<1> QED
  BY <1>2, <1>9, <1>10, <1>11, <1>12 DEF SlotSound, fs

(* Events that are not text come and go. *)
LEMMA PlainOutKeeps ==
  ASSUME NEW es, NEW s, NEW t, NEW g, NEW b, NEW o, NEW f, SlotSound(es, s, t, g, b, o, f),
         NEW q, NEW u, \A k \in DOMAIN q : ~IsDelta(q[k]),
         u # 0 \/ (u = f /\ \A k \in DOMAIN o : ~IsDelta(o[k]))
  PROVE  SlotSound(es, s, t, g, b, q, u)
<1>1. OutSound(es, s, t, g, b, q)
  BY DEF OutSound
<1>2. s.pc \in {"stream", "answer"} => CallSound(es, s, t, g, b, q, u)
  <2>1. (\A k \in DOMAIN o : ~IsDelta(o[k])) => \A p : ~InRows(o, p)
    BY DEF InRows
  <2> QED
    BY <2>1 DEF SlotSound, CallSound
<1> QED
  BY <1>1, <1>2 DEF SlotSound

(* Behind the first event to emit there is no text. *)
LEMMA TailIsPlain ==
  ASSUME NEW es, NEW s, NEW t, NEW g, NEW b, NEW o \in Seq(EventType), o # <<>>,
         OutSound(es, s, t, g, b, o)
  PROVE  /\ \A k \in DOMAIN Tail(o) : ~IsDelta(Tail(o)[k])
         /\ IsDelta(Head(o)) => o = <<Head(o)>>
         /\ ~IsDelta(Head(o)) => \A k \in DOMAIN o : ~IsDelta(o[k])
         /\ Head(o) \in EventType
<1>1. /\ Head(o) = o[1] /\ Head(o) \in EventType /\ Len(o) \in Nat \ {0} /\ DOMAIN o = 1..Len(o)
      /\ DOMAIN Tail(o) = 1..(Len(o) - 1)
      /\ \A k \in 1..(Len(o) - 1) : Tail(o)[k] = o[k + 1]
  BY HeadTailProperties, EmptySeq
<1>2. \A k \in DOMAIN o : IsDelta(o[k]) => Len(o) = 1
  BY DEF OutSound
<1>3. ASSUME NEW k \in DOMAIN Tail(o), IsDelta(Tail(o)[k]) PROVE FALSE
  <2>1. k + 1 \in DOMAIN o /\ Tail(o)[k] = o[k + 1] /\ k \in 1..(Len(o) - 1)
    BY <1>1, <1>3
  <2> QED
    BY <1>1, <1>2, <1>3, <2>1
<1>4. Len(o) = 1 => o = <<Head(o)>>
  BY <1>1
<1>5. ASSUME ~IsDelta(Head(o)), NEW k \in DOMAIN o, IsDelta(o[k]) PROVE FALSE
  <2>1. k = 1
    BY <1>1, <1>2, <1>5
  <2> QED
    BY <1>1, <1>5, <2>1
<1>6. IsDelta(Head(o)) => Len(o) = 1
  BY <1>1, <1>2
<1> QED
  BY <1>1, <1>3, <1>4, <1>5, <1>6

-----------------------------------------------------------------------------
(* What a call, a piece and the end of an answer change.                    *)

(* A new call: no piece of it is in the table. *)
LEMMA NewCall ==
  ASSUME NEW es \in Seq(EventType), NEW ts, TableSound(es, ts),
         NEW s \in SlotType, NEW t, NEW g, NEW b \in Seq(PieceType), NEW f,
         SlotSound(es, s, t, g, b, <<>>, f), s.pc = "call",
         NEW r \in SlotType, r.pc = "stream", r.job = s.job, r.call = s.call + 1, r.got = 0
  PROVE  SlotSound(es, r, t, g, b, <<>>, f)
<1>1. b = <<>> /\ DOMAIN <<>> = {}
  BY EmptySeq DEF SlotSound, BufferSound
<1>2. s.call \in Nat /\ s.got \in Nat
  BY DEF SlotType
<1>3. ASSUME NEW i \in TextRows(es, r.job, t)
      PROVE  /\ es[i] \in EventType /\ Whole(es[i]) /\ Last(es[i].pieces).call < r.call
             /\ \A k \in DOMAIN es[i].pieces : es[i].pieces[k].call < r.call
  <2>1. i \in TextRows(es, s.job, t) /\ i \in DOMAIN es /\ es[i] \in EventType /\ Whole(es[i])
    BY <1>3 DEF TextRows, TableSound
  <2>2. After(Last(es[i].pieces), PieceAt(s, t, g, s.got + 1))
    BY <1>1, <2>1, UpcomingAlone DEF SlotSound, BufferSound
  <2>3. Last(es[i].pieces).call \in Nat
    BY <2>1, PiecesOfRow DEF PieceType
  <2>4. Last(es[i].pieces).call < r.call
    BY <1>2, <2>2, <2>3 DEF After, PieceAt
  <2>5. \A k \in DOMAIN es[i].pieces : es[i].pieces[k].call = Last(es[i].pieces).call
    BY <2>1, PiecesOfRow
  <2> QED
    BY <2>1, <2>4, <2>5
<1>4. \A i \in TextRows(es, r.job, t) : After(Last(es[i].pieces), PieceAt(r, t, g, r.got + 1))
  BY <1>3 DEF After, PieceAt
<1>5. BufferSound(es, r, t, g, b)
  BY <1>1, <1>4, NothingHeld
<1>6. CallSound(es, r, t, g, b, <<>>, f)
  <2>1. \A i \in TextRows(es, r.job, t) : \A k \in DOMAIN es[i].pieces :
          es[i].pieces[k].call # r.call
    <3>1. r.call \in Nat
      BY DEF SlotType
    <3> QED
      BY <1>3, <3>1
  <2>2. \A a \in 1..r.got : FALSE
    OBVIOUS
  <2> QED
    BY <2>1, <2>2 DEF CallSound
<1>7. OutSound(es, r, t, g, b, <<>>)
  BY <1>1 DEF OutSound
<1> QED
  BY <1>5, <1>6, <1>7 DEF SlotSound

(* A piece more in the buffer. *)
LEMMA PieceKept ==
  ASSUME NEW es, NEW s \in SlotType, NEW t, NEW g, NEW b \in Seq(PieceType), NEW f,
         SlotSound(es, s, t, g, b, <<>>, f), s.pc = "stream",
         NEW r \in SlotType, r.pc = "stream", r.job = s.job, r.call = s.call, r.got = s.got + 1,
         Upcoming(s, t, g, b) \in Seq(PieceType)
  PROVE  SlotSound(es, r, t, g, Upcoming(s, t, g, b), <<>>, f)
<1> DEFINE more == Upcoming(s, t, g, b)
           next == PieceAt(s, t, g, s.got + 1)
<1>1. /\ Len(more) = Len(b) + 1 /\ Len(b) \in Nat /\ more # <<>> /\ DOMAIN b = 1..Len(b)
      /\ DOMAIN more = 1..(Len(b) + 1) /\ Last(more) = next
      /\ \A k \in DOMAIN b : more[k] = b[k]
  BY UpcomingPieces, EmptySeq
<1>2. \A a : PieceAt(r, t, g, a) = PieceAt(s, t, g, a)
  BY DEF PieceAt
<1>3. s.got \in Nat /\ 1..r.got = 1..s.got \cup {s.got + 1}
  BY DEF SlotType
<1>4. /\ Run(more) /\ OfCall(b, s, t, g)
      /\ \A i \in TextRows(es, s.job, t) : After(Last(es[i].pieces), more[1])
  BY DEF SlotSound, BufferSound
<1>5. DOMAIN <<>> = {} /\ more \in Seq(PieceType)
  BY EmptySeq
<1> HIDE DEF more
<1>6. OfCall(more, r, t, g)
  <2>1. ASSUME NEW k \in DOMAIN more PROVE \E a \in 1..r.got : more[k] = PieceAt(r, t, g, a)
    <3>1. CASE k \in DOMAIN b
      BY <1>1, <1>2, <1>3, <1>4, <3>1 DEF OfCall
    <3>2. CASE k = Len(more)
      BY <1>1, <1>2, <1>3, <3>2 DEF Last
    <3> QED
      BY <1>1, <2>1, <3>1, <3>2
  <2> QED
    BY <2>1 DEF OfCall
<1>7. Run(Upcoming(r, t, g, more)) /\ Upcoming(r, t, g, more)[1] = more[1]
  <2> DEFINE last == PieceAt(r, t, g, r.got + 1)
             all == Upcoming(r, t, g, more)
  <2>1. /\ DOMAIN all = 1..(Len(more) + 1) /\ all[1] = more[1]
        /\ \A k \in DOMAIN more : all[k] = more[k]
        /\ Last(all) = last /\ Len(all) = Len(more) + 1 /\ 1 \in DOMAIN more
    BY <1>1, <1>5, UpcomingPieces
  <2>2. /\ more[1] \in PieceType /\ next \in PieceType
        /\ next.at = more[1].at + Len(more) - 1 /\ next.call = more[1].call
        /\ next.job = more[1].job /\ next.try = more[1].try /\ next.stage = more[1].stage
    <3>1. Len(more) \in DOMAIN more /\ more[Len(more)] = next
      BY <1>1 DEF Last
    <3> HIDE DEF next
    <3> QED
      BY <1>1, <1>4, <1>5, <3>1, RunOfOneCall
  <2>3. last = [more[1] EXCEPT !.at = @ + (Len(more) + 1) - 1]
    <3>1. last = [next EXCEPT !.at = @ + 1]
      <4>1. r.got + 1 = s.got + 1 + 1
        OBVIOUS
      <4> QED
        BY <1>2, <4>1 DEF PieceAt
    <3>2. more[1].at \in Nat /\ Len(more) \in Nat
      BY <1>1, <1>5, <2>2 DEF PieceType
    <3> HIDE DEF next, last
    <3>3. next = [more[1] EXCEPT !.at = more[1].at + Len(more) - 1]
      <4>1. Len(more) \in DOMAIN more /\ next = more[Len(more)]
        BY <1>1 DEF Last
      <4> QED
        BY <1>4, <4>1 DEF Run
    <3>4. next.at + 1 = more[1].at + (Len(more) + 1) - 1
      <4>1. \A m, n \in Nat : (m + n - 1) + 1 = m + (n + 1) - 1
        OBVIOUS
      <4>2. next.at = more[1].at + Len(more) - 1
        BY <2>2
      <4> QED
        BY <3>2, <4>1, <4>2
    <3>5. ASSUME NEW x \in PieceType, NEW m, NEW k
          PROVE  [[x EXCEPT !.at = m] EXCEPT !.at = k] = [x EXCEPT !.at = k]
      BY DEF PieceType
    <3>6. last = [[more[1] EXCEPT !.at = more[1].at + Len(more) - 1] EXCEPT !.at = next.at + 1]
      BY <3>1, <3>3
    <3> QED
      BY <2>2, <3>4, <3>5, <3>6
  <2> HIDE DEF all, last
  <2>4. ASSUME NEW k \in DOMAIN all PROVE all[k] = [all[1] EXCEPT !.at = @ + k - 1]
    <3>1. CASE k \in DOMAIN more
      BY <1>4, <2>1, <3>1 DEF Run
    <3>2. CASE k = Len(more) + 1
      BY <2>1, <2>3, <3>2 DEF Last
    <3> QED
      BY <1>1, <2>1, <2>4, <3>1, <3>2
  <2> QED
    BY <2>1, <2>4 DEF Run, all
<1>8. BufferSound(es, r, t, g, more)
  BY <1>4, <1>6, <1>7 DEF BufferSound
<1>9. CallSound(es, r, t, g, more, <<>>, f)
  <2>1. CallSound(es, s, t, g, b, <<>>, f)
    BY DEF SlotSound
  <2>2. \A i \in TextRows(es, r.job, t) : \A k \in DOMAIN es[i].pieces :
          es[i].pieces[k].call = r.call =>
            \E a \in 1..r.got : es[i].pieces[k] = PieceAt(r, t, g, a)
    BY <1>2, <1>3, <2>1 DEF CallSound
  <2>3. ASSUME f = 0, NEW a \in 1..r.got
        PROVE  InRows(es, PieceAt(r, t, g, a)) \/ In(more, PieceAt(r, t, g, a))
    <3>1. CASE a \in 1..s.got
      <4>1. InRows(es, PieceAt(s, t, g, a)) \/ InRows(<<>>, PieceAt(s, t, g, a))
            \/ In(b, PieceAt(s, t, g, a))
        BY <2>1, <2>3, <3>1 DEF CallSound
      <4>2. ~InRows(<<>>, PieceAt(s, t, g, a))
        BY <1>5 DEF InRows
      <4>3. \A p : In(b, p) => In(more, p)
        BY <1>1 DEF In
      <4> QED
        BY <1>2, <4>1, <4>2, <4>3
    <3>2. CASE a = s.got + 1
      <4>1. Len(more) \in DOMAIN more
        BY <1>1
      <4> QED
        BY <1>1, <1>2, <3>2, <4>1 DEF In, Last
    <3> QED
      BY <1>3, <2>3, <3>1, <3>2
  <2> QED
    BY <2>2, <2>3 DEF CallSound
<1>10. OutSound(es, r, t, g, more, <<>>)
  BY <1>5 DEF OutSound
<1> QED
  BY <1>8, <1>9, <1>10 DEF SlotSound, more

(* Text of the call that is to be emitted, all that there was in hand. *)
LEMMA TextHandedOver ==
  ASSUME NEW es, NEW r \in SlotType, NEW t, NEW g, NEW f,
         NEW d \in EventType, IsDelta(d), Whole(d), d.job = r.job, d.try = t,
         OfCall(d.pieces, r, t, g), r.pc \in {"stream", "answer"},
         \A i \in TextRows(es, r.job, t) : After(Last(es[i].pieces), d.pieces[1]),
         \A i \in TextRows(es, r.job, t) : \A k \in DOMAIN es[i].pieces :
           es[i].pieces[k].call = r.call =>
             \E a \in 1..r.got : es[i].pieces[k] = PieceAt(r, t, g, a),
         f = 0 => \A a \in 1..r.got :
           InRows(es, PieceAt(r, t, g, a)) \/ In(d.pieces, PieceAt(r, t, g, a)),
         \A i \in TextRows(es, r.job, t) : Last(es[i].pieces) \in PieceType
  PROVE  SlotSound(es, r, t, g, <<>>, <<d>>, f)
<1>1. DOMAIN <<d>> = {1} /\ <<d>>[1] = d /\ Len(<<d>>) = 1
  OBVIOUS
<1>2. \A i \in TextRows(es, r.job, t) : After(Last(es[i].pieces), PieceAt(r, t, g, r.got + 1))
  <2>1. PICK a \in 1..r.got : d.pieces[1] = PieceAt(r, t, g, a)
    BY PiecesOfRow DEF OfCall
  <2>2. r.got \in Nat /\ r.call \in Nat
    BY DEF SlotType
  <2>3. ASSUME NEW p \in PieceType, After(p, d.pieces[1])
        PROVE  After(p, PieceAt(r, t, g, r.got + 1))
    <3>1. p.call \in Nat /\ p.at \in Nat
      BY DEF PieceType
    <3>2. r.call > p.call \/ (r.call = p.call /\ a > p.at)
      BY <2>1, <2>3 DEF After, PieceAt
    <3>3. r.call > p.call \/ (r.call = p.call /\ r.got + 1 > p.at)
      BY <2>2, <3>1, <3>2
    <3> QED
      BY <3>3 DEF After, PieceAt
  <2> QED
    BY <2>3
<1>3. BufferSound(es, r, t, g, <<>>)
  BY <1>2, NothingHeld
<1>4. OutSound(es, r, t, g, <<>>, <<d>>)
  BY <1>1 DEF OutSound
<1>5. \A p : In(d.pieces, p) => InRows(<<d>>, p)
  BY <1>1 DEF InRows
<1>6. CallSound(es, r, t, g, <<>>, <<d>>, f)
  BY <1>5 DEF CallSound
<1> QED
  BY <1>3, <1>4, <1>6 DEF SlotSound

(* The text in hand is to be emitted, while the answer goes on or at its end. *)
LEMMA BufferEmitted ==
  ASSUME NEW es \in Seq(EventType), NEW ts, TableSound(es, ts),
         NEW s \in SlotType, NEW t, NEW g, NEW b \in Seq(PieceType), b # <<>>, NEW f,
         SlotSound(es, s, t, g, b, <<>>, f), s.pc = "stream",
         NEW r \in SlotType, r.pc \in {"stream", "answer"},
         r.job = s.job, r.call = s.call, r.got = s.got,
         NEW d \in EventType, IsDelta(d), d.job = s.job, d.try = t, d.stage = g, d.pieces = b
  PROVE  SlotSound(es, r, t, g, <<>>, <<d>>, f)
<1>1. \A a : PieceAt(r, t, g, a) = PieceAt(s, t, g, a)
  BY DEF PieceAt
<1>2. /\ Upcoming(s, t, g, b)[1] = b[1] /\ 1 \in DOMAIN b /\ DOMAIN b = 1..Len(b)
      /\ \A k \in DOMAIN b : Upcoming(s, t, g, b)[k] = b[k]
      /\ DOMAIN Upcoming(s, t, g, b) = 1..(Len(b) + 1) /\ Len(b) \in Nat
  BY UpcomingPieces
<1>3. /\ Run(Upcoming(s, t, g, b)) /\ OfCall(b, s, t, g)
      /\ \A i \in TextRows(es, s.job, t) : After(Last(es[i].pieces), b[1])
  BY <1>2 DEF SlotSound, BufferSound
<1>4. Run(b)
  <2>1. DOMAIN b \subseteq DOMAIN Upcoming(s, t, g, b)
    BY <1>2
  <2>2. ASSUME NEW k \in DOMAIN b PROVE b[k] = [b[1] EXCEPT !.at = @ + k - 1]
    BY <1>2, <1>3, <2>1, <2>2 DEF Run
  <2> QED
    BY <2>2 DEF Run
<1>5. Whole(d)
  <2>1. PICK a \in 1..s.got : b[1] = PieceAt(s, t, g, a)
    BY <1>2, <1>3 DEF OfCall
  <2>2. b[1].job = s.job /\ b[1].try = t /\ b[1].stage = g
    BY <2>1 DEF PieceAt
  <2> QED
    BY <1>4, <2>2 DEF Whole
<1>6. OfCall(d.pieces, r, t, g)
  BY <1>1, <1>3 DEF OfCall
<1>7. \A i \in TextRows(es, r.job, t) : \A k \in DOMAIN es[i].pieces :
        es[i].pieces[k].call = r.call =>
          \E a \in 1..r.got : es[i].pieces[k] = PieceAt(r, t, g, a)
  BY <1>1 DEF SlotSound, CallSound
<1>8. f = 0 => \A a \in 1..r.got :
        InRows(es, PieceAt(r, t, g, a)) \/ In(d.pieces, PieceAt(r, t, g, a))
  <2>1. \A p : ~InRows(<<>>, p)
    BY EmptySeq DEF InRows
  <2> QED
    BY <1>1, <2>1 DEF SlotSound, CallSound
<1>9. \A i \in TextRows(es, r.job, t) : Last(es[i].pieces) \in PieceType
  <2>1. ASSUME NEW i \in TextRows(es, r.job, t) PROVE es[i] \in EventType /\ Whole(es[i])
    BY DEF TextRows, TableSound
  <2> QED
    BY <2>1, PiecesOfRow
<1> QED
  BY <1>3, <1>5, <1>6, <1>7, <1>8, <1>9, TextHandedOver

(* Nothing in hand at the end of an answer. *)
LEMMA NothingEmitted ==
  ASSUME NEW es, NEW s \in SlotType, NEW t, NEW g, NEW f,
         SlotSound(es, s, t, g, <<>>, <<>>, f), s.pc = "stream",
         NEW r \in SlotType, r.pc = "answer", r.job = s.job, r.call = s.call, r.got = s.got
  PROVE  SlotSound(es, r, t, g, <<>>, <<>>, f)
<1>1. \A a : PieceAt(r, t, g, a) = PieceAt(s, t, g, a)
  BY DEF PieceAt
<1>2. \A i \in TextRows(es, r.job, t) : After(Last(es[i].pieces), PieceAt(r, t, g, r.got + 1))
  BY <1>1, UpcomingAlone DEF SlotSound, BufferSound
<1>3. BufferSound(es, r, t, g, <<>>)
  BY <1>2, NothingHeld
<1>4. OutSound(es, r, t, g, <<>>, <<>>)
  BY EmptySeq DEF OutSound
<1>5. CallSound(es, r, t, g, <<>>, <<>>, f)
  BY <1>1 DEF SlotSound, CallSound
<1> QED
  BY <1>3, <1>4, <1>5 DEF SlotSound

-----------------------------------------------------------------------------
(* The steps.                                                               *)

(* What a slot does leaves the text of the others as it is. *)
LEMMA OneSlotMoves ==
  ASSUME BusInv, TextInv, NEW w \in Slot, NEW j \in Job,
         UNCHANGED <<events, faults>>,
         \A v \in Slot : v # w =>
           slot'[v] = slot[v] /\ out'[v] = out[v] /\ buf'[v] = buf[v],
         \A v \in Slot : v # w /\ slot[v].pc # "idle" => slot[v].job # j,
         \A k \in Job : k # j => tries'[k] = tries[k] /\ marked'[k] = marked[k],
         TableSound(events, tries'),
         SlotSound(events, slot'[w], TryOf(w)', StageOf(slot[w].job)', buf'[w], out'[w], faults)
  PROVE  TextInv'
<1>1. ASSUME NEW v \in Slot, v # w
      PROVE  SlotSound(events', slot'[v], TryOf(v)', StageOf(slot[v].job)', buf'[v], out'[v],
                       faults')
  <2>1. SlotSound(events, slot[v], TryOf(v), StageOf(slot[v].job), buf[v], out[v], faults)
    BY DEF TextInv
  <2>2. CASE slot[v].pc = "idle"
    <3>1. \A k \in DOMAIN out[v] : ~IsDelta(out[v][k])
      BY <2>1, <2>2 DEF SlotSound, OutSound
    <3> QED
      BY <1>1, <2>2, <3>1, SoundIdle
  <2>3. CASE slot[v].pc # "idle"
    <3>1. slot[v].job \in Job /\ slot[v].job # j
      BY <1>1, <2>3 DEF BusInv, TypeInv, SlotInv
    <3>2. TryOf(v)' = TryOf(v) /\ StageOf(slot[v].job)' = StageOf(slot[v].job)
      BY <1>1, <3>1 DEF TryOf, StageOf, Compose
    <3> QED
      BY <1>1, <2>1, <3>2
  <2> QED
    BY <2>2, <2>3
<1> QED
  BY <1>1 DEF TextInv

LEMMA OwnJob ==
  ASSUME BusInv, NEW w \in Slot, slot[w].pc # "idle"
  PROVE  /\ slot[w].job \in Job /\ slot[w] \in SlotType
         /\ \A v \in Slot : v # w /\ slot[v].pc # "idle" => slot[v].job # slot[w].job
BY DEF BusInv, TypeInv, SlotInv, BusyInv

(* A slot leaves its job, with what it has still to say. *)
LEMMA SlotLeaves ==
  ASSUME BusInv, TextInv, NEW w \in Slot, slot[w].pc # "idle", Leave(w),
         UNCHANGED <<events, faults, tries, marked, buf>>,
         \/ out' = out /\ out[w] = <<>>
         \/ \E es : Say(w, es) /\ \A k \in DOMAIN es : ~IsDelta(es[k])
  PROVE  TextInv'
<1>1. slot'[w] = Idle /\ \A v \in Slot : v # w => slot'[v] = slot[v]
  BY DEF Leave, BusInv, TypeInv, SlotInv
<1>2. /\ \A v \in Slot : v # w => out'[v] = out[v]
      /\ \A k \in DOMAIN out'[w] : ~IsDelta(out'[w][k])
  BY EmptySeq DEF Say, BusInv, TypeInv, OutInv
<1>3. Idle.pc = "idle"
  BY DEF Idle, SlotAt
<1>4. SlotSound(events, slot'[w], TryOf(w)', StageOf(slot[w].job)', buf'[w], out'[w], faults)
  BY <1>1, <1>2, <1>3, SoundIdle
<1>5. TableSound(events, tries')
  BY DEF TextInv
<1> QED
  BY <1>1, <1>2, <1>4, <1>5, OwnJob, OneSlotMoves

(* A slot goes on, between calls. *)
LEMMA SlotGoesOn ==
  ASSUME BusInv, BusInv', TextInv, NEW w \in Slot, slot[w].pc \notin {"idle", "stream"},
         slot'[w].pc \notin {"stream", "answer"},
         slot'[w].job = slot[w].job, slot'[w].call = slot[w].call, slot'[w].got = slot[w].got,
         \A v \in Slot : v # w => slot'[v] = slot[v],
         UNCHANGED <<events, faults, tries, buf>>,
         \A k \in Job : k # slot[w].job => marked'[k] = marked[k],
         \/ out' = out /\ out[w] = <<>>
         \/ \E es : Say(w, es) /\ \A k \in DOMAIN es : ~IsDelta(es[k])
  PROVE  TextInv'
<1>1. /\ \A v \in Slot : v # w => out'[v] = out[v]
      /\ \A k \in DOMAIN out'[w] : ~IsDelta(out'[w][k])
  BY EmptySeq DEF Say, BusInv, TypeInv, OutInv
<1>2. /\ slot[w] \in SlotType /\ slot'[w] \in SlotType /\ buf[w] \in Seq(PieceType)
      /\ TryOf(w)' = TryOf(w)
  BY DEF BusInv, TypeInv, SlotInv, OutInv, TryOf
<1>3. SlotSound(events, slot[w], TryOf(w), StageOf(slot[w].job), buf[w], out[w], faults)
  BY DEF TextInv
<1>4. SlotSound(events, slot'[w], TryOf(w)', StageOf(slot[w].job)', buf'[w], out'[w], faults)
  BY <1>1, <1>2, <1>3, SoundBetweenCalls
<1>5. TableSound(events, tries')
  BY DEF TextInv
<1> QED
  BY <1>1, <1>4, <1>5, OwnJob, OneSlotMoves

LEMMA NoText == \A k \in DOMAIN <<>> : ~IsDelta(<<>>[k])
  BY EmptySeq

LEMMA PlainEvent ==
  ASSUME NEW j, NEW type, type # "llm.delta", NEW stage, NEW note
  PROVE  \A k \in DOMAIN <<Event(j, type, stage, note)>> :
           ~IsDelta(<<Event(j, type, stage, note)>>[k])
<1> DEFINE e == Event(j, type, stage, note)
<1>1. ~IsDelta(e)
  BY DEF Event, Row, IsDelta
<1> HIDE DEF e
<1>2. \A k \in DOMAIN <<e>> : <<e>>[k] = e
  OBVIOUS
<1> QED
  BY <1>1, <1>2 DEF e

LEMMA PlainEvents ==
  ASSUME NEW j, NEW type, type # "llm.delta", NEW stage, NEW note,
         NEW second, second # "llm.delta", NEW other, NEW remark,
         NEW k \in DOMAIN <<Event(j, type, stage, note), Event(j, second, other, remark)>>
  PROVE  ~IsDelta(<<Event(j, type, stage, note), Event(j, second, other, remark)>>[k])
<1> DEFINE e == Event(j, type, stage, note)
           f == Event(j, second, other, remark)
<1>1. ~IsDelta(e) /\ ~IsDelta(f)
  BY DEF Event, Row, IsDelta
<1> HIDE DEF e, f
<1>2. \A i \in DOMAIN <<e, f>> : <<e, f>>[i] = e \/ <<e, f>>[i] = f
  OBVIOUS
<1> QED
  BY <1>1, <1>2 DEF e, f

LEMMA LeavesText ==
  ASSUME BusInv, TextInv, NEW w \in Slot,
         Cancel(w) \/ Fail(w) \/ FinalizeFails(w) \/ Succeed(w)
  PROVE  TextInv'
<1> DEFINE j == slot[w].job
<1>1. CASE Cancel(w)
  BY <1>1, PlainEvent, SlotLeaves DEF Cancel, At
<1>2. CASE Fail(w) \/ FinalizeFails(w)
  BY <1>2, SlotLeaves DEF Fail, FinalizeFails, At
<1>3. CASE Succeed(w)
  <2>1. /\ slot[w].pc # "idle" /\ Leave(w) /\ UNCHANGED <<events, faults, tries, marked, buf>>
        /\ Say(w, <<Event(j, "agent.run", "", "SUCCEEDED"), Event(j, "chapter.ready", "", "")>>)
    BY <1>3 DEF Succeed, At
  <2> QED
    BY <2>1, PlainEvents, SlotLeaves
<1> QED
  BY <1>1, <1>2, <1>3

(* The record of a slot after a step that sets only where it is. *)
LEMMA GotoParts ==
  ASSUME BusInv, NEW w \in Slot, NEW pc, Goto(w, pc)
  PROVE  /\ slot'[w].pc = pc /\ slot'[w].job = slot[w].job /\ slot'[w].call = slot[w].call
         /\ slot'[w].got = slot[w].got /\ \A v \in Slot : v # w => slot'[v] = slot[v]
<1>1. slot \in [Slot -> SlotType]
  BY DEF BusInv, TypeInv, SlotInv
<1> QED
  BY <1>1 DEF Goto, SlotType

LEMMA GoesOnText ==
  ASSUME BusInv, BusInv', TextInv, NEW w \in Slot,
         Prepare(w) \/ StartStage(w) \/ Repair(w) \/ Accept(w) \/ Publish(w)
  PROVE  TextInv'
<1> DEFINE j == slot[w].job
<1>1. CASE Prepare(w)
  <2>1. /\ slot[w].pc = "planned" /\ UNCHANGED <<events, faults, tries, buf, marked>>
        /\ Goto(w, "call") \/ Goto(w, "stage")
        /\ \E es : Say(w, es) /\ \A k \in DOMAIN es : ~IsDelta(es[k])
    BY <1>1, PlainEvent, NoText DEF Prepare, At
  <2> QED
    BY <2>1, GotoParts, SlotGoesOn
<1>2. CASE StartStage(w)
  <2>1. /\ slot[w].pc = "stage" /\ UNCHANGED <<events, faults, tries, buf, marked>>
        /\ Say(w, <<Event(j, "agent.stage", StageOf(j), "running")>>)
        /\ slot' = [slot EXCEPT ![w].pc = "call", ![w].ask = 1]
    BY <1>2 DEF StartStage, At, jobVars
  <2>2. /\ slot'[w].pc = "call" /\ slot'[w].job = slot[w].job /\ slot'[w].call = slot[w].call
        /\ slot'[w].got = slot[w].got /\ \A v \in Slot : v # w => slot'[v] = slot[v]
    <3>1. slot \in [Slot -> SlotType]
      BY DEF BusInv, TypeInv, SlotInv
    <3> QED
      BY <2>1, <3>1 DEF SlotType
  <2>3. \E es : Say(w, es) /\ \A k \in DOMAIN es : ~IsDelta(es[k])
    BY <2>1, PlainEvent
  <2> QED
    BY <2>1, <2>2, <2>3, SlotGoesOn
<1>3. CASE Repair(w)
  <2>1. /\ slot[w].pc = "answer" /\ UNCHANGED <<events, faults, tries, buf, marked>>
        /\ out' = out /\ out[w] = <<>>
        /\ slot' = [slot EXCEPT ![w].pc = "call", ![w].ask = 2]
    BY <1>3 DEF Repair, At, jobVars
  <2>2. /\ slot'[w].pc = "call" /\ slot'[w].job = slot[w].job /\ slot'[w].call = slot[w].call
        /\ slot'[w].got = slot[w].got /\ \A v \in Slot : v # w => slot'[v] = slot[v]
    <3>1. slot \in [Slot -> SlotType]
      BY DEF BusInv, TypeInv, SlotInv
    <3> QED
      BY <2>1, <3>1 DEF SlotType
  <2> QED
    BY <2>1, <2>2, SlotGoesOn
<1>4. CASE Accept(w)
  <2>1. slot[w].pc = "answer" /\ out[w] = <<>> /\ UNCHANGED <<events, faults, tries, buf>>
    BY <1>4 DEF Accept, At
  <2>2. CASE Compose(j)
    BY <1>4, <2>1, <2>2, GotoParts, SlotGoesOn DEF Accept
  <2>3. CASE ~Compose(j)
    <3>1. /\ Goto(w, "stage") /\ marked' = [marked EXCEPT ![j] = @ + 1]
          /\ Say(w, <<Event(j, "agent.stage", StageOf(j), "done"),
                      Event(j, "checkpoint.saved", StageOf(j), "")>>)
      BY <1>4, <2>3 DEF Accept
    <3>2. \E es : Say(w, es) /\ \A k \in DOMAIN es : ~IsDelta(es[k])
      BY <3>1, PlainEvents
    <3>3. \A k \in Job : k # slot[w].job => marked'[k] = marked[k]
      BY <3>1 DEF BusInv, TypeInv, JobInv
    <3>4. /\ slot'[w].pc = "stage" /\ slot'[w].job = slot[w].job /\ slot'[w].call = slot[w].call
          /\ slot'[w].got = slot[w].got /\ \A v \in Slot : v # w => slot'[v] = slot[v]
      BY <3>1, GotoParts
    <3> QED
      BY <2>1, <3>2, <3>3, <3>4, SlotGoesOn
  <2> QED
    BY <2>2, <2>3
<1>5. CASE Publish(w)
  <2>1. /\ slot[w].pc \in {"text", "stage"} /\ UNCHANGED <<events, faults, tries, buf, marked>>
        /\ Goto(w, "finalize") /\ Say(w, <<Event(j, "llm.text", "", "")>>)
    BY <1>5 DEF Publish, At, jobVars
  <2>2. \E es : Say(w, es) /\ \A k \in DOMAIN es : ~IsDelta(es[k])
    BY <2>1, PlainEvent
  <2> QED
    BY <2>1, <2>2, GotoParts, SlotGoesOn
<1> QED
  BY <1>1, <1>2, <1>3, <1>4, <1>5

LEMMA FinalizeText ==
  ASSUME BusInv, BusInv', TextInv, NEW w \in Slot, Finalize(w)
  PROVE  TextInv'
<1>1. /\ slot[w].pc = "finalize" /\ out[w] = <<>>
      /\ UNCHANGED <<events, faults, tries, marked, buf>>
  BY DEF Finalize, At
<1>2. CASE Compose(slot[w].job)
  BY <1>1, <1>2, PlainEvent, SlotLeaves DEF Finalize
<1>3. CASE ~Compose(slot[w].job)
  BY <1>1, <1>3, GotoParts, SlotGoesOn DEF Finalize
<1> QED
  BY <1>2, <1>3

LEMMA CallText ==
  ASSUME BusInv, BusInv', TextInv, NEW w \in Slot, Call(w)
  PROVE  TextInv'
<1> DEFINE s == slot[w]
           r == slot'[w]
<1>1. /\ s.pc = "call" /\ out[w] = <<>> /\ UNCHANGED <<events, faults, tries, marked, out, buf>>
      /\ slot' = [slot EXCEPT ![w].pc = "stream", ![w].call = @ + 1, ![w].got = 0]
  BY DEF Call, At, jobVars
<1>2. /\ s \in SlotType /\ r \in SlotType /\ buf[w] \in Seq(PieceType) /\ events \in Seq(EventType)
  BY DEF BusInv, TypeInv, SlotInv, OutInv, TableInv
<1>3. /\ r.pc = "stream" /\ r.job = s.job /\ r.call = s.call + 1 /\ r.got = 0
      /\ \A v \in Slot : v # w => slot'[v] = slot[v]
  <2>1. slot \in [Slot -> SlotType]
    BY DEF BusInv, TypeInv, SlotInv
  <2> QED
    BY <1>1, <2>1 DEF SlotType
<1>4. SlotSound(events, s, TryOf(w), StageOf(s.job), buf[w], <<>>, faults)
  BY <1>1 DEF TextInv
<1>5. TryOf(w)' = TryOf(w) /\ StageOf(slot[w].job)' = StageOf(slot[w].job)
  BY <1>1, <1>3 DEF TryOf, StageOf, Compose
<1>6. TableSound(events, tries) /\ TableSound(events, tries')
  BY <1>1 DEF TextInv
<1>7. SlotSound(events, r, TryOf(w), StageOf(s.job), buf[w], <<>>, faults)
  BY <1>1, <1>2, <1>3, <1>4, <1>6, NewCall
<1>8. SlotSound(events, r, TryOf(w)', StageOf(slot[w].job)', buf'[w], out'[w], faults)
  BY <1>1, <1>5, <1>7
<1>9. \A v \in Slot : v # w => slot'[v] = slot[v] /\ out'[v] = out[v] /\ buf'[v] = buf[v]
  BY <1>1, <1>3
<1>10. /\ slot[w].job \in Job
       /\ \A v \in Slot : v # w /\ slot[v].pc # "idle" => slot[v].job # slot[w].job
  BY <1>1, OwnJob
<1>11. \A k \in Job : k # slot[w].job => tries'[k] = tries[k] /\ marked'[k] = marked[k]
  BY <1>1
<1> QED
  BY <1>1, <1>6, <1>8, <1>9, <1>10, <1>11, OneSlotMoves

(* What a slot says, and what it has in its buffer, is its own. *)
LEMMA SayParts ==
  ASSUME BusInv, NEW w \in Slot, NEW es, Say(w, es)
  PROVE  out'[w] = es /\ \A v \in Slot : v # w => out'[v] = out[v]
BY DEF Say, BusInv, TypeInv, OutInv

LEMMA ReceiveText ==
  ASSUME BusInv, BusInv', TextInv, NEW w \in Slot, Receive(w)
  PROVE  TextInv'
<1> DEFINE s == slot[w]
           r == slot'[w]
           t == TryOf(w)
           g == StageOf(slot[w].job)
           more == Append(buf[w], Piece(w))
           d == Delta(w, more)
<1>1. /\ s.pc = "stream" /\ out[w] = <<>> /\ UNCHANGED <<events, faults, tries, marked>>
      /\ slot' = [slot EXCEPT ![w].got = @ + 1]
      /\ \/ buf' = [buf EXCEPT ![w] = more] /\ UNCHANGED out
         \/ buf' = [buf EXCEPT ![w] = <<>>] /\ Say(w, <<d>>)
  BY DEF Receive, At, jobVars
<1>2. /\ s \in SlotType /\ r \in SlotType /\ buf[w] \in Seq(PieceType) /\ events \in Seq(EventType)
      /\ buf \in [Slot -> Seq(PieceType)]
  BY DEF BusInv, TypeInv, SlotInv, OutInv, TableInv
<1>3. /\ r.pc = "stream" /\ r.job = s.job /\ r.call = s.call /\ r.got = s.got + 1
      /\ \A v \in Slot : v # w => slot'[v] = slot[v]
  <2>1. slot \in [Slot -> SlotType]
    BY DEF BusInv, TypeInv, SlotInv
  <2> QED
    BY <1>1, <2>1 DEF SlotType
<1>4. more = Upcoming(s, t, g, buf[w]) /\ more \in Seq(PieceType) /\ more # <<>>
  <2>1. Piece(w) = PieceAt(s, t, g, s.got + 1)
    BY DEF Piece, PieceAt, TryOf
  <2>2. Piece(w) \in PieceType
    BY <1>1, DeltaTyped, EmptySeq DEF BusInv, TypeInv
  <2> QED
    BY <1>2, <2>1, <2>2, AppendProperties DEF Upcoming
<1>5. /\ d \in EventType /\ IsDelta(d) /\ d.job = s.job /\ d.try = t /\ d.stage = g
      /\ d.pieces = more
  <2>1. d \in EventType
    BY <1>1, <1>4, DeltaTyped DEF BusInv, TypeInv
  <2> QED
    BY <2>1 DEF Delta, Row, IsDelta, TryOf
<1> HIDE DEF more, d
<1>6. SlotSound(events, s, t, g, buf[w], <<>>, faults)
  BY <1>1 DEF TextInv
<1>7. TryOf(w)' = t /\ StageOf(slot[w].job)' = g
  BY <1>1, <1>3 DEF TryOf, StageOf, Compose
<1>8. TableSound(events, tries) /\ TableSound(events, tries')
  BY <1>1 DEF TextInv
<1>9. SlotSound(events, r, t, g, more, <<>>, faults)
  <2>1. Upcoming(s, t, g, buf[w]) \in Seq(PieceType)
    BY <1>4
  <2> HIDE DEF s, r, t, g
  <2>2. SlotSound(events, r, t, g, Upcoming(s, t, g, buf[w]), <<>>, faults)
    BY <1>1, <1>2, <1>3, <1>6, <2>1, PieceKept
  <2> QED
    BY <1>4, <2>2
<1>10. SlotSound(events, r, t, g, <<>>, <<d>>, faults)
  BY <1>2, <1>3, <1>4, <1>5, <1>8, <1>9, BufferEmitted
<1>11. /\ SlotSound(events, r, TryOf(w)', StageOf(slot[w].job)', buf'[w], out'[w], faults)
       /\ \A v \in Slot : v # w => out'[v] = out[v] /\ buf'[v] = buf[v]
  <2>1. CASE buf' = [buf EXCEPT ![w] = more] /\ UNCHANGED out
    BY <1>1, <1>2, <1>7, <1>9, <2>1
  <2>2. CASE buf' = [buf EXCEPT ![w] = <<>>] /\ Say(w, <<d>>)
    BY <1>1, <1>2, <1>7, <1>10, <2>2, SayParts
  <2> QED
    BY <1>1, <2>1, <2>2
<1> QED
  BY <1>1, <1>3, <1>8, <1>11, OwnJob, OneSlotMoves

LEMMA EndText ==
  ASSUME BusInv, BusInv', TextInv, NEW w \in Slot, EndOfAnswer(w)
  PROVE  TextInv'
<1> DEFINE s == slot[w]
           r == slot'[w]
           t == TryOf(w)
           g == StageOf(slot[w].job)
           b == buf[w]
           d == Delta(w, buf[w])
<1>1. /\ s.pc = "stream" /\ out[w] = <<>> /\ UNCHANGED <<events, faults, tries, marked>>
      /\ Goto(w, "answer") /\ buf' = [buf EXCEPT ![w] = <<>>]
      /\ Say(w, IF b = <<>> THEN <<>> ELSE <<d>>)
  BY DEF EndOfAnswer, At, jobVars
<1>2. /\ s \in SlotType /\ r \in SlotType /\ b \in Seq(PieceType) /\ events \in Seq(EventType)
      /\ buf \in [Slot -> Seq(PieceType)]
  BY DEF BusInv, TypeInv, SlotInv, OutInv, TableInv
<1>3. /\ r.pc = "answer" /\ r.job = s.job /\ r.call = s.call /\ r.got = s.got
      /\ \A v \in Slot : v # w => slot'[v] = slot[v]
  BY <1>1, GotoParts
<1>4. /\ d \in EventType /\ IsDelta(d) /\ d.job = s.job /\ d.try = t /\ d.stage = g
      /\ d.pieces = b
  <2>1. d \in EventType
    BY <1>1, <1>2, DeltaTyped DEF BusInv, TypeInv
  <2> QED
    BY <2>1 DEF Delta, Row, IsDelta, TryOf
<1>5. SlotSound(events, s, t, g, b, <<>>, faults)
  BY <1>1 DEF TextInv
<1>6. TryOf(w)' = t /\ StageOf(slot[w].job)' = g
  BY <1>1, <1>3 DEF TryOf, StageOf, Compose
<1>7. TableSound(events, tries) /\ TableSound(events, tries')
  BY <1>1 DEF TextInv
<1> HIDE DEF d
<1>8. SlotSound(events, r, TryOf(w)', StageOf(slot[w].job)', buf'[w], out'[w], faults)
  <2>1. buf'[w] = <<>>
    BY <1>1, <1>2
  <2>2. CASE b = <<>>
    <3>1. SlotSound(events, r, t, g, <<>>, <<>>, faults)
      BY <1>1, <1>2, <1>3, <1>5, <2>2, NothingEmitted
    <3> QED
      BY <1>1, <1>6, <2>1, <2>2, <3>1, SayParts
  <2>3. CASE b # <<>>
    <3>1. SlotSound(events, r, t, g, <<>>, <<d>>, faults)
      BY <1>1, <1>2, <1>3, <1>4, <1>5, <1>7, <2>3, BufferEmitted
    <3> QED
      BY <1>1, <1>6, <2>1, <2>3, <3>1, SayParts
  <2> QED
    BY <2>2, <2>3
<1>9. \A v \in Slot : v # w => out'[v] = out[v] /\ buf'[v] = buf[v]
  BY <1>1, <1>2, SayParts
<1> QED
  BY <1>1, <1>3, <1>7, <1>8, <1>9, OwnJob, OneSlotMoves

(* A claim counts a try that no row is of. *)
LEMMA StartText ==
  ASSUME BusInv, BusInv', TextInv, NEW w \in Slot, NEW j \in Job, Start(w, j)
  PROVE  TextInv'
<1> DEFINE e == Row(j, "chapter.status", "", "PLANNING", <<>>, tries[j] + 1)
<1>1. /\ slot[w].pc = "idle" /\ jobs[j] = "pending" /\ UNCHANGED <<events, faults, marked>>
      /\ tries' = [tries EXCEPT ![j] = @ + 1] /\ slot' = [slot EXCEPT ![w] = SlotAt("planned", j)]
      /\ buf' = [buf EXCEPT ![w] = <<>>] /\ Say(w, <<e>>)
  BY DEF Start, At
<1>2. ~IsDelta(e)
  BY DEF Row, IsDelta
<1> HIDE DEF e
<1>3. \A k \in DOMAIN <<e>> : ~IsDelta(<<e>>[k])
  BY <1>2
<1>4. /\ tries \in [Job -> Nat] /\ events \in Seq(EventType)
      /\ slot \in [Slot -> SlotType] /\ slot'[w] \in SlotType
      /\ buf \in [Slot -> Seq(PieceType)]
  BY DEF BusInv, TypeInv, JobInv, SlotInv, TableInv, OutInv
<1>5. /\ slot'[w].pc = "planned" /\ slot'[w].job = j
      /\ \A v \in Slot : v # w => slot'[v] = slot[v]
  BY <1>1, <1>4 DEF SlotAt
<1>6. TableSound(events, tries')
  <2>1. ASSUME NEW i \in DOMAIN events, IsDelta(events[i])
        PROVE  Whole(events[i]) /\ events[i].try <= tries'[events[i].job]
    <3>1. events[i] \in EventType /\ events[i].job \in Job /\ events[i].try \in Nat
      <4>1. events[i] \in EventType
        BY <1>4, <2>1
      <4> QED
        BY <4>1 DEF EventType
    <3>2. events[i].try <= tries[events[i].job] /\ Whole(events[i])
      BY <2>1 DEF TextInv, TableSound
    <3>3. tries[events[i].job] <= tries'[events[i].job] /\ tries[events[i].job] \in Nat
          /\ tries'[events[i].job] \in Nat
      BY <1>1, <1>4, <3>1
    <3> QED
      BY <3>1, <3>2, <3>3
  <2> QED
    BY <2>1 DEF TextInv, TableSound
<1>7. TextRows(events, j, tries'[j]) = {}
  <2>1. ASSUME NEW i \in DOMAIN events, IsDelta(events[i]), events[i].job = j
        PROVE  events[i].try # tries'[j]
    <3>1. events[i] \in EventType /\ events[i].try \in Nat
      <4>1. events[i] \in EventType
        BY <1>4, <2>1
      <4> QED
        BY <4>1 DEF EventType
    <3>2. events[i].try <= tries[j]
      BY <2>1 DEF TextInv, TableSound
    <3>3. tries'[j] = tries[j] + 1 /\ tries[j] \in Nat
      BY <1>1, <1>4
    <3> QED
      BY <3>1, <3>2, <3>3
  <2> QED
    BY <2>1 DEF TextRows
<1>8. /\ out'[w] = <<e>> /\ buf'[w] = <<>> /\ TryOf(w)' = tries'[j]
      /\ \A v \in Slot : v # w => out'[v] = out[v] /\ buf'[v] = buf[v]
  BY <1>1, <1>4, <1>5, SayParts DEF TryOf
<1>9. SlotSound(events, slot'[w], TryOf(w)', StageOf(slot[w].job)', buf'[w], out'[w], faults)
  BY <1>3, <1>4, <1>5, <1>7, <1>8, SoundClaimed
<1>10. \A v \in Slot : v # w /\ slot[v].pc # "idle" => slot[v].job # j
  BY <1>1, <1>4 DEF BusInv, BusyInv, SlotType
<1>11. \A k \in Job : k # j => tries'[k] = tries[k] /\ marked'[k] = marked[k]
  BY <1>1, <1>4
<1> QED
  BY <1>1, <1>5, <1>6, <1>8, <1>9, <1>10, <1>11, OneSlotMoves

(* An event is written or lost. *)
LEMMA EmitText ==
  ASSUME BusInv, TextInv, NEW w \in Slot, Emit(w)
  PROVE  TextInv'
<1> DEFINE o == out[w]
           e == Head(out[w])
           rest == Tail(out[w])
           Sound(es, v, q, f) ==
             SlotSound(es, slot[v], TryOf(v), StageOf(slot[v].job), buf[v], q, f)
<1>1. /\ o \in Seq(EventType) /\ o # <<>> /\ out' = [out EXCEPT ![w] = rest]
      /\ UNCHANGED <<slot, buf, tries, marked>>
      /\ events \in Seq(EventType) /\ out \in [Slot -> Seq(EventType)]
      /\ faults \in Nat
  BY BoundsAssumption DEF Emit, BusInv, TypeInv, OutInv, TableInv, jobVars
<1>2. /\ out'[w] = rest /\ \A v \in Slot : v # w => out'[v] = out[v]
  BY <1>1
<1>3. \A v \in Slot : Sound(events, v, out[v], faults)
  BY DEF TextInv
<1>4. /\ \A k \in DOMAIN rest : ~IsDelta(rest[k])
      /\ IsDelta(e) => o = <<e>>
      /\ ~IsDelta(e) => \A k \in DOMAIN o : ~IsDelta(o[k])
      /\ e \in EventType
  BY <1>1, <1>3, TailIsPlain DEF SlotSound
<1>5. TableSound(events, tries)
  BY DEF TextInv
<1>6. ASSUME \A v \in Slot : Sound(events', v, out'[v], faults'), TableSound(events', tries)
      PROVE  TextInv'
  <2>1. \A v \in Slot : TryOf(v)' = TryOf(v) /\ StageOf(slot[v].job)' = StageOf(slot[v].job)
    BY <1>1 DEF TryOf, StageOf, Compose
  <2> QED
    BY <1>1, <1>6, <2>1 DEF TextInv
<1>7. CASE faults < MaxFaults /\ faults' = faults + 1 /\ UNCHANGED events
  <2>1. faults' # 0
    BY <1>1, <1>7
  <2>2. ASSUME NEW v \in Slot PROVE Sound(events', v, out'[v], faults')
    <3>1. CASE v = w
      BY <1>2, <1>3, <1>4, <1>7, <2>1, <3>1, PlainOutKeeps
    <3>2. CASE v # w
      <4>1. Sound(events, v, out[v], faults)
        BY <1>3
      <4> QED
        BY <1>2, <1>7, <2>1, <3>2, <4>1 DEF SlotSound, CallSound
    <3> QED
      BY <3>1, <3>2
  <2> QED
    BY <1>5, <1>6, <1>7, <2>2
<1>8. CASE events' = Append(events, e) /\ UNCHANGED faults
  <2> HIDE DEF o, e, rest
  <2>1. ASSUME NEW v \in Slot, v # w PROVE Sound(events', v, out'[v], faults')
    <3>1. Sound(events, v, out[v], faults)
      BY <1>3
    <3>2. slot[v].pc # "idle" => ~(IsDelta(e) /\ e.job = slot[v].job /\ e.try = TryOf(v))
      <4>1. SUFFICES ASSUME IsDelta(e), slot[v].pc # "idle" PROVE e.job # slot[v].job
        OBVIOUS
      <4>2. OutSound(events, slot[w], TryOf(w), StageOf(slot[w].job), buf[w], <<e>>)
        BY <1>3, <1>4, <4>1 DEF SlotSound, o
      <4>3. slot[w].pc \in {"stream", "answer"} /\ e.job = slot[w].job
        <5>1. 1 \in DOMAIN <<e>> /\ <<e>>[1] = e
          OBVIOUS
        <5> QED
          BY <4>1, <4>2, <5>1 DEF OutSound
      <4> QED
        BY <2>1, <4>1, <4>3, OwnJob
    <3>3. Sound(Append(events, e), v, out[v], faults)
      BY <1>1, <1>4, <3>1, <3>2, OtherRowKeeps
    <3> QED
      BY <1>2, <1>8, <2>1, <3>3
  <2>2. CASE ~IsDelta(e)
    <3>1. TableSound(Append(events, e), tries)
      BY <1>1, <1>4, <1>5, <2>2, PlainRowKeepsTable
    <3>2. Sound(events, w, rest, faults)
      BY <1>3, <1>4, <2>2, PlainOutKeeps DEF o
    <3>3. Sound(Append(events, e), w, rest, faults)
      BY <1>1, <1>4, <2>2, <3>2, OtherRowKeeps
    <3>4. ASSUME NEW v \in Slot PROVE Sound(events', v, out'[v], faults')
      BY <1>2, <1>8, <2>1, <3>3
    <3> QED
      BY <1>6, <1>8, <3>1, <3>4
  <2>3. CASE IsDelta(e)
    <3>1. Sound(events, w, <<e>>, faults)
      BY <1>3, <1>4, <2>3 DEF o
    <3>2. slot[w].pc # "idle"
      <4>1. 1 \in DOMAIN <<e>> /\ <<e>>[1] = e
        OBVIOUS
      <4> QED
        BY <2>3, <3>1, <4>1 DEF SlotSound, OutSound
    <3>3. slot[w] \in SlotType /\ slot[w].job \in Job /\ TryOf(w) \in Nat
          /\ tries[slot[w].job] = TryOf(w)
      BY <3>2, OwnJob DEF TryOf, BusInv, TypeInv, JobInv
    <3>4. TableSound(Append(events, e), tries) /\ Sound(Append(events, e), w, <<>>, faults)
      BY <1>1, <1>4, <1>5, <2>3, <3>1, <3>3, OwnTextWritten
    <3>5. rest = <<>>
      <4>1. Tail(<<e>>) = <<>>
        OBVIOUS
      <4> QED
        BY <1>4, <2>3, <4>1 DEF rest, o
    <3>6. ASSUME NEW v \in Slot PROVE Sound(events', v, out'[v], faults')
      BY <1>2, <1>8, <2>1, <3>4, <3>5
    <3> QED
      BY <1>6, <1>8, <3>4, <3>6
  <2> QED
    BY <2>2, <2>3
<1> QED
  BY <1>7, <1>8 DEF Emit

LEMMA TextInvNext == BusInv /\ TextInv /\ [BusNext]_busVars => TextInv'
<1> SUFFICES ASSUME BusInv, TextInv, [BusNext]_busVars PROVE TextInv'
  OBVIOUS
<1>1. BusInv'
  BY BusInvNext
<1>2. ASSUME NEW w \in Slot, SlotStep(w) PROVE TextInv'
  BY <1>1, <1>2, EmitText, StartText, LeavesText, GoesOnText, CallText, ReceiveText, EndText,
     FinalizeText
  DEF SlotStep
<1>3. CASE Restart
  <2>1. TableSound(events', tries')
    BY <1>3 DEF Restart, TextInv
  <2>2. ASSUME NEW w \in Slot
        PROVE  SlotSound(events', slot'[w], TryOf(w)', StageOf(slot[w].job)', buf'[w], out'[w],
                         faults')
    <3>1. slot'[w].pc = "idle" /\ out'[w] = <<>>
      BY <1>3 DEF Restart, Idle, SlotAt
    <3> QED
      BY <3>1, NoText, SoundIdle
  <2> QED
    BY <2>1, <2>2 DEF TextInv
<1>4. CASE UNCHANGED busVars
  BY <1>4 DEF busVars, jobVars, slotVars, TextInv, TryOf, StageOf, Compose
<1> QED
  BY <1>2, <1>3, <1>4 DEF BusNext

LEMMA TextInvInit == BusInit => TextInv
<1> SUFFICES ASSUME BusInit PROVE TextInv
  OBVIOUS
<1>1. TableSound(events, tries)
  BY EmptySeq DEF BusInit, TableSound
<1>2. ASSUME NEW w \in Slot
      PROVE  SlotSound(events, slot[w], TryOf(w), StageOf(slot[w].job), buf[w], out[w], faults)
  <2>1. slot[w].pc = "idle" /\ out[w] = <<>>
    BY DEF BusInit, Idle, SlotAt
  <2> QED
    BY <2>1, NoText, SoundIdle
<1> QED
  BY <1>1, <1>2 DEF TextInv

LEMMA TextInvAlways == BusSpec => [](BusInv /\ TextInv)
  BY BusInvInit, BusInvNext, TextInvInit, TextInvNext, PTL DEF BusSpec

(* Every row of text is of its own job, try and stage, its pieces follow one  *)
(* another, and so do the rows of a try: no piece is left over in a buffer    *)
(* from a broken call, a repair or another job (events.py, stages.py).       *)
THEOREM TextInOrder == BusSpec => []DeltasInOrder
<1>1. ASSUME BusInv, TextInv PROVE DeltasInOrder
  <2>1. events \in Seq(EventType) /\ TableSound(events, tries)
    BY <1>1 DEF BusInv, TypeInv, TableInv, TextInv
  <2>2. ASSUME NEW i \in Deltas
        PROVE  events[i] \in EventType /\ Whole(events[i]) /\ i \in DOMAIN events
               /\ IsDelta(events[i])
    BY <2>1 DEF Deltas, TableSound, IsDelta
  <2>3. ASSUME NEW i \in Deltas, NEW k \in DOMAIN events[i].pieces
        PROVE  LET p == events[i].pieces[k] IN
               /\ p.job = events[i].job /\ p.try = events[i].try /\ p.stage = events[i].stage
               /\ k > 1 => p = [events[i].pieces[k - 1] EXCEPT !.at = @ + 1]
    <3> DEFINE ps == events[i].pieces
    <3>1. ps \in Seq(PieceType) /\ Run(ps) /\ k \in DOMAIN ps /\ 1 \in DOMAIN ps
      BY <2>2, <2>3, PiecesOfRow DEF EventType, Whole
    <3>2. ps[k].job = events[i].job /\ ps[k].try = events[i].try /\ ps[k].stage = events[i].stage
      BY <2>2, <2>3, PiecesOfRow
    <3> HIDE DEF ps
    <3>3. ASSUME k > 1 PROVE ps[k] = [ps[k - 1] EXCEPT !.at = @ + 1]
      <4>1. k - 1 \in DOMAIN ps /\ k \in Nat
        BY <3>1, <3>3
      <4>2. /\ ps[k] = [ps[1] EXCEPT !.at = @ + k - 1]
            /\ ps[k - 1] = [ps[1] EXCEPT !.at = @ + (k - 1) - 1]
        BY <3>1, <4>1 DEF Run
      <4>3. ps[1] \in PieceType
        BY <3>1
      <4>4. ps[1].at \in Nat
        BY <4>3 DEF PieceType
      <4>5. ps[1].at + k - 1 = (ps[1].at + (k - 1) - 1) + 1
        BY <4>1, <4>4
      <4>6. ASSUME NEW x \in PieceType, NEW m
            PROVE  [x EXCEPT !.at = m].at = m
        BY DEF PieceType
      <4>7. ASSUME NEW x \in PieceType, NEW m, NEW n
            PROVE  [[x EXCEPT !.at = m] EXCEPT !.at = n] = [x EXCEPT !.at = n]
        BY DEF PieceType
      <4>8. ps[k - 1].at = ps[1].at + (k - 1) - 1
        BY <4>2, <4>3, <4>6
      <4>9. [ps[k - 1] EXCEPT !.at = @ + 1]
            = [ps[1] EXCEPT !.at = ps[k - 1].at + 1]
        BY <4>2, <4>3, <4>7
      <4> QED
        BY <4>2, <4>5, <4>8, <4>9
    <3> QED
      BY <3>2, <3>3 DEF ps
  <2>4. ASSUME NEW i \in Deltas, NEW h \in Deltas, h < i, events[h].job = events[i].job,
               events[h].try = events[i].try
        PROVE  After(events[h].pieces[Len(events[h].pieces)], events[i].pieces[1])
    BY <2>1, <2>2, <2>4 DEF TableSound, Last
  <2> QED
    BY <2>3, <2>4 DEF DeltasInOrder
<1> QED
  BY <1>1, TextInvAlways, PTL

(* When nothing was lost, the rows of a call that has ended hold as many      *)
(* pieces as the model has sent, no more and no less.                       *)
THEOREM TextComplete == BusSpec => []AnswersArePublished
<1>1. ASSUME BusInv, TextInv PROVE AnswersArePublished
  <2> SUFFICES ASSUME NEW w \in Slot, faults = 0, At(w, "answer")
               PROVE  Cardinality(PiecesOut(w)) = slot[w].got
    BY DEF AnswersArePublished
  <2> DEFINE s == slot[w]
             t == tries[slot[w].job]
             g == StageOf(slot[w].job)
             P(a) == PieceAt(s, t, g, a)
             all == {P(a) : a \in 1..s.got}
  <2>1. /\ s.pc = "answer" /\ out[w] = <<>> /\ s.got \in Nat /\ s.job \in Job
        /\ SlotSound(events, s, t, g, buf[w], <<>>, 0)
        /\ events \in Seq(EventType) /\ TableSound(events, tries)
    <3>1. s.pc = "answer" /\ out[w] = <<>>
      BY DEF At
    <3>2. s.got \in Nat /\ s.job \in Job
      BY <1>1, <3>1, OwnJob DEF SlotType
    <3> QED
      BY <1>1, <3>1, <3>2 DEF TextInv, TryOf, BusInv, TypeInv, TableInv
  <2>2. buf[w] = <<>> /\ DOMAIN <<>> = {} /\ CallSound(events, s, t, g, <<>>, <<>>, 0)
    BY <2>1, EmptySeq DEF SlotSound, BufferSound
  <2>3. all \subseteq PiecesOut(w)
    <3>1. ASSUME NEW a \in 1..s.got PROVE P(a) \in PiecesOut(w)
      <4>1. InRows(events, P(a))
        <5>1. ~InRows(<<>>, P(a)) /\ ~In(<<>>, P(a))
          BY <2>2 DEF InRows, In
        <5> QED
          BY <2>2, <5>1 DEF CallSound
      <4>2. PICK i \in Deltas : \E k \in DOMAIN events[i].pieces : events[i].pieces[k] = P(a)
        BY <4>1 DEF InRows, In, Deltas, IsDelta
      <4>3. P(a).job = s.job /\ P(a).try = t /\ P(a).call = s.call
        BY DEF PieceAt
      <4> QED
        BY <4>2, <4>3 DEF PiecesOut
    <3> QED
      BY <3>1
  <2>4. PiecesOut(w) \subseteq all
    <3>1. ASSUME NEW p \in PiecesOut(w) PROVE p \in all
      <4>1. PICK i \in Deltas : \E k \in DOMAIN events[i].pieces : events[i].pieces[k] = p
        BY <3>1 DEF PiecesOut
      <4>2. PICK k \in DOMAIN events[i].pieces : events[i].pieces[k] = p
        BY <4>1
      <4>3. p.job = s.job /\ p.try = t /\ p.call = s.call
        BY <3>1 DEF PiecesOut
      <4>4. events[i] \in EventType /\ Whole(events[i]) /\ i \in DOMAIN events /\ IsDelta(events[i])
        BY <2>1 DEF Deltas, TableSound, IsDelta
      <4>5. i \in TextRows(events, s.job, t)
        <5>1. p.job = events[i].job /\ p.try = events[i].try
          BY <4>2, <4>4, PiecesOfRow
        <5> QED
          BY <4>3, <4>4, <5>1 DEF TextRows
      <4>6. \E a \in 1..s.got : p = P(a)
        BY <2>2, <4>2, <4>3, <4>5 DEF CallSound
      <4> QED
        BY <4>6
    <3> QED
      BY <3>1
  <2>5. Cardinality(all) = s.got
    <3> DEFINE f == [a \in 1..s.got |-> P(a)]
    <3>1. \A a, b \in 1..s.got : P(a) = P(b) => a = b
      BY DEF PieceAt
    <3> HIDE DEF P
    <3>2. f \in Bijection(1..s.got, all)
      <4> DEFINE S == 1..s.got
      <4> HIDE DEF S
      <4>1. f \in [S -> all] /\ \A a, b \in S : f[a] = f[b] => a = b
        BY <3>1 DEF S
      <4>2. \A p \in all : \E a \in S : f[a] = p
        BY DEF S
      <4>3. f \in Injection(S, all)
        BY <4>1 DEF Injection, IsInjective, S
      <4>4. f \in Surjection(S, all)
        BY <4>1, <4>2 DEF Surjection, S
      <4> QED
        BY <4>3, <4>4 DEF Bijection, S
    <3>3. IsFiniteSet(1..s.got) /\ Cardinality(1..s.got) = s.got
      <4> DEFINE n == s.got
      <4>1. n \in Nat
        BY <2>1
      <4> HIDE DEF n
      <4>2. IsFiniteSet(1..n) /\ Cardinality(1..n) = IF 1 > n THEN 0 ELSE n - 1 + 1
        BY <4>1, FS_Interval
      <4>3. Cardinality(1..n) = n
        BY <4>1, <4>2
      <4> QED
        BY <4>2, <4>3 DEF n
    <3> QED
      BY <3>2, <3>3, FS_Bijection DEF ExistsBijection
  <2> QED
    BY <2>3, <2>4, <2>5
<1> QED
  BY <1>1, TextInvAlways, PTL

=============================================================================
