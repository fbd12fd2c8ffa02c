----------------------------- MODULE NovelEditor -----------------------------
(***************************************************************************)
(* What holds while requests are served one at a time: one thread (or one   *)
(* user who waits for each answer).  A handler still works on what it read  *)
(* some transactions ago, and may be killed between two of them; nobody     *)
(* else writes meanwhile.                                                   *)
(*                                                                         *)
(* The story bible needs no more than that.  The chapters also need the     *)
(* worker to stand still (Alone): a text it saves between the read and the  *)
(* write of a review, an edit or an export makes each property false.  The  *)
(* strengthening says what the open request has in its hands: the text of a *)
(* review or an export is that of the row, an edit saves the text the row   *)
(* will have, and an exported file is there before the chapter is stamped.  *)
(***************************************************************************)
EXTENDS NovelTypes

OneRequest == \A q, r \in Request : q = r
Alone      == Worker = {}

-----------------------------------------------------------------------------
(* The story bible.  The version of the novel is the newest one; an edit    *)
(* that is open goes on from it.                                            *)

Newest(b) == b.version \in b.rows /\ \A u \in b.rows : u <= b.version

Follows(thread, b) == thread.step = "bible" => thread.num = b.version + 1

BibleInv == Newest(bible) /\ \A r \in Request : Follows(request[r], bible)

(* Pruning keeps the newest version. *)
LEMMA AddedIsNewest ==
  ASSUME StoreTypeOK, Newest(bible), AddBible(bible.version + 1)
  PROVE  Newest(bible')
<1>. DEFINE v == bible.version + 1
           rows == bible.rows \cup {v}
<1>1. bible.version \in Nat /\ bible.rows \subseteq Nat /\ KeepBibles \in Nat /\ KeepBibles > 0
  BY KeepAssumption DEF StoreTypeOK
<1>2. \A u \in rows : u \in Nat /\ u <= v
  BY <1>1 DEF Newest
<1>3. \A u \in rows : u < v + KeepBibles
  BY <1>1, <1>2
<1>4. v \in Pruned(rows) /\ Pruned(rows) \subseteq rows
  BY <1>3 DEF Pruned
<1>5. bible'.version = v /\ bible'.rows = Pruned(rows)
  BY DEF AddBible
<1>. HIDE DEF v, rows
<1>. QED
  BY <1>2, <1>4, <1>5 DEF Newest

LEMMA NewestIsVersion ==
  ASSUME StoreTypeOK, Newest(bible), NEW v \in bible.rows, NewestBible(v)
  PROVE  v = bible.version
<1>1. v \in Nat /\ bible.version \in Nat
  BY DEF StoreTypeOK
<1>2. v <= bible.version /\ bible.version <= v
  BY DEF Newest, NewestBible
<1>. QED
  BY <1>1, <1>2

LEMMA SoleThread ==
  ASSUME OneRequest, ThreadsOK, NEW r \in Request, NEW thread,
         request' = [request EXCEPT ![r] = thread], NEW q \in Request
  PROVE  q = r /\ request'[q] = thread
BY DEF OneRequest, ThreadsOK, ConsoleTypeOK

LEMMA IdleFollows ==
  ASSUME NEW b
  PROVE  Follows(Idle, b)
BY DEF Idle, Follows

LEMMA BeginFollows ==
  ASSUME OneRequest, StoreTypeOK, ThreadsOK, BibleInv, NEW r \in Request, Begin(r)
  PROVE  BibleInv'
<1>. DEFINE Enters(thread) == request' = [request EXCEPT ![r] = thread]
<1>1. ASSUME NEW thread, Enters(thread), Newest(bible'), Follows(thread, bible')
      PROVE  BibleInv'
  BY <1>1, SoleThread DEF BibleInv
<1>2. CASE EditBible(r)
  <2>1. PICK v \in bible.rows :
          NewestBible(v) /\ Accept(r, "bible", [Idle EXCEPT !.step = "bible", !.num = v + 1])
    BY <1>2 DEF EditBible
  <2>2. v = bible.version /\ UNCHANGED bible
    BY <1>2, <2>1, NewestIsVersion DEF BibleInv, EditBible, storeVars
  <2>3. Follows([Idle EXCEPT !.step = "bible", !.num = v + 1], bible')
    BY <2>2 DEF Idle, Follows
  <2>. QED
    BY <1>1, <2>1, <2>2, <2>3 DEF Accept, BibleInv
<1>3. CASE \E n \in Chapter, p \in Platform : Publish(r, n, p)
  <2>1. Enters(Idle) /\ \E v \in bible.rows : NewestBible(v) /\ AddBible(v + 1)
    BY <1>3 DEF Publish, Accept, ManualPublish
  <2>2. AddBible(bible.version + 1)
    BY <2>1, NewestIsVersion DEF BibleInv
  <2>. QED
    BY <1>1, <2>1, <2>2, AddedIsNewest, IdleFollows DEF BibleInv
<1>4. CASE ~EditBible(r) /\ ~\E n \in Chapter, p \in Platform : Publish(r, n, p)
  <2>1. UNCHANGED bible /\ \E op, thread : thread.step # "bible" /\ Accept(r, op, thread)
    BY <1>4
    DEF Begin, Continue, Pause, Generate, Cancel, Review, Approve, EditTitle, Rollback, Rewrite,
        EditText, Export, ExportAgain, SetPaused, CancelJob, storeVars, Idle
  <2>2. PICK thread : thread.step # "bible" /\ Enters(thread)
    BY <2>1 DEF Accept
  <2>. QED
    BY <1>1, <2>1, <2>2 DEF BibleInv, Follows
<1>. QED
  BY <1>2, <1>3, <1>4

LEMMA CarryFollows ==
  ASSUME OneRequest, StoreTypeOK, ThreadsOK, BibleInv, NEW r \in Request, Carry(r)
  PROVE  BibleInv'
<1>1. \A q \in Request : q = r
  BY DEF OneRequest
<1>2. CASE BibleWrite(r)
  <2>1. request'[r] = Idle /\ request[r].num = bible.version + 1
    BY <1>2 DEF BibleWrite, Answer, BibleInv, Follows, ThreadsOK, ConsoleTypeOK
  <2>2. Newest(bible')
    BY <1>2, <2>1, AddedIsNewest DEF BibleWrite, UpdateBible, BibleInv, storeVars
  <2>. QED
    BY <1>1, <2>1, <2>2, IdleFollows DEF BibleInv
<1>3. CASE ~BibleWrite(r)
  <2>1. UNCHANGED bible
    BY <1>3
    DEF Carry, ContinueGate, Queue, Configure, ReviewStatus, ReviewWrite, ApproveWrite, EditWrite,
        ExportCreate, ExportWrite, ExportFails, ExportComplete, ExportRecord, RewriteWrite,
        QueueJob, SetJobConfig, RecordReview, SetStatus, UpdateDraft, CreateExport, WriteFile,
        SetExport, RewriteChapter, storeVars
  <2>2. request[r] \in Thread /\ request \in [Request -> Thread]
    BY DEF ThreadsOK, ConsoleTypeOK
  <2>3. request'[r].step # "bible"
    <3>1. CASE Queue(r)
      BY <2>2, <3>1 DEF Queue, Thread, Idle
    <3>2. CASE ReviewStatus(r) \/ ExportCreate(r)
      BY <2>2, <3>2 DEF ReviewStatus, ExportCreate, Thread
    <3>3. CASE ~Queue(r) /\ ~ReviewStatus(r) /\ ~ExportCreate(r)
      <4>1. \/ \E step : Answer(r, step)
            \/ \E step, next : next # "bible" /\ Proceed(r, step, next)
        BY <1>3, <3>3
        DEF Carry, ContinueGate, Configure, ReviewWrite, ApproveWrite, EditWrite, ExportWrite,
            ExportFails, ExportComplete, ExportRecord, RewriteWrite
      <4>. QED
        BY <2>2, <4>1 DEF Answer, Proceed, Thread, Idle
    <3>. QED
      BY <3>1, <3>2, <3>3
  <2>. QED
    BY <1>1, <2>1, <2>3 DEF BibleInv, Follows
<1>. QED
  BY <1>2, <1>3

LEMMA BibleInvNext ==
  ASSUME OneRequest
  PROVE  TypeInv /\ BibleInv /\ [Next]_vars => BibleInv'
<1>. SUFFICES ASSUME TypeInv, BibleInv, [Next]_vars
             PROVE  BibleInv'
  OBVIOUS
<1>1. StoreTypeOK /\ ThreadsOK
  BY DEF TypeInv
<1>2. CASE UNCHANGED <<bible, request>>
  BY <1>2 DEF BibleInv
<1>3. ASSUME WorkerNext
      PROVE  UNCHANGED bible
  BY <1>3
  DEF WorkerNext, Work, Claim, ReadContext, StartPlanning, VoidChapter, VoidTheJob,
      StartGenerating, StartReviewing, Finalize, Save, AutoRead, AutoWrite, CallFails,
      WriteFailure, Raise, Kill, NextPass, BackoffElapses, LeaseLapses, Overrun, Lapse,
      ClaimJob, ClaimNone, SetStatus, VoidJob, SaveGeneration, FailJob, WriteFile, storeVars
<1>4. ASSUME NEW w \in Worker, Pipeline(w)
      PROVE  UNCHANGED bible
  BY <1>4
  DEF Pipeline, FindRun, LoadMemory, Resume, CreateRun, StartStage, FinishStage, StageFails,
      Abort, StartFinalize, Finalize, SetStatus, NoResult, MarkSucceeded, storeVars
<1>5. ASSUME Outage
      PROVE  BibleInv'
  BY <1>5, IdleFollows DEF Outage, BibleInv, storeVars
<1>. QED
  BY <1>1, <1>2, <1>3, <1>4, <1>5, BeginFollows, CarryFollows
  DEF Next, ConsoleNext, vars, consoleVars, storeVars

(* While requests are served one at a time, whatever the worker does: the   *)
(* story bible that the novel names has a row, pruning never takes it.      *)
THEOREM BibleSafe ==
  ASSUME OneRequest
  PROVE  Spec => []BibleVersionLive
<1>1. Init => BibleInv
  BY IdleFollows DEF Init, StoreInit, ConsoleInit, BibleInv, Newest
<1>2. TypeInv /\ BibleInv /\ [Next]_vars => BibleInv'
  BY BibleInvNext
<1>3. BibleInv => BibleVersionLive
  BY DEF BibleInv, Newest, BibleVersionLive
<1>. QED
  BY <1>1, <1>2, <1>3, TypeInvAlways, PTL DEF Spec

-----------------------------------------------------------------------------
(* The chapters, while the worker stands still. *)

Clean(row, passed, kept) ==
  /\ row.verdict # "none" => row.reviewed = row.body
  /\ row.verdict = "passed" => row.body \in passed
  /\ row.status \in OnDisk => row.body \in passed /\ \E f \in Format : row.body \in kept[f]
  /\ row.drafts # <<>> => row.drafts[Len(row.drafts)] = row.body

ChaptersClean == \A n \in Chapter : Clean(chapter[n], cleared[n], files[n])

(* What the handler of an open request has read is still so. *)
UpToDate(thread, row, kept) ==
  /\ thread.step \in {"review.status", "review.write"} =>
       thread.text = row.body
  /\ thread.step = "review.write" /\ thread.status \in OnDisk => row.status \in OnDisk
  /\ thread.step = "edit" =>
       thread.saved = IF thread.ok THEN thread.text ELSE row.body
  /\ thread.step \in Exporting => row.verdict = "passed" /\ thread.text = row.body
  /\ thread.step \in {"export.complete", "export.record"} => row.body \in kept[thread.fmt]

ThreadsUpToDate ==
  \A r \in Request :
    request[r].step \notin {"idle", "bible"} =>
      UpToDate(request[r], chapter[request[r].n], files[request[r].n])

EditorInv == ChaptersClean /\ ThreadsUpToDate
LEMMA IdleUpToDate ==
  ASSUME NEW row, NEW kept
  PROVE  UpToDate(Idle, row, kept)
BY DEF Idle, UpToDate, Exporting

(* One chapter changes, and the one thread. *)
Others(n) ==
  \A m \in Chapter \ {n} : chapter'[m] = chapter[m] /\ cleared'[m] = cleared[m] /\ files'[m] = files[m]

LEMMA OneChapter ==
  ASSUME ChaptersClean, NEW n \in Chapter, Others(n), Clean(chapter'[n], cleared'[n], files'[n])
  PROVE  ChaptersClean'
BY DEF ChaptersClean, Others

LEMMA SameChapters ==
  ASSUME ChaptersClean, UNCHANGED <<chapter, cleared, files>>
  PROVE  ChaptersClean'
BY DEF ChaptersClean

LEMMA OneThread ==
  ASSUME OneRequest, ThreadsOK, NEW r \in Request, NEW thread,
         request' = [request EXCEPT ![r] = thread],
         thread.step \notin {"idle", "bible"} =>
           UpToDate(thread, chapter'[thread.n], files'[thread.n])
  PROVE  ThreadsUpToDate'
BY SoleThread DEF ThreadsUpToDate

LEMMA AcceptUpToDate ==
  ASSUME OneRequest, ThreadsOK, NEW r \in Request, NEW op, NEW thread, Accept(r, op, thread),
         thread.step \notin {"idle", "bible"} =>
           UpToDate(thread, chapter'[thread.n], files'[thread.n])
  PROVE  ThreadsUpToDate'
BY OneThread DEF Accept

LEMMA AnswerUpToDate ==
  ASSUME OneRequest, ThreadsOK, NEW r \in Request, NEW step, Answer(r, step)
  PROVE  ThreadsUpToDate'
<1>1. Idle.step = "idle"
  BY DEF Idle
<1>. QED
  BY <1>1, OneThread DEF Answer

(* A status may change while the row stays as it is: to one of those that   *)
(* claim nothing, or to one the row has earned.                             *)
LEMMA StatusClean ==
  ASSUME StoreTypeOK, ChaptersClean, NEW n \in Chapter, NEW status,
         chapter' = [chapter EXCEPT ![n].status = status], UNCHANGED <<cleared, files>>,
         status \in OnDisk =>
           chapter[n].body \in cleared[n] /\ \E f \in Format : chapter[n].body \in files[n][f]
  PROVE  ChaptersClean'
<1>. DEFINE row == chapter[n]
           new == chapter'[n]
<1>1. /\ new.status = status /\ new.body = row.body /\ new.verdict = row.verdict
      /\ new.reviewed = row.reviewed /\ new.drafts = row.drafts
  BY DEF StoreTypeOK, ChapterRow
<1>2. Others(n)
  BY DEF Others, StoreTypeOK
<1>3. Clean(row, cleared[n], files[n])
  BY DEF ChaptersClean
<1>. HIDE DEF row, new
<1>4. Clean(new, cleared[n], files[n])
  BY <1>1, <1>3 DEF Clean, row
<1>. QED
  BY <1>2, <1>4, OneChapter DEF new

LEMMA BeginUpToDate ==
  ASSUME OneRequest, StoreTypeOK, ThreadsOK, EditorInv, NEW r \in Request, Begin(r)
  PROVE  EditorInv'
<1>1. ChaptersClean /\ \A n \in Chapter : Clean(chapter[n], cleared[n], files[n])
  BY DEF EditorInv, ChaptersClean
<1>2. ASSUME NEW op, NEW thread, Accept(r, op, thread), UNCHANGED <<chapter, cleared, files>>,
             thread.step \notin {"idle", "bible"} =>
               UpToDate(thread, chapter[thread.n], files[thread.n])
      PROVE  EditorInv'
  BY <1>1, <1>2, SameChapters, AcceptUpToDate DEF EditorInv
<1>3. ASSUME NEW op, NEW thread, Accept(r, op, thread), UNCHANGED <<chapter, cleared, files>>,
             thread.step \in {"idle", "bible", "continue.gate", "queue", "approve", "rewrite"}
      PROVE  EditorInv'
  BY <1>2, <1>3 DEF UpToDate, Exporting
<1>4. CASE Continue(r)
  BY <1>3, <1>4 DEF Continue, SetPaused, textVars, publishVars, Idle
<1>5. CASE Pause(r)
  BY <1>3, <1>5 DEF Pause, SetPaused, textVars, publishVars, Idle
<1>6. CASE EditBible(r)
  BY <1>3, <1>6 DEF EditBible, storeVars, textVars, publishVars, Idle
<1>7. ASSUME NEW n \in Chapter, Generate(r, n) \/ Approve(r, n) \/ Rewrite(r, n)
      PROVE  EditorInv'
  BY <1>3, <1>7 DEF Generate, Approve, Rewrite, storeVars, textVars, publishVars, Idle
<1>8. ASSUME NEW n \in Chapter, NEW f \in Format, ExportAgain(r, n, f)
      PROVE  EditorInv'
  BY <1>3, <1>8 DEF ExportAgain, storeVars, textVars, publishVars, Idle
<1>9. ASSUME NEW n \in Chapter, Cancel(r, n)
      PROVE  EditorInv'
  <2>1. ThreadsUpToDate'
    BY <1>9, AcceptUpToDate DEF Cancel, Idle
  <2>2. ChaptersClean'
    <3>1. CASE UNCHANGED <<chapter, cleared, files>>
      BY <1>1, <3>1, SameChapters
    <3>2. "CANCELLED" \notin OnDisk
      BY DEF OnDisk
    <3>3. CASE /\ chapter' = [chapter EXCEPT ![n].status = "CANCELLED"]
               /\ UNCHANGED <<cleared, files>>
      BY <1>1, <3>2, <3>3, StatusClean
    <3>. QED
      BY <1>9, <3>1, <3>3 DEF Cancel, CancelJob, publishVars
  <2>. QED
    BY <2>1, <2>2 DEF EditorInv
<1>10. ASSUME NEW n \in Chapter, NEW p \in Platform, Publish(r, n, p)
       PROVE  EditorInv'
  <2>1. ThreadsUpToDate'
    BY <1>10, AcceptUpToDate DEF Publish, Idle
  <2>2. "EXPORTED" \in OnDisk
    BY DEF OnDisk
  <2>3. /\ chapter[n].status \in OnDisk
        /\ chapter' = [chapter EXCEPT ![n].status = "PUBLISHED_MANUALLY"]
        /\ UNCHANGED <<cleared, files>>
    BY <1>10, <2>2 DEF Publish, ManualPublish
  <2>4. chapter[n].body \in cleared[n] /\ \E f \in Format : chapter[n].body \in files[n][f]
    BY <1>1, <2>3 DEF Clean
  <2>5. ChaptersClean'
    BY <1>1, <2>3, <2>4, StatusClean
  <2>. QED
    BY <2>1, <2>5 DEF EditorInv
<1>11. ASSUME NEW n \in Chapter, Review(r, n)
       PROVE  EditorInv'
  <2>1. PICK passed \in BOOLEAN :
          Accept(r, "review", [Idle EXCEPT !.step = "review.status", !.n = n,
                                           !.text = chapter[n].body, !.ok = passed])
    BY <1>11 DEF Review
  <2>. DEFINE thread == [Idle EXCEPT !.step = "review.status", !.n = n,
                                    !.text = chapter[n].body, !.ok = passed]
  <2>2. thread.step = "review.status" /\ thread.n = n /\ thread.text = chapter[n].body
    BY DEF Idle
  <2>3. Accept(r, "review", thread)
    BY <2>1
  <2>. HIDE DEF thread
  <2>4. UpToDate(thread, chapter[thread.n], files[thread.n])
    BY <2>2 DEF UpToDate, Exporting
  <2>. QED
    BY <1>2, <1>11, <2>3, <2>4 DEF Review, storeVars, textVars, publishVars
<1>12. ASSUME NEW thread, NEW op, Accept(r, op, thread), UNCHANGED storeVars, thread.step = "edit",
              thread.saved = IF thread.ok THEN thread.text ELSE chapter[thread.n].body
       PROVE  EditorInv'
  <2>1. UpToDate(thread, chapter[thread.n], files[thread.n])
    BY <1>12 DEF UpToDate, Exporting
  <2>. QED
    BY <1>2, <1>12, <2>1 DEF storeVars, textVars, publishVars
<1>13. ASSUME NEW n \in Chapter, EditTitle(r, n) \/ Rollback(r, n) \/ \E text \in Text : EditText(r, n, text)
       PROVE  EditorInv'
  <2>1. CASE EditTitle(r, n)
    BY <1>12, <2>1 DEF EditTitle, Idle
  <2>2. CASE Rollback(r, n)
    BY <1>12, <2>2 DEF Rollback, Idle
  <2>3. ASSUME NEW text \in Text, EditText(r, n, text)
        PROVE  EditorInv'
    BY <1>12, <2>3 DEF EditText, Idle
  <2>. QED
    BY <1>13, <2>1, <2>2, <2>3
<1>14. ASSUME NEW n \in Chapter, NEW f \in Format, Export(r, n, f)
       PROVE  EditorInv'
  <2>. DEFINE thread == [Idle EXCEPT !.step = "export.create", !.n = n, !.fmt = f,
                                    !.text = chapter[n].body]
  <2>1. thread.step = "export.create" /\ thread.n = n /\ thread.text = chapter[n].body
    BY DEF Idle
  <2>2. Accept(r, "export", thread) /\ chapter[n].verdict = "passed"
    BY <1>14 DEF Export, Exportable
  <2>. HIDE DEF thread
  <2>3. UpToDate(thread, chapter[thread.n], files[thread.n])
    BY <2>1, <2>2 DEF UpToDate
  <2>. QED
    BY <1>2, <1>14, <2>2, <2>3 DEF Export, storeVars, textVars, publishVars
<1>. QED
  BY <1>4, <1>5, <1>6, <1>7, <1>8, <1>9, <1>10, <1>11, <1>13, <1>14 DEF Begin

LEMMA ReviewedClean ==
  ASSUME StoreTypeOK, ChaptersClean, NEW n \in Chapter, NEW passed \in BOOLEAN, NEW status,
         RecordReview(n, chapter[n].body, passed, status),
         status \in OnDisk => chapter[n].status \in OnDisk
  PROVE  ChaptersClean'
<1>. DEFINE row == chapter[n]
           new == chapter'[n]
<1>1. /\ new.status = status /\ new.body = row.body /\ new.reviewed = row.body
      /\ new.verdict = (IF passed THEN "passed" ELSE "failed") /\ new.drafts = row.drafts
  BY DEF RecordReview, StoreTypeOK, ChapterRow
<1>2. Others(n)
  BY DEF Others, RecordReview, StoreTypeOK, publishVars
<1>3. Clean(row, cleared[n], files[n])
  BY DEF ChaptersClean
<1>4. files' = files /\ cleared[n] \subseteq cleared'[n] /\ (passed => row.body \in cleared'[n])
  BY DEF RecordReview, StoreTypeOK, publishVars
<1>. HIDE DEF row, new
<1>5. Clean(new, cleared'[n], files'[n])
  BY <1>1, <1>3, <1>4 DEF Clean, row
<1>. QED
  BY <1>2, <1>5, OneChapter DEF new

LEMMA EditedClean ==
  ASSUME StoreTypeOK, ChaptersClean, NEW n \in Chapter, NEW text \in Text,
         UpdateDraft(n, text, text)
  PROVE  ChaptersClean'
<1>. DEFINE drafts == chapter[n].drafts
           new == chapter'[n]
<1>1. /\ new.status = "REVIEWING" /\ new.body = text /\ new.verdict = "none"
      /\ new.drafts = Append(drafts, text)
  BY DEF UpdateDraft, StoreTypeOK
<1>2. Others(n)
  BY DEF Others, UpdateDraft, StoreTypeOK, publishVars
<1>3. drafts \in Seq(Text)
  BY DEF StoreTypeOK, ChapterRow
<1>. HIDE DEF drafts
<1>4. new.drafts[Len(new.drafts)] = text
  BY <1>1, <1>3
<1>. HIDE DEF new
<1>5. Clean(new, cleared'[n], files'[n])
  BY <1>1, <1>4 DEF Clean, OnDisk
<1>. QED
  BY <1>2, <1>5, OneChapter DEF new

LEMMA FiledClean ==
  ASSUME StoreTypeOK, ChaptersClean, NEW n \in Chapter, NEW f \in Format,
         WriteFile(n, f, chapter[n].body)
  PROVE  ChaptersClean' /\ chapter' = chapter /\ chapter[n].body \in files'[n][f]
<1>1. UNCHANGED <<chapter, cleared>> /\ files'[n] = [files[n] EXCEPT ![f] = {chapter[n].body}]
  BY DEF WriteFile, textVars, StoreTypeOK
<1>2. Others(n)
  BY DEF WriteFile, textVars, StoreTypeOK, Others
<1>3. chapter[n].body \in files'[n][f]
  BY <1>1 DEF StoreTypeOK
<1>4. Clean(chapter'[n], cleared'[n], files'[n])
  BY <1>1, <1>3 DEF ChaptersClean, Clean
<1>. QED
  BY <1>1, <1>2, <1>3, <1>4, OneChapter

LEMMA CarryUpToDate ==
  ASSUME OneRequest, StoreTypeOK, ThreadsOK, EditorInv, NEW r \in Request, Carry(r)
  PROVE  EditorInv'
<1>. DEFINE t == request[r]
           n == t.n
<1>1. ChaptersClean /\ \A m \in Chapter : Clean(chapter[m], cleared[m], files[m])
  BY DEF EditorInv, ChaptersClean
<1>2. /\ t \in Thread /\ (t.step \notin {"idle", "bible"} => n \in Chapter)
      /\ t.step \in Exporting => t.fmt \in Format
  BY DEF ThreadsOK, ConsoleTypeOK, OpenHasChapter
<1>3. t.step \notin {"idle", "bible"} => UpToDate(t, chapter[n], files[n])
  BY DEF EditorInv, ThreadsUpToDate
<1>4. ASSUME ChaptersClean', NEW step, Answer(r, step)
      PROVE  EditorInv'
  BY <1>4, AnswerUpToDate DEF EditorInv
<1>5. ASSUME UNCHANGED <<chapter, cleared, files>>
      PROVE  ChaptersClean'
  BY <1>1, <1>5, SameChapters
<1>6. ASSUME ChaptersClean', NEW thread, request' = [request EXCEPT ![r] = thread],
             thread.step \notin {"idle", "bible"} =>
               UpToDate(thread, chapter'[thread.n], files'[thread.n])
      PROVE  EditorInv'
  BY <1>6, OneThread DEF EditorInv
<1>. HIDE DEF t
<1>7. CASE ContinueGate(r)
  <2>1. UNCHANGED <<chapter, cleared, files>>
    BY <1>7 DEF ContinueGate, storeVars, textVars, publishVars
  <2>. DEFINE thread == [t EXCEPT !.step = "queue"]
  <2>2. thread.step = "queue"
    BY <1>2 DEF Thread
  <2>3. Answer(r, "continue.gate") \/ request' = [request EXCEPT ![r] = thread]
    BY <1>7 DEF ContinueGate, Proceed, t
  <2>. HIDE DEF thread
  <2>4. UpToDate(thread, chapter'[thread.n], files'[thread.n])
    BY <2>2 DEF UpToDate, Exporting
  <2>. QED
    BY <1>4, <1>5, <1>6, <2>1, <2>3, <2>4
<1>8. CASE Queue(r)
  <2>1. n \in Chapter /\ QueueJob(n)
    BY <1>2, <1>8 DEF Queue, t
  <2>2. ChaptersClean'
    <3>1. CASE UNCHANGED <<chapter, cleared, files>>
      BY <1>5, <3>1
    <3>2. CASE /\ chapter' = [chapter EXCEPT ![n].status = "PENDING"]
               /\ UNCHANGED <<cleared, files>>
      <4>1. "PENDING" \notin OnDisk
        BY DEF OnDisk
      <4>. HIDE DEF n
      <4>. QED
        BY <1>1, <2>1, <3>2, <4>1, StatusClean
    <3>. HIDE DEF n
    <3>. QED
      BY <2>1, <3>1, <3>2 DEF QueueJob, storeVars, textVars, publishVars
  <2>. DEFINE thread == IF t.plans = {} THEN Idle
                       ELSE [t EXCEPT !.step = "configure", !.id = job[n].id]
  <2>3. thread.step \in {"idle", "configure"}
    BY <1>2 DEF Thread, Idle
  <2>4. request' = [request EXCEPT ![r] = thread]
    BY <1>8 DEF Queue, t
  <2>. HIDE DEF thread
  <2>5. thread.step \notin {"idle", "bible"} =>
          UpToDate(thread, chapter'[thread.n], files'[thread.n])
    BY <2>3 DEF UpToDate, Exporting
  <2>. QED
    BY <1>6, <2>2, <2>4, <2>5
<1>9. CASE Configure(r)
  BY <1>4, <1>5, <1>9 DEF Configure, SetJobConfig, textVars, publishVars
<1>10. CASE ReviewStatus(r)
  <2>1. /\ t.step = "review.status" /\ UNCHANGED <<chapter, cleared, files>>
    BY <1>10 DEF ReviewStatus, storeVars, textVars, publishVars, t
  <2>. DEFINE status == StatusAfterReview(chapter[n].status, t.ok)
             thread == [t EXCEPT !.step = "review.write", !.status = status]
  <2>2. /\ thread.step = "review.write" /\ thread.status = status /\ thread.n = n
        /\ thread.text = t.text
    BY <1>2 DEF Thread
  <2>3. request' = [request EXCEPT ![r] = thread]
    BY <1>10 DEF ReviewStatus, t
  <2>4. status \in OnDisk => chapter[n].status \in OnDisk
    BY DEF StatusAfterReview, OnDisk
  <2>. HIDE DEF thread, status
  <2>5. UpToDate(thread, chapter[n], files[n])
    BY <1>3, <2>1, <2>2, <2>4 DEF UpToDate, Exporting
  <2>. QED
    BY <1>5, <1>6, <2>1, <2>2, <2>3, <2>5
<1>11. CASE ReviewWrite(r)
  <2>1. Answer(r, "review.write") /\ RecordReview(n, t.text, t.ok, t.status) /\ t.step = "review.write"
    BY <1>11 DEF ReviewWrite, Answer, t
  <2>2. /\ t.text = chapter[n].body /\ (t.status \in OnDisk => chapter[n].status \in OnDisk)
        /\ t.ok \in BOOLEAN /\ n \in Chapter
    BY <1>2, <1>3, <2>1 DEF UpToDate, Thread
  <2>. HIDE DEF n
  <2>. QED
    BY <1>1, <1>4, <2>1, <2>2, ReviewedClean
<1>12. CASE ApproveWrite(r)
  <2>1. /\ Answer(r, "approve") /\ n \in Chapter
        /\ chapter' = [chapter EXCEPT ![n].status = "DRAFT_READY"] /\ UNCHANGED <<cleared, files>>
    BY <1>2, <1>12 DEF ApproveWrite, Answer, SetStatus, publishVars, t
  <2>2. "DRAFT_READY" \notin OnDisk
    BY DEF OnDisk
  <2>. HIDE DEF n
  <2>. QED
    BY <1>1, <1>4, <2>1, <2>2, StatusClean
<1>13. CASE EditWrite(r)
  <2>. DEFINE text == IF t.ok THEN t.text ELSE chapter[n].body
  <2>1. Answer(r, "edit") /\ t.step = "edit" /\ n \in Chapter /\ UpdateDraft(n, text, t.saved)
    BY <1>2, <1>13 DEF EditWrite, Answer, t
  <2>2. t.saved = text /\ text \in Text
    BY <1>2, <1>3, <2>1 DEF UpToDate, Thread, StoreTypeOK, ChapterRow
  <2>. HIDE DEF n, text
  <2>. QED
    BY <1>1, <1>4, <2>1, <2>2, EditedClean
<1>14. CASE ExportCreate(r)
  <2>1. /\ t.step = "export.create" /\ UNCHANGED <<chapter, cleared, files>>
    BY <1>14 DEF ExportCreate, CreateExport, textVars, t
  <2>. DEFINE thread == [t EXCEPT !.step = "export.write", !.id = job[n].id]
  <2>2. thread.step = "export.write" /\ thread.n = n /\ thread.text = t.text
    BY <1>2 DEF Thread
  <2>3. request' = [request EXCEPT ![r] = thread]
    BY <1>14 DEF ExportCreate, t
  <2>. HIDE DEF thread
  <2>4. UpToDate(thread, chapter[n], files[n])
    BY <1>3, <2>1, <2>2 DEF UpToDate, Exporting
  <2>. QED
    BY <1>5, <1>6, <2>1, <2>2, <2>3, <2>4
<1>15. CASE ExportWrite(r)
  <2>1. t.step = "export.write" /\ WriteFile(n, t.fmt, t.text)
    BY <1>15 DEF ExportWrite, Proceed, t
  <2>2. t.text = chapter[n].body /\ chapter[n].verdict = "passed" /\ n \in Chapter /\ t.fmt \in Format
    BY <1>2, <1>3, <2>1 DEF UpToDate, Exporting
  <2>. DEFINE thread == [t EXCEPT !.step = "export.complete"]
  <2>3. /\ thread.step = "export.complete" /\ thread.n = n /\ thread.text = t.text
        /\ thread.fmt = t.fmt
    BY <1>2 DEF Thread
  <2>4. request' = [request EXCEPT ![r] = thread]
    BY <1>15 DEF ExportWrite, Proceed, t
  <2>. HIDE DEF thread, n
  <2>5. ChaptersClean' /\ chapter' = chapter /\ chapter[n].body \in files'[n][t.fmt]
    BY <1>1, <2>1, <2>2, FiledClean
  <2>6. UpToDate(thread, chapter'[n], files'[n])
    BY <2>2, <2>3, <2>5 DEF UpToDate
  <2>. QED
    BY <1>6, <2>3, <2>4, <2>5, <2>6
<1>16. CASE ExportFails(r)
  BY <1>4, <1>5, <1>16 DEF ExportFails, SetExport, textVars
<1>17. CASE ExportComplete(r)
  <2>1. /\ t.step = "export.complete" /\ UNCHANGED <<chapter, cleared, files>>
    BY <1>17 DEF ExportComplete, Proceed, SetExport, textVars, t
  <2>. DEFINE thread == [t EXCEPT !.step = "export.record"]
  <2>2. /\ thread.step = "export.record" /\ thread.n = n /\ thread.text = t.text
        /\ thread.fmt = t.fmt
    BY <1>2 DEF Thread
  <2>3. request' = [request EXCEPT ![r] = thread]
    BY <1>17 DEF ExportComplete, Proceed, t
  <2>. HIDE DEF thread
  <2>4. UpToDate(thread, chapter[n], files[n])
    BY <1>3, <2>1, <2>2 DEF UpToDate, Exporting
  <2>. QED
    BY <1>5, <1>6, <2>1, <2>2, <2>3, <2>4
<1>18. CASE ExportRecord(r)
  <2>1. /\ Answer(r, "export.record") /\ t.step = "export.record"
        /\ chapter' = [chapter EXCEPT ![n].status = "EXPORTED"] /\ UNCHANGED <<cleared, files>>
    BY <1>18 DEF ExportRecord, Answer, SetStatus, publishVars, t
  <2>2. /\ n \in Chapter /\ t.fmt \in Format /\ chapter[n].verdict = "passed"
        /\ chapter[n].body \in files[n][t.fmt]
    BY <1>2, <1>3, <2>1 DEF UpToDate, Exporting
  <2>3. chapter[n].body \in cleared[n]
    BY <1>1, <2>2 DEF Clean
  <2>. HIDE DEF n
  <2>. QED
    BY <1>1, <1>4, <2>1, <2>2, <2>3, StatusClean
<1>19. CASE RewriteWrite(r)
  <2>1. ChaptersClean'
    <3>1. CASE UNCHANGED storeVars
      BY <1>5, <3>1 DEF storeVars, textVars, publishVars
    <3>2. CASE RewriteChapter(n)
      <4>1. n \in Chapter
        BY <1>2, <1>19 DEF RewriteWrite, Answer, t
      <4>. HIDE DEF n
      <4>2. Others(n)
        BY <3>2 DEF RewriteChapter, Others, StoreTypeOK
      <4>3. /\ chapter'[n].status = "PENDING" /\ chapter'[n].verdict = "none"
            /\ chapter'[n].drafts = <<>>
        BY <3>2, <4>1 DEF RewriteChapter, StoreTypeOK, NoChapter
      <4>4. Clean(chapter'[n], cleared'[n], files'[n])
        BY <4>3 DEF Clean, OnDisk
      <4>. QED
        BY <1>1, <4>1, <4>2, <4>4, OneChapter
    <3>. QED
      BY <1>19, <3>1, <3>2 DEF RewriteWrite, t
  <2>. QED
    BY <1>4, <1>19, <2>1 DEF RewriteWrite
<1>20. CASE BibleWrite(r)
  BY <1>4, <1>5, <1>20 DEF BibleWrite, UpdateBible, storeVars, textVars, publishVars
<1>. QED
  BY <1>7, <1>8, <1>9, <1>10, <1>11, <1>12, <1>13, <1>14, <1>15, <1>16, <1>17, <1>18, <1>19, <1>20
  DEF Carry

LEMMA EditorInvNext ==
  ASSUME OneRequest, Alone
  PROVE  TypeInv /\ EditorInv /\ [Next]_vars => EditorInv'
<1>. SUFFICES ASSUME TypeInv, EditorInv, [Next]_vars
             PROVE  EditorInv'
  OBVIOUS
<1>1. StoreTypeOK /\ ThreadsOK
  BY DEF TypeInv
<1>2. CASE UNCHANGED <<chapter, cleared, files, request>>
  BY <1>2 DEF EditorInv, ChaptersClean, ThreadsUpToDate
<1>3. ASSUME WorkerNext
      PROVE  UNCHANGED <<chapter, cleared, files>>
  BY <1>3
  DEF Alone, WorkerNext, Kill, NextPass, BackoffElapses, LeaseLapses, Overrun, Lapse, textVars,
      publishVars
<1>4. ~\E w \in Worker : Pipeline(w)
  BY DEF Alone
<1>5. ASSUME Outage
      PROVE  EditorInv'
  <2>1. \A r \in Request : request'[r].step = "idle"
    BY <1>5 DEF Outage, Idle
  <2>2. ChaptersClean'
    BY <1>5, SameChapters DEF Outage, EditorInv, storeVars, textVars, publishVars
  <2>. QED
    BY <2>1, <2>2 DEF EditorInv, ThreadsUpToDate
<1>. QED
  BY <1>1, <1>2, <1>3, <1>4, <1>5, BeginUpToDate, CarryUpToDate
  DEF Next, ConsoleNext, vars, consoleVars, storeVars, textVars, publishVars

LEMMA EditorInvAlways ==
  ASSUME OneRequest, Alone
  PROVE  Spec => []EditorInv
<1>1. Init => EditorInv
  <2>. SUFFICES ASSUME Init PROVE EditorInv
    OBVIOUS
  <2>1. \A n \in Chapter : chapter[n] = NoChapter
    BY DEF Init, StoreInit
  <2>2. \A r \in Request : request[r].step = "idle"
    BY DEF Init, ConsoleInit, Idle
  <2>3. NoChapter.verdict = "none" /\ NoChapter.status \notin OnDisk /\ NoChapter.drafts = <<>>
    BY DEF NoChapter, OnDisk
  <2>4. ChaptersClean
    BY <2>1, <2>3 DEF ChaptersClean, Clean
  <2>. QED
    BY <2>2, <2>4 DEF EditorInv, ThreadsUpToDate
<1>2. TypeInv /\ EditorInv /\ [Next]_vars => EditorInv'
  BY EditorInvNext
<1>. QED
  BY <1>1, <1>2, TypeInvAlways, PTL DEF Spec

(* One user, no worker: the verdict that a chapter shows is about the text  *)
(* it shows, also after an edit, a rollback, or an outage in the middle.    *)
THEOREM ReviewsMatch ==
  ASSUME OneRequest, Alone
  PROVE  Spec => []ReviewIsOfBody
<1>1. EditorInv => ReviewIsOfBody
  BY DEF EditorInv, ChaptersClean, Clean, ReviewIsOfBody
<1>. QED
  BY <1>1, EditorInvAlways, PTL

(* One user, no worker: what is published passed a review as it stands.     *)
THEOREM PublicationsReviewed ==
  ASSUME OneRequest, Alone
  PROVE  Spec => []PublishedPassedReview
<1>1. EditorInv => PublishedPassedReview
  BY DEF EditorInv, ChaptersClean, Clean, OnDisk, PublishedPassedReview
<1>. QED
  BY <1>1, EditorInvAlways, PTL

(* One user, no worker: the youngest draft is the text of the chapter,      *)
(* whatever was edited, retitled or rolled back.                            *)
THEOREM DraftsMatch ==
  ASSUME OneRequest, Alone
  PROVE  Spec => []LatestDraftIsBody
<1>1. EditorInv => LatestDraftIsBody
  BY DEF EditorInv, ChaptersClean, Clean, LatestDraftIsBody
<1>. QED
  BY <1>1, EditorInvAlways, PTL

(* One user, no worker: an exported or published chapter has its text in an *)
(* exported file; an edit after the export takes the stamp away.            *)
THEOREM FilesMatch ==
  ASSUME OneRequest, Alone
  PROVE  Spec => []ExportedFileIsBody
<1>1. EditorInv => ExportedFileIsBody
  BY DEF EditorInv, ChaptersClean, Clean, ExportedFileIsBody
<1>. QED
  BY <1>1, EditorInvAlways, PTL

=============================================================================
