-------------------------- MODULE LiveStreamProofs --------------------------
(***************************************************************************)
(* Proofs about LiveStream: a page that is cut off and connects again misses *)
(* no row, and the stream implements EventFeed.                             *)
(*                                                                         *)
(* Both rest on StreamInv.  Every row of the novel is in one of three parts  *)
(* of the table: up to since it was handled or deleted; from there up to the *)
(* cursor it is on its way or deleted; the rest the server has not read.    *)
(***************************************************************************)
EXTENDS LiveStream, EventBusProofs, FiniteSetTheorems

PageInv ==
  /\ since \in 0..Len(events) /\ cursor \in 0..Len(events)
  /\ conn \in {"open", "closed"}
  /\ conn = "open" => since <= cursor
  /\ conn = "closed" => frames = {} /\ cursor = 0
  /\ handled \in Seq(Nat)
  /\ reads \subseteq SUBSET Job /\ shown \subseteq Job
  /\ breaks \in 0..MaxBreaks

PartsInv ==
  /\ \A i \in Seen : i \in Rows(Followed) /\ i <= since
  /\ \A i \in frames : i \in Rows(Followed) /\ since < i /\ i <= cursor
  /\ NothingMissed
  /\ \A i \in Rows(Followed) : since < i /\ i <= cursor => i \in frames \cup gone

StreamInv == BusInv /\ PageInv /\ PartsInv

-----------------------------------------------------------------------------
(* The table.                                                               *)

LEMMA EventsLength ==
  ASSUME BusInv
  PROVE  Len(events) \in Nat /\ DOMAIN events = 1..Len(events)
BY DEF BusInv, TypeInv, TableInv

(* A read leaves out no row before one that it returns. *)
LEMMA ReadsInOrder ==
  ASSUME BusInv, NEW n, NEW from \in Nat, NEW limit \in Nat,
         NEW i \in Rows(n) \ gone, from < i, NEW k \in ReadSince(n, from, limit), i <= k
  PROVE  i \in ReadSince(n, from, limit)
<1> DEFINE later == {h \in Rows(n) \ gone : h > from}
           Before(h) == {g \in later : g < h}
<1>1. Len(events) \in Nat /\ later \subseteq 1..Len(events)
  BY EventsLength DEF Rows
<1>2. i \in later /\ k \in later /\ i \in Nat /\ k \in Nat
  BY <1>1 DEF ReadSince
<1>3. Cardinality(Before(k)) < limit
  BY DEF ReadSince
<1>4. IsFiniteSet(Before(k))
  <2>1. IsFiniteSet(1..Len(events))
    BY <1>1, FS_Interval
  <2> QED
    BY <1>1, <2>1, FS_Subset
<1>5. Before(i) \subseteq Before(k)
  BY <1>1, <1>2
<1>6. Cardinality(Before(i)) <= Cardinality(Before(k)) /\ IsFiniteSet(Before(i))
  BY <1>4, <1>5, FS_Subset
<1>7. Cardinality(Before(i)) < limit
  BY <1>3, <1>4, <1>6, FS_CardinalityType
<1> QED
  BY <1>2, <1>7 DEF ReadSince

(* The only change of the table is one row more at its end. *)
LEMMA TableGrows ==
  ASSUME BusInv, [BusNext]_busVars
  PROVE  /\ gone \subseteq gone'
         /\ \/ UNCHANGED events
            \/ UNCHANGED gone /\ \E e \in EventType : events' = Append(events, e)
<1>1. ASSUME NEW w \in Slot, Emit(w)
      PROVE  /\ UNCHANGED gone
             /\ UNCHANGED events \/ \E e \in EventType : events' = Append(events, e)
  <2>1. Head(out[w]) \in EventType
    BY <1>1, HeadTailProperties DEF BusInv, TypeInv, OutInv, Emit
  <2> QED
    BY <1>1, <2>1 DEF Emit
<1>2. ASSUME NEW w \in Slot, SlotStep(w), ~Emit(w) PROVE UNCHANGED <<events, gone>>
  BY <1>2 DEF SlotStep, Start, Cancel, Prepare, StartStage, Call, Receive, EndOfAnswer, Repair,
              Fail, Accept, Publish, Finalize, FinalizeFails, Succeed
<1>3. CASE Restart
  BY <1>3 DEF Restart, Prune
<1>4. CASE UNCHANGED busVars
  BY <1>4 DEF busVars
<1> QED
  BY <1>1, <1>2, <1>3, <1>4 DEF BusNext

LEMMA RowsGrow ==
  ASSUME BusInv, NEW e \in EventType, events' = Append(events, e)
  PROVE  /\ Len(events') = Len(events) + 1
         /\ \/ Rows(Followed)' = Rows(Followed)
            \/ Rows(Followed)' = Rows(Followed) \cup {Len(events) + 1}
<1>1. events \in Seq(EventType) /\ Len(events) \in Nat
  BY DEF BusInv, TypeInv, TableInv
<1>2. /\ DOMAIN events' = 1..(Len(events) + 1) /\ DOMAIN events = 1..Len(events)
      /\ events'[Len(events) + 1] = e
      /\ \A i \in DOMAIN events : events'[i] = events[i]
      /\ Len(events') = Len(events) + 1
  BY <1>1
<1>3. \A i : i \in Rows(Followed)' <=> i \in Rows(Followed) \/ (i = Len(events) + 1 /\ e.novel = Followed)
  BY <1>1, <1>2 DEF Rows
<1> QED
  BY <1>2, <1>3

-----------------------------------------------------------------------------
(* The invariant, action by action.                                         *)

LEMMA StreamInit == Init => StreamInv
<1> SUFFICES ASSUME Init PROVE StreamInv
  OBVIOUS
<1>1. BusInv
  BY BusInvInit DEF Init
<1>2. events = <<>> /\ Len(events) = 0 /\ DOMAIN events = {} /\ handled = <<>> /\ DOMAIN handled = {}
  BY EmptySeq DEF Init, BusInit
<1>3. PageInv
  BY <1>2, EmptySeq, BreaksAssumption DEF Init, PageInv
<1>4. PartsInv
  BY <1>2 DEF Init, PartsInv, Rows, Seen, NothingMissed
<1> QED
  BY <1>1, <1>3, <1>4 DEF StreamInv

(* The table grows under the page. *)
LEMMA TableStep ==
  ASSUME StreamInv, [BusNext]_busVars, UNCHANGED pageVars
  PROVE  StreamInv'
<1>1. BusInv /\ BusInv' /\ Len(events) \in Nat
  BY BusInvNext, EventsLength DEF StreamInv
<1>2. UNCHANGED <<since, handled, conn, cursor, frames, reads, shown, breaks>>
  BY DEF pageVars, streamVars, viewVars
<1>3. Seen' = Seen
  BY <1>2 DEF Seen
<1>4. CASE UNCHANGED events
  <2>1. gone \subseteq gone' /\ Rows(Followed)' = Rows(Followed)
    BY <1>1, <1>4, TableGrows DEF Rows
  <2> QED
    BY <1>1, <1>2, <1>3, <1>4, <2>1 DEF StreamInv, PageInv, PartsInv, NothingMissed
<1>5. ASSUME UNCHANGED gone, NEW e \in EventType, events' = Append(events, e) PROVE StreamInv'
  <2>1. /\ Len(events') = Len(events) + 1
        /\ \/ Rows(Followed)' = Rows(Followed)
           \/ Rows(Followed)' = Rows(Followed) \cup {Len(events) + 1}
    BY <1>1, <1>5, RowsGrow
  <2>2. since \in 0..Len(events) /\ cursor \in 0..Len(events)
    BY DEF StreamInv, PageInv
  <2>3. PageInv'
    BY <1>1, <1>2, <2>1, <2>2 DEF StreamInv, PageInv
  <2>4. ~(Len(events) + 1 <= since) /\ ~(Len(events) + 1 <= cursor)
    BY <1>1, <2>2
  <2>5. PartsInv'
    BY <1>2, <1>3, <1>5, <2>1, <2>4 DEF StreamInv, PartsInv, NothingMissed
  <2> QED
    BY <1>1, <2>3, <2>5 DEF StreamInv
<1> QED
  BY <1>1, <1>4, <1>5, TableGrows

LEMMA PollKeeps ==
  ASSUME StreamInv, Poll
  PROVE  StreamInv'
<1> DEFINE rows == ReadSince(Followed, cursor, Batch)
<1>1. UNCHANGED <<busVars, since, handled, conn, reads, shown, breaks>> /\ UNCHANGED <<events, gone>>
  BY DEF Poll, busVars, viewVars
<1>2. PICK last \in rows : (\A i \in rows : i <= last) /\ cursor' = last
  BY DEF Poll
<1>3. conn = "open" /\ frames = {} /\ frames' = rows
  BY DEF Poll
<1>4. since <= cursor /\ since \in Nat /\ cursor \in Nat /\ Batch \in Nat /\ Len(events) \in Nat
  BY <1>3, BatchAssumption, EventsLength DEF StreamInv, PageInv
<1>5. /\ rows \subseteq Rows(Followed) \ gone /\ rows \subseteq 1..Len(events)
      /\ \A i \in rows : i > cursor
  BY EventsLength DEF StreamInv, ReadSince, Rows
<1>6. BusInv'
  BY <1>1, BusInvNext DEF StreamInv
<1>7. PageInv'
  BY <1>1, <1>2, <1>3, <1>4, <1>5 DEF StreamInv, PageInv
<1>8. Seen' = Seen /\ Rows(Followed)' = Rows(Followed)
  BY <1>1 DEF Seen, Rows
<1>9. \A i \in frames' : i \in Rows(Followed) /\ since < i /\ i <= cursor'
  BY <1>2, <1>3, <1>4, <1>5
<1>10. ASSUME NEW i \in Rows(Followed), since < i, i <= cursor', i \notin gone
       PROVE  i \in frames'
  <2>1. i \in Nat /\ last \in Nat
    BY <1>2, <1>5, EventsLength DEF StreamInv, Rows
  <2>2. cursor < i
    BY <1>3, <1>4, <1>10, <2>1 DEF StreamInv, PartsInv
  <2>3. i <= last /\ i \in Rows(Followed) \ gone
    BY <1>2, <1>10
  <2> QED
    BY <1>2, <1>3, <1>4, <2>2, <2>3, ReadsInOrder DEF StreamInv
<1>11. PartsInv'
  BY <1>1, <1>8, <1>9, <1>10 DEF StreamInv, PartsInv, NothingMissed
<1> QED
  BY <1>6, <1>7, <1>11 DEF StreamInv

(* The frame that is handled, and what was handled before it. *)
First(i) == i \in frames /\ \A k \in frames : i <= k

LEMMA HandleParts ==
  ASSUME StreamInv, NEW i, First(i), handled' = Append(handled, i)
  PROVE  /\ i \in Rows(Followed) /\ i \in Nat /\ since < i /\ i <= cursor
         /\ Seen' = Seen \cup {i} /\ handled' \in Seq(Nat)
         /\ \A k \in Seen : k < i
         /\ \A k \in Rows(Followed) : k < i => k \in Seen \cup gone
<1>1. /\ i \in Rows(Followed) /\ i \in Nat /\ since < i /\ i <= cursor
      /\ since \in Nat /\ cursor \in Nat
      /\ \A k \in Rows(Followed) : k \in Nat
  BY EventsLength DEF StreamInv, PageInv, PartsInv, First, Rows
<1>2. handled \in Seq(Nat)
  BY DEF StreamInv, PageInv
<1>3. /\ handled' \in Seq(Nat) /\ DOMAIN handled' = 1..(Len(handled) + 1)
      /\ DOMAIN handled = 1..Len(handled) /\ Len(handled) \in Nat
      /\ handled'[Len(handled) + 1] = i
      /\ \A k \in DOMAIN handled : handled'[k] = handled[k]
  BY <1>1, <1>2
<1>4. Seen' = Seen \cup {i}
  BY <1>3 DEF Seen
<1>5. ASSUME NEW k \in Seen PROVE k < i
  <2>1. k \in Rows(Followed) /\ k <= since
    BY DEF StreamInv, PartsInv
  <2>2. k \in Nat
    BY <1>1, <2>1
  <2> QED
    BY <1>1, <2>1, <2>2
<1>6. ASSUME NEW k \in Rows(Followed), k < i PROVE k \in Seen \cup gone
  <2>1. CASE k <= since
    BY <2>1 DEF StreamInv, PartsInv, NothingMissed
  <2>2. CASE since < k
    <3>1. k \in frames \cup gone
      BY <1>1, <1>6, <2>2 DEF StreamInv, PartsInv
    <3>2. k \notin frames
      BY <1>1, <1>6 DEF First
    <3> QED
      BY <3>1, <3>2
  <2> QED
    BY <1>1, <2>1, <2>2
<1> QED
  BY <1>1, <1>3, <1>4, <1>5, <1>6

LEMMA HandleKeeps ==
  ASSUME StreamInv, Handle
  PROVE  StreamInv'
<1>1. /\ UNCHANGED <<busVars, conn, cursor, reads, shown, breaks>> /\ UNCHANGED <<events, gone>>
  BY DEF Handle, busVars, viewVars
<1>2. PICK i \in frames :
        /\ First(i) /\ frames' = frames \ {i} /\ handled' = Append(handled, i)
        /\ since' = IF since < i THEN i ELSE since
  BY DEF Handle, First
<1>3. /\ i \in Rows(Followed) /\ i \in Nat /\ since < i /\ i <= cursor
      /\ Seen' = Seen \cup {i} /\ handled' \in Seq(Nat)
      /\ \A k \in Seen : k < i
      /\ \A k \in Rows(Followed) : k < i => k \in Seen \cup gone
  BY <1>2, HandleParts
<1>4. since' = i /\ cursor \in Nat /\ since \in Nat /\ Len(events) \in Nat
  BY <1>2, <1>3, EventsLength DEF StreamInv, PageInv
<1>5. BusInv'
  BY <1>1, BusInvNext DEF StreamInv
<1>6. PageInv'
  BY <1>1, <1>2, <1>3, <1>4 DEF StreamInv, PageInv
<1>7. Rows(Followed)' = Rows(Followed) /\ \A k \in Rows(Followed) : k \in Nat
  BY <1>1, EventsLength DEF Rows, StreamInv
<1>8. ASSUME NEW k \in Seen' PROVE k \in Rows(Followed) /\ k <= since'
  <2>1. k \in Rows(Followed) /\ (k < i \/ k = i)
    BY <1>3 DEF StreamInv, PartsInv
  <2>2. k \in Nat /\ i \in Nat
    BY <1>3, <1>7, <2>1
  <2> QED
    BY <1>4, <2>1, <2>2
<1>9. \A k \in frames' : k \in Rows(Followed) /\ since' < k /\ k <= cursor
  BY <1>2, <1>3, <1>4, <1>7 DEF StreamInv, PartsInv, First
<1>10. \A k \in Rows(Followed) : k <= since' => k \in Seen' \cup gone
  BY <1>3, <1>4, <1>7
<1>11. \A k \in Rows(Followed) : since' < k /\ k <= cursor => k \in frames' \cup gone
  BY <1>2, <1>3, <1>4, <1>7 DEF StreamInv, PartsInv
<1>12. PartsInv'
  BY <1>1, <1>7, <1>8, <1>9, <1>10, <1>11 DEF PartsInv, NothingMissed
<1> QED
  BY <1>5, <1>6, <1>12 DEF StreamInv

(* A broken connection loses what was on its way: the page asks for it again. *)
LEMMA BreakKeeps ==
  ASSUME StreamInv, Drop \/ ServerRestart \/ Reload
  PROVE  StreamInv'
<1>1. /\ conn' = "closed" /\ cursor' = 0 /\ frames' = {} /\ breaks < MaxBreaks /\ breaks' = breaks + 1
      /\ UNCHANGED events /\ gone \subseteq gone' /\ reads' \subseteq reads
  BY DEF Drop, ServerRestart, Reload, Break, Prune, busVars, viewVars
<1>2. BusInv'
  <2>1. CASE Drop \/ Reload
    <3>1. UNCHANGED busVars
      BY <2>1 DEF Drop, Reload
    <3> QED
      BY <3>1, BusInvNext DEF StreamInv
  <2>2. CASE ServerRestart
    <3>1. UNCHANGED <<events, jobs, tries, runs, marked, drafted, slot, out, buf, faults>>
      BY <2>2 DEF ServerRestart, jobVars, slotVars
    <3>2. PICK last \in 0..Len(events) : gone' = gone \cup 1..last
      BY <2>2 DEF ServerRestart, Prune
    <3>3. gone' \subseteq DOMAIN events
      BY <3>2, EventsLength DEF StreamInv, BusInv, TypeInv, TableInv
    <3> QED
      BY <3>1, <3>3 DEF StreamInv, BusInv, TypeInv, TableInv, OutInv, JobInv, SlotInv, BusyInv,
                        OfItsNovel, Compose
  <2> QED
    BY <2>1, <2>2
<1>3. Rows(Followed)' = Rows(Followed) /\ (\A k \in Rows(Followed) : k \in Nat \ {0}) /\ Len(events) \in Nat
  BY <1>1, EventsLength DEF Rows, StreamInv
<1>4. breaks' \in 0..MaxBreaks
  BY <1>1, BreaksAssumption DEF StreamInv, PageInv
<1>5. ASSUME NEW k \in Rows(Followed), since' < k, k <= cursor' PROVE FALSE
  <2>1. since' \in Nat /\ k \in Nat \ {0}
    BY <1>3 DEF Drop, ServerRestart, Reload, StreamInv, PageInv
  <2> QED
    BY <1>1, <1>5, <2>1
<1>6. CASE Drop \/ ServerRestart
  <2>1. UNCHANGED <<since, handled, shown>>
    BY <1>6 DEF Drop, ServerRestart, viewVars
  <2>2. PageInv'
    BY <1>1, <1>3, <1>4, <2>1 DEF StreamInv, PageInv
  <2>3. Seen' = Seen
    BY <2>1 DEF Seen
  <2>4. PartsInv'
    BY <1>1, <1>3, <1>5, <2>1, <2>3 DEF StreamInv, PartsInv, NothingMissed
  <2> QED
    BY <1>2, <2>2, <2>4 DEF StreamInv
<1>7. CASE Reload
  <2>1. since' = 0 /\ handled' = <<>> /\ shown' = {}
    BY <1>7 DEF Reload
  <2>2. handled' \in Seq(Nat) /\ Seen' = {}
    BY <2>1, EmptySeq DEF Seen
  <2>3. PageInv'
    BY <1>1, <1>3, <1>4, <2>1, <2>2 DEF StreamInv, PageInv
  <2>4. PartsInv'
    BY <1>1, <1>3, <1>5, <2>1, <2>2 DEF PartsInv, NothingMissed
  <2> QED
    BY <1>2, <2>3, <2>4 DEF StreamInv
<1> QED
  BY <1>6, <1>7

LEMMA ViewKeeps ==
  ASSUME StreamInv, Ask \/ \E r \in reads : Show(r)
  PROVE  StreamInv'
<1>1. UNCHANGED busVars /\ UNCHANGED <<events, gone, since, handled, breaks>>
  BY DEF Ask, Show, busVars
<1>2. BusInv' /\ drafted \subseteq Job
  BY <1>1, BusInvNext DEF StreamInv, BusInv, TypeInv, JobInv
<1>3. reads' \subseteq SUBSET Job /\ shown' \subseteq Job
  BY <1>2 DEF StreamInv, PageInv, Ask, Show, Saved
<1>4. Rows(Followed)' = Rows(Followed) /\ Seen' = Seen /\ (\A k \in Rows(Followed) : k \in Nat)
  BY <1>1, EventsLength DEF Rows, Seen, StreamInv
<1>5. CASE UNCHANGED <<conn, cursor, frames>>
  BY <1>1, <1>2, <1>3, <1>4, <1>5 DEF StreamInv, PageInv, PartsInv, NothingMissed
<1>6. CASE conn' = "open" /\ cursor' = since /\ frames' = {}
  <2>1. since \in Nat
    BY DEF StreamInv, PageInv
  <2>2. PageInv'
    BY <1>1, <1>3, <1>6, <2>1 DEF StreamInv, PageInv
  <2>3. PartsInv'
    BY <1>1, <1>4, <1>6, <2>1 DEF StreamInv, PartsInv, NothingMissed
  <2> QED
    BY <1>2, <2>2, <2>3 DEF StreamInv
<1> QED
  BY <1>5, <1>6 DEF Ask, Show, streamVars

LEMMA StreamNext == StreamInv /\ [Next]_liveVars => StreamInv'
<1> SUFFICES ASSUME StreamInv, [Next]_liveVars PROVE StreamInv'
  OBVIOUS
<1>1. CASE BusNext /\ UNCHANGED pageVars
  BY <1>1, TableStep
<1>2. CASE PageNext
  BY <1>2, PollKeeps, HandleKeeps, BreakKeeps, ViewKeeps DEF PageNext
<1>3. CASE UNCHANGED liveVars
  BY <1>3, TableStep DEF liveVars
<1> QED
  BY <1>1, <1>2, <1>3 DEF Next

LEMMA SpecStreamInv == Spec => []StreamInv
  BY StreamInit, StreamNext, PTL DEF Spec

(* The page, the connection and the server's cursor are what the module says, *)
(* and everything handled or on its way is a row of the followed novel.      *)
THEOREM StreamTypes == Spec => []StreamTypeOK
<1>1. ASSUME StreamInv PROVE StreamTypeOK
  <2>1. BusTypeOK
    BY <1>1, BusInvTyped DEF StreamInv
  <2>2. since \in Nat /\ cursor \in Nat /\ Seen \subseteq Rows(Followed) /\ frames \subseteq Rows(Followed)
    BY <1>1, EventsLength DEF StreamInv, PageInv, PartsInv
  <2> QED
    BY <1>1, <2>1, <2>2 DEF StreamInv, PageInv, StreamTypeOK
<1> QED
  BY <1>1, SpecStreamInv, PTL

(* Whatever is dropped, restarted, pruned or loaded again, and whatever is   *)
(* written to other novels, the page would not resume behind a row that it    *)
(* has not handled (server.py _stream_events, app.js ensureEventStream).     *)
THEOREM ResumesWithoutGap == Spec => []NothingMissed
<1>1. StreamInv => NothingMissed
  BY DEF StreamInv, PartsInv
<1> QED
  BY <1>1, SpecStreamInv, PTL

-----------------------------------------------------------------------------
(* The stream implements EventFeed.                                         *)

LEMMA FeedInit == Init => Feed!Init
<1> SUFFICES ASSUME Init PROVE Feed!Init
  OBVIOUS
<1>1. events = <<>> /\ DOMAIN <<>> = {}
  BY EmptySeq DEF Init, BusInit
<1> QED
  BY <1>1 DEF Init, BusInit, Feed!Init, Rows

(* Only retention, or nothing. *)
LEMMA ExpireStep ==
  ASSUME UNCHANGED <<events, handled>>, gone \subseteq gone'
  PROVE  [Feed!Next]_(Feed!feedVars)
<1>1. Rows(Followed)' = Rows(Followed)
  BY DEF Rows
<1> QED
  BY <1>1 DEF Feed!Next, Feed!Expire

LEMMA WriteStep ==
  ASSUME StreamInv, UNCHANGED <<gone, handled>>, NEW e \in EventType, events' = Append(events, e)
  PROVE  [Feed!Next]_(Feed!feedVars)
<1> DEFINE i == Len(events) + 1
<1>1. /\ Rows(Followed)' = Rows(Followed) \/ Rows(Followed)' = Rows(Followed) \cup {i}
      /\ i \in Nat /\ \A k \in Rows(Followed) : k < i /\ gone \subseteq 1..Len(events)
  BY RowsGrow, EventsLength DEF StreamInv, Rows, BusInv, TypeInv, TableInv
<1>2. i \notin gone
  BY EventsLength DEF StreamInv, BusInv, TypeInv, TableInv
<1>3. (gone \cap Rows(Followed))' = gone \cap Rows(Followed)
  BY <1>1, <1>2
<1>4. CASE Rows(Followed)' = Rows(Followed)
  BY <1>3, <1>4 DEF Feed!feedVars
<1>5. CASE Rows(Followed)' = Rows(Followed) \cup {i}
  BY <1>1, <1>3, <1>5 DEF Feed!Next, Feed!Write
<1> QED
  BY <1>1, <1>4, <1>5

LEMMA FeedNext ==
  ASSUME StreamInv, [Next]_liveVars
  PROVE  [Feed!Next]_(Feed!feedVars)
<1>1. CASE [BusNext]_busVars /\ UNCHANGED handled
  <2>1. BusInv
    BY DEF StreamInv
  <2> QED
    BY <1>1, <2>1, TableGrows, ExpireStep, WriteStep
<1>2. CASE Poll \/ Drop \/ ServerRestart \/ Ask \/ \E r \in reads : Show(r)
  <2>1. UNCHANGED <<events, handled>> /\ gone \subseteq gone'
    BY <1>2 DEF Poll, Drop, ServerRestart, Ask, Show, Prune, busVars
  <2> QED
    BY <2>1, ExpireStep
<1>3. CASE Handle
  <2>1. UNCHANGED <<events, gone>>
    BY <1>3 DEF Handle, busVars
  <2>2. PICK i \in frames : First(i) /\ handled' = Append(handled, i)
    BY <1>3 DEF Handle, First
  <2>3. /\ i \in Rows(Followed)
        /\ \A k \in Seen : k < i
        /\ \A k \in Rows(Followed) : k < i => k \in Seen \cup gone
    BY <2>2, HandleParts
  <2>4. Rows(Followed)' = Rows(Followed)
    BY <2>1 DEF Rows
  <2>5. Feed!Seen = Seen
    BY DEF Feed!Seen, Seen
  <2>6. Feed!Deliver(i)
    BY <2>1, <2>2, <2>3, <2>4, <2>5 DEF Feed!Deliver
  <2> QED
    BY <2>3, <2>4, <2>6 DEF Feed!Next
<1>4. CASE Reload
  <2>1. UNCHANGED <<events, gone>> /\ handled' = <<>>
    BY <1>4 DEF Reload, busVars
  <2>2. Rows(Followed)' = Rows(Followed)
    BY <2>1 DEF Rows
  <2> QED
    BY <2>1, <2>2 DEF Feed!Next, Feed!StartOver
<1>5. CASE UNCHANGED liveVars
  BY <1>1, <1>5 DEF liveVars, pageVars
<1> QED
  BY <1>1, <1>2, <1>3, <1>4, <1>5 DEF Next, PageNext, pageVars

(* The page is given the events of its novel in order, each once per page    *)
(* load, and none is left out but those retention has deleted.               *)
THEOREM StreamImplementsFeed == Spec => FollowsFeed
  BY FeedInit, FeedNext, SpecStreamInv, PTL DEF Spec, FollowsFeed, Feed!Spec

=============================================================================
