----------------------------- MODULE LiveStream -----------------------------
(***************************************************************************)
(* The events table, the server's event stream and the page that follows    *)
(* one novel: server.py (_stream_events) and static/app.js.                 *)
(*                                                                         *)
(* The page keeps the greatest id it has handled and asks for what follows   *)
(* it when it connects; the server reads the table from there on, a batch    *)
(* at a time.  Rows that were read and have not reached the page are frames  *)
(* of the connection: they arrive in order, and are lost with it.            *)
(* Beside the stream, the page reads the chapters when an event or its poll  *)
(* timer says so; an answer is shown when it comes, whatever was asked since. *)
(***************************************************************************)
EXTENDS EventBus

CONSTANTS
  Followed,    \* the novel on the page
  Batch,       \* limit of one read (100)
  MaxReads,    \* bound: refreshes on their way
  MaxBreaks    \* bound: broken connections, server restarts, page loads

ASSUME FollowedAssumption == Followed \in Novel
ASSUME BatchAssumption == Batch \in Nat \ {0}
ASSUME BreaksAssumption == MaxBreaks \in Nat

VARIABLES
  since,     \* state.ev.since
  handled,   \* ids of the events handled since the page was loaded, in order
  conn,      \* the stream: "open" or "closed"
  cursor,    \* of the server, in that stream
  frames,    \* ids read and not yet at the page
  reads,     \* answers of refreshes that have not come yet
  shown,     \* jobs of the novel whose draft is on the page
  breaks

streamVars == <<conn, cursor, frames>>
viewVars == <<reads, shown>>
pageVars == <<since, handled, streamVars, viewVars, breaks>>
liveVars == <<busVars, pageVars>>

Init ==
  /\ BusInit
  /\ since = 0 /\ handled = <<>>
  /\ conn = "closed" /\ cursor = 0 /\ frames = {}
  /\ reads = {} /\ shown = {}
  /\ breaks = 0

-----------------------------------------------------------------------------
(* The stream.                                                              *)

(* One read: cursor moves to the last row of it. *)
Poll ==
  /\ conn = "open" /\ frames = {}
  /\ \E last \in ReadSince(Followed, cursor, Batch) :
       /\ \A i \in ReadSince(Followed, cursor, Batch) : i <= last
       /\ cursor' = last
  /\ frames' = ReadSince(Followed, cursor, Batch)
  /\ UNCHANGED <<busVars, since, handled, conn, viewVars, breaks>>

(* handleEvent, of the first frame. *)
Handle ==
  /\ \E i \in frames :
       /\ \A k \in frames : i <= k
       /\ frames' = frames \ {i}
       /\ handled' = Append(handled, i)
       /\ since' = IF since < i THEN i ELSE since
  /\ UNCHANGED <<busVars, conn, cursor, viewVars, breaks>>

(* Mutant: the page goes on reading behind the frames that were lost. *)
Break_goesOn ==
  /\ breaks < MaxBreaks /\ breaks' = breaks + 1
  /\ frames' = {}
  /\ UNCHANGED <<conn, cursor>>

(* The connection breaks, or the server stops and starts again. *)
Break ==
  /\ breaks < MaxBreaks /\ breaks' = breaks + 1
  /\ conn' = "closed" /\ cursor' = 0 /\ frames' = {}

Drop ==
  /\ conn = "open" /\ Break
  /\ UNCHANGED <<busVars, since, handled, viewVars>>

ServerRestart ==
  /\ Break
  /\ Prune
  /\ reads' = {}
  /\ UNCHANGED <<events, jobVars, slotVars, faults, since, handled, shown>>

(* A page load forgets everything. *)
Reload ==
  /\ Break
  /\ since' = 0 /\ handled' = <<>> /\ reads' = {} /\ shown' = {}
  /\ UNCHANGED busVars

-----------------------------------------------------------------------------
(* The view.                                                                *)

Saved == {j \in drafted : NovelOf[j] = Followed}

(* Mutant: no poll timer, only events schedule a refresh. *)
Ask_onEvents ==
  /\ Cardinality(reads) < MaxReads /\ (frames # {} \/ conn = "closed")
  /\ reads' = reads \cup {Saved}
  /\ UNCHANGED <<busVars, since, handled, streamVars, shown, breaks>>

(* refresh asks: an event other than a text scheduled it, or the poll's timer *)
(* ran out, which it does whatever happens while the page is visible.        *)
Ask ==
  /\ Cardinality(reads) < MaxReads
  /\ reads' = reads \cup {Saved}
  /\ UNCHANGED <<busVars, since, handled, streamVars, shown, breaks>>

(* Mutant: a page that has handled events does not connect again. *)
Show_once(r) ==
  /\ r \in reads
  /\ reads' = reads \ {r} /\ shown' = r
  /\ IF conn = "open" \/ since > 0 THEN UNCHANGED streamVars
                                   ELSE conn' = "open" /\ cursor' = since /\ frames' = {}
  /\ UNCHANGED <<busVars, since, handled, breaks>>

(* Its answer is shown; a stream is opened if there is none. *)
Show(r) ==
  /\ r \in reads
  /\ reads' = reads \ {r} /\ shown' = r
  /\ IF conn = "open" THEN UNCHANGED streamVars
                       ELSE conn' = "open" /\ cursor' = since /\ frames' = {}
  /\ UNCHANGED <<busVars, since, handled, breaks>>

PageNext ==
  \/ Poll \/ Handle \/ Drop \/ ServerRestart \/ Reload \/ Ask
  \/ \E r \in reads : Show(r)

Next == (BusNext /\ UNCHANGED pageVars) \/ PageNext

Spec == Init /\ [][Next]_liveVars

(* The slots emit what they have to, the server polls, the network delivers, *)
(* and the page, while it is visible, refreshes and gets its answers.        *)
Fairness ==
  /\ \A w \in Slot : WF_liveVars(Emit(w) /\ UNCHANGED pageVars)
  /\ WF_liveVars(Poll) /\ WF_liveVars(Handle) /\ WF_liveVars(Ask)
  /\ \A r \in SUBSET Job : WF_liveVars(Show(r))

FairSpec == Spec /\ Fairness

-----------------------------------------------------------------------------
Seen == {handled[k] : k \in DOMAIN handled}

StreamTypeOK ==
  /\ BusTypeOK
  /\ since \in Nat /\ cursor \in Nat /\ conn \in {"open", "closed"}
  /\ handled \in Seq(Nat) /\ Seen \subseteq Rows(Followed) /\ frames \subseteq Rows(Followed)
  /\ reads \subseteq SUBSET Job /\ shown \subseteq Job
  /\ breaks \in 0..MaxBreaks

(* "resume after a disconnect without missing a frame": every row of the     *)
(* novel up to the id the page would resume from was handled, or deleted.    *)
NothingMissed ==
  \A i \in Rows(Followed) : i <= since => i \in Seen \cup gone

Feed == INSTANCE EventFeed
  WITH written <- Rows(Followed), expired <- gone \cap Rows(Followed), given <- handled

(* The stream keeps the promise of EventFeed over drops, restarts of either  *)
(* process, other novels' rows, pruning and page loads.                      *)
FollowsFeed == Feed!Spec

(* Once no more are written, every event of the novel has reached the page,  *)
(* or was deleted first: a drop, a restart or a page load leaves no gap and  *)
(* no page that is connected to nothing.                                     *)
EventsArrive == <>[](Rows(Followed) \subseteq Seen \cup gone)

(* Once drafts stop coming the page shows all of them, whatever events were  *)
(* lost and whichever refresh was overtaken by a later one.                  *)
PageCatchesUp == <>[](shown = Saved)

=============================================================================
