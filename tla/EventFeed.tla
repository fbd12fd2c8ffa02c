----------------------------- MODULE EventFeed ------------------------------
(***************************************************************************)
(* What the event stream promises a page that follows one novel: the events *)
(* of that novel in the order they were written, each once, none left out   *)
(* but those that retention has deleted.  A page that is loaded again starts *)
(* over.                                                                    *)
(***************************************************************************)
EXTENDS Naturals, Sequences

VARIABLES
  written,   \* ids of the novel's events, in the order written
  expired,   \* those that retention has deleted
  given      \* those the page has been given, in order

feedVars == <<written, expired, given>>

Seen == {given[k] : k \in DOMAIN given}

Init == written = {} /\ expired = {} /\ given = <<>>

Write(i) ==
  /\ i \in Nat /\ \A j \in written : j < i
  /\ written' = written \cup {i}
  /\ UNCHANGED <<expired, given>>

Expire ==
  /\ expired \subseteq expired' /\ expired' \subseteq written
  /\ UNCHANGED <<written, given>>

(* The next one: everything before it was given, or is expired. *)
Deliver(i) ==
  /\ i \in written /\ \A j \in Seen : j < i
  /\ \A j \in written : j < i => j \in Seen \cup expired
  /\ given' = Append(given, i)
  /\ UNCHANGED <<written, expired>>

StartOver == given' = <<>> /\ UNCHANGED <<written, expired>>

Next == Expire \/ StartOver \/ \E i \in written' : Write(i) \/ Deliver(i)

Spec == Init /\ [][Next]_feedVars

=============================================================================
