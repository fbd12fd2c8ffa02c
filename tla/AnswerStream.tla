---------------------------- MODULE AnswerStream ----------------------------
(***************************************************************************)
(* What a model client promises its caller, however it talks to the model:  *)
(* the pieces of a call come in order and once each, so that a caller who    *)
(* forwards or saves them as they come never repeats text; a call is         *)
(* reported as answered only when the caller has the whole of a finished     *)
(* answer; a failure may come at any point and ends the call.                *)
(***************************************************************************)
EXTENDS Naturals

CONSTANT MaxPieces

VARIABLES
  call,   \* "none", "going", "answered", "failed"
  got,    \* pieces the caller has been given in this call
  whole   \* pieces of the answer being given; 0 until one is

callVars == <<call, got, whole>>

Init == call = "none" /\ got = 0 /\ whole = 0

(* A call that cannot be made fails at once. *)
Begin == call # "going" /\ call' \in {"going", "failed"} /\ got' = 0 /\ whole' = 0

(* Some more of an answer arrives.  Which answer it is, is settled by the    *)
(* first piece: nothing of another one follows it.                           *)
Give ==
  /\ call = "going"
  /\ whole' \in 1..MaxPieces /\ (got > 0 => whole' = whole)
  /\ got' \in (got + 1)..whole'
  /\ call' \in {"going", "answered"} /\ (call' = "answered" => got' = whole')

End == call = "going" /\ got > 0 /\ got = whole /\ call' = "answered" /\ UNCHANGED <<got, whole>>

Fail == call = "going" /\ call' = "failed" /\ UNCHANGED <<got, whole>>

Next == Begin \/ Give \/ End \/ Fail

Spec == Init /\ [][Next]_callVars

=============================================================================
