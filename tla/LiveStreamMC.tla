----------------------------- MODULE LiveStreamMC -----------------------------
(* The values of EventBusMC, for the stream and the page as well. *)
EXTENDS LiveStream, EventBusMC
=============================================================================
