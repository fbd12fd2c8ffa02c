------------------------------ MODULE EventBusMC ------------------------------
(* Values of the constants for TLC: a chapter written in stages and one       *)
(* written in a single call, of one novel or of two.                          *)
EXTENDS EventBus, TLC

CONSTANTS j1, j2, n1, n2

OneNovel  == j1 :> n1 @@ j2 :> n1
TwoNovels == j1 :> n1 @@ j2 :> n2
OneCall   == j1 :> <<>> @@ j2 :> <<>>
Mixed     == j1 :> <<"chapter">> @@ j2 :> <<>>

=============================================================================
