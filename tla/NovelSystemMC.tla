----------------------------- MODULE NovelSystemMC ----------------------------
(* Values of the constants for TLC. *)
EXTENDS NovelSystem, TLC

CONSTANTS w1, w2, p1, p2

(* The processes of the slots. *)
NoHome    == [w \in {} |-> p1]
OneHome   == w1 :> p1
SharedHome == w1 :> p1 @@ w2 :> p1
TwoHomes  == w1 :> p1 @@ w2 :> p2

(* Stage plans. *)
NoStages  == <<>>
AllStages == <<"outline", "chapter", "polish">>
OneStage  == <<"chapter">>
NoConfigs == {}
Plans2    == {NoStages, AllStages}
Plans3    == {OneStage, AllStages}

BodySymmetry == Permutations(Body)

=============================================================================
