----------------------------- MODULE MCPractice -----------------------------
(***************************************************************************)
(* The parts of Practice one at a time: "part" says which.  The others     *)
(* rest in an initial state.                                               *)
(***************************************************************************)
EXTENDS Practice, TLC

CONSTANTS t1, t2, e1, e2

VARIABLE part

allVars == <<part, vars, releaseVars, cardVars, mirrorVars>>

MCTab    == {t1, t2}
Symmetry == Permutations(MCTab)

-----------------------------------------------------------------------------
(* The instances.                                                          *)

(* Two exercises with one asset, two texts, two versions, three edits.     *)
TwoExercises == {1, 2}
OneAsset     == {"glyph"}
Texts        == {"a", "b"}

Rev(e, v, c) == [exercise |-> e, version |-> v, content |-> c]
Exercises    == {"x", "y"}
Served       == {"p", "q"}
Deployments  == {"old", "new"}
ServedBy     == [p |-> "old", q |-> "new"]

(* Requests, each for a page or for a unit, that two deployments serve.    *)
(* They differ in an exercise whose content was edited under its old       *)
(* version and in one that got a new version; both exercises are of one    *)
(* objective, so that each may be handed the other's instance.             *)
Curricula ==
    [old |-> <<Rev("x", 1, "a"), Rev("y", 1, "a")>>,
     new |-> <<Rev("x", 1, "b"), Rev("y", 2, "b")>>]
OneObjective == [e \in Exercises |-> "o"]

(* Two syncs, and a server that is restored and moves to another epoch.    *)
Epochs == {e1, e2}

-----------------------------------------------------------------------------
PreparationAtRest == Preparation!Init
MirrorAtRest      == Mirror!Init /\ epoch = e1
ReleaseAtRest     == Release!Init /\ \A e \in Numbered : definition[e].text = "a"

PartsInit ==
    /\ Init /\ PreparationAtRest
    /\ \/ part \in {"run", "cards"} /\ ReleaseAtRest /\ MirrorAtRest
       \/ part = "release"          /\ Release!Init  /\ MirrorAtRest
       \/ part = "mirror"           /\ ReleaseAtRest /\ Mirror!Init

RunStep     == part = "run"     /\ Next             /\ UNCHANGED <<part, releaseVars, cardVars, mirrorVars>>
ReleaseStep == part = "release" /\ Release!Next     /\ UNCHANGED <<part, vars, cardVars, mirrorVars>>
CardStep    == part = "cards"   /\ Preparation!Next /\ UNCHANGED <<part, vars, releaseVars, mirrorVars>>
MirrorStep  == part = "mirror"  /\ Mirror!Next      /\ UNCHANGED <<part, vars, releaseVars, cardVars>>

PartsNext == RunStep \/ ReleaseStep \/ CardStep \/ MirrorStep
PartsSpec == PartsInit /\ [][PartsNext]_allVars
=============================================================================
