------------------------------ MODULE Practice ------------------------------
(***************************************************************************)
(* What a learner practises, from its content to the answer: the release   *)
(* its content comes from, its preparation on the server, the run of a     *)
(* unit in the tabs of a browser, and the browser's mirror of the state of *)
(* an objective.  A release is made before a deployment, a deployment      *)
(* serves its curriculum unchanged, a run keeps the cards it was given and *)
(* the mirror is only shown: they share no state, and each is stated for   *)
(* itself.                                                                 *)
(***************************************************************************)
EXTENDS UnitPractice

CONSTANTS
    Numbered, Asset, Phrase, MaxVersion, MaxEdits,      \* of the release
    Request, Deployment, RunsOn, Ships, Exercise,       \* of the preparation
    ObjectiveOf, Content, Workers, MaxFailures, MaxInstances,
    Epoch, Grading, MaxRevision, MaxPast                \* of the mirror

VARIABLES
    definition, asset, edits, known, release,
    archive, defined, bound, instances, open, due, failures,
    unit, status, queue, begun, broken, stage, given,
    server, past, epoch, mirror, pc, answer, result

releaseVars == <<definition, asset, edits, known, release>>
cardVars    == <<archive, defined, bound, instances, open, due, failures,
                 unit, status, queue, begun, broken, stage, given>>
mirrorVars  == <<server, past, epoch, mirror, pc, answer, result>>

Release == INSTANCE ContentRelease WITH Exercise <- Numbered, Text <- Phrase
Preparation == INSTANCE CardPreparation WITH issued <- given
Mirror == INSTANCE StateMirror WITH Sync <- Tab, Content <- Grading

ASSUME PracticeAssumption ==
    Release!ReleaseAssumption /\ Preparation!PreparationAssumption /\ Mirror!MirrorAssumption

(* A release is its revisions in the order of their identities, and an     *)
(* identity or a hash that the archive knows stands for one content        *)
(* (ContentRelease: buildContentReleaseManifest, the archive's tables).    *)
ReleasesAreExact == Release!ReleaseInvariant

(* Cards are issued instances of archived content; a failed exercise costs *)
(* a page its own card only, and a unit everything (CardPreparation:       *)
(* prepareReviewExercises and its callers).                                *)
CardsAreExact == Preparation!PreparationInvariant

(* The mirror moves forward or stays, and a sync that reports success has  *)
(* left the server's answer, or a later state, in it (StateMirror:         *)
(* adoptObjectiveStateMirror).                                             *)
MirrorsAdvance == [][Mirror!MirrorStep]_mirrorVars
=============================================================================
