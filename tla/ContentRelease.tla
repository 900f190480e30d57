--------------------------- MODULE ContentRelease ---------------------------
(***************************************************************************)
(* Building a content release from the exercises kept in Git.  An exercise *)
(* becomes a revision, known by its project, exercise and version, and     *)
(* hashed over everything a learner is shown or graded by, with the assets *)
(* it uses; its status is operational and outside the hash.  A release is  *)
(* the manifest of some revisions, and is known by the manifest's hash.    *)
(*                                                                         *)
(* The archive takes every revision of a release, and refuses a second     *)
(* content under one identity.  Between two builds the editor changes      *)
(* texts, assets and status, with or without a new version.  A hash stands *)
(* for what it is taken of.                                                *)
(***************************************************************************)
EXTENDS Integers, FiniteSets, SequencesExt

CONSTANTS
    Exercise,       \* the identities of exercises, as numbers: they are ordered
    Asset,
    Text,
    MaxVersion,     \* bound on the versions of an exercise and of an asset
    MaxEdits,       \* bound on the edits
    None

ReleaseAssumption ==
    /\ Exercise \subseteq Nat /\ IsFiniteSet(Exercise)
    /\ MaxVersion \in Nat \ {0} /\ MaxEdits \in Nat

VARIABLES
    definition, \* of every exercise: its version, text, status, pinned asset
    asset,      \* of every asset: its version
    edits,      \* the edits so far
    known,      \* the revisions in the archive: their entry and what it hashes
    release     \* the latest release: its entries and the revisions asked for

vars == <<definition, asset, edits, known, release>>

-----------------------------------------------------------------------------
Status     == {"approved", "retired"}    \* or any other that is not approved
Pin        == [id : Asset, version : 1..MaxVersion]
Definition == [version : 1..MaxVersion, text : Text, status : Status, pin : Pin \cup {None}]
Nothing    == [entries |-> <<>>, asked |-> {}]

(* What is hashed of an exercise, and the archive's row for it.            *)
Contents   == [exercise : Exercise, version : 1..MaxVersion, text : Text, pin : Pin \cup {None}]
Row(of)    == [entry |-> [exercise |-> of.exercise, version |-> of.version, hash |-> of], of |-> of]

(* An exercise may be built when it is approved and every asset it uses    *)
(* exists in the version it names.                                         *)
Valid(e) ==
    LET d == definition[e]
    IN  /\ d.status = "approved"
        /\ d.pin # None => d.pin.version = asset[d.pin.id]

(* What the hash covers.                                                   *)
Hashed(e) ==
    [exercise |-> e, version |-> definition[e].version,
     text |-> definition[e].text, pin |-> definition[e].pin]

Hash_NoPin(e) ==
    [exercise |-> e, version |-> definition[e].version, text |-> definition[e].text]

Hash(e) == Hashed(e)

(* An entry of a manifest, and the revision it was made from.              *)
Entry(e) == [exercise |-> e, version |-> definition[e].version, hash |-> Hash(e)]
Identity(entry) == <<entry.exercise, entry.version>>
Before(a, b) ==
    \/ a.exercise < b.exercise
    \/ a.exercise = b.exercise /\ a.version < b.version

(* Sorting puts an entry behind those that are before it, and behind its   *)
(* equals that were given earlier.                                         *)
Place(entries, i) ==
    Cardinality({j \in DOMAIN entries :
        \/ Before(entries[j], entries[i])
        \/ j <= i /\ ~Before(entries[i], entries[j])})

Normalized(entries) ==
    [k \in DOMAIN entries |-> entries[CHOOSE i \in DOMAIN entries : Place(entries, i) = k]]

(* A manifest is not empty and names no revision twice.                    *)
Errors(entries) ==
    \/ entries = <<>>
    \/ \E i, j \in DOMAIN entries : i # j /\ Identity(entries[i]) = Identity(entries[j])

(* The same revision identity with another hash.                           *)
Conflicts(entry) ==
    \E k \in known : Identity(k.entry) = Identity(entry) /\ k.entry.hash # entry.hash

Init ==
    /\ definition \in [Exercise -> {d \in Definition :
                          d.version = 1 /\ d.status = "approved" /\ d.pin \in [id : Asset, version : {1}]}]
    /\ asset = [a \in Asset |-> 1]
    /\ edits = 0
    /\ known = {}
    /\ release = Nothing

-----------------------------------------------------------------------------
Edit == edits < MaxEdits /\ edits' = edits + 1

EditText(e) ==
    /\ Edit
    /\ \E text \in Text, v \in {definition[e].version, definition[e].version + 1} :
          /\ v <= MaxVersion
          /\ definition' = [definition EXCEPT ![e].text = text, ![e].version = v]
    /\ UNCHANGED <<asset, known, release>>

SetStatus(e) ==
    /\ Edit
    /\ \E status \in Status : definition' = [definition EXCEPT ![e].status = status]
    /\ UNCHANGED <<asset, known, release>>

EditAsset(a) ==
    /\ Edit
    /\ asset[a] < MaxVersion
    /\ asset' = [asset EXCEPT ![a] = @ + 1]
    /\ UNCHANGED <<definition, known, release>>

Repin(e) ==
    /\ Edit
    /\ \E pin \in Pin \cup {None} : definition' = [definition EXCEPT ![e].pin = pin]
    /\ UNCHANGED <<asset, known, release>>

(* Build the revisions of some exercises, given in any order, and their    *)
(* release.  An error stops the build and nothing is released.             *)
Build(list) ==
    LET entries == [i \in DOMAIN list |-> Entry(list[i])]
    IN  /\ \A i \in DOMAIN list : Valid(list[i])
        /\ ~Errors(entries)
        /\ release' = [entries |-> Normalized(entries),
                       asked |-> {[entry |-> Entry(e), of |-> Hashed(e)] : e \in ToSet(list)}]
        /\ UNCHANGED <<definition, asset, edits, known>>

(* The archive takes a revision of the release.                            *)
Register(row) ==
    /\ row \in release.asked /\ ~Conflicts(row.entry)
    /\ known' = known \cup {row}
    /\ UNCHANGED <<definition, asset, edits, release>>

Lists == UNION {[1..n -> Exercise] : n \in 0..Cardinality(Exercise)}

Next ==
    \/ \E e \in Exercise : EditText(e) \/ SetStatus(e) \/ Repin(e)
    \/ \E a \in Asset : EditAsset(a)
    \/ \E list \in Lists : Build(list)
    \/ \E row \in release.asked : Register(row)

Spec == Init /\ [][Next]_vars

-----------------------------------------------------------------------------
(* Properties.                                                             *)

(* Every variable has its type.                                            *)
ReleaseTypeOK ==
    /\ definition \in [Exercise -> Definition]
    /\ asset \in [Asset -> 1..MaxVersion]
    /\ edits \in 0..MaxEdits
    /\ known \cup release.asked \subseteq {Row(of) : of \in Contents}
    /\ release.entries \in Seq({row.entry : row \in release.asked})

(* docs/PHASE_4C_1_REVISION_BOUNDARY.md: the order in which revisions are  *)
(* given does not change the manifest, and so not the release.  There is   *)
(* one list that holds each asked revision once, in the order of           *)
(* identities; the manifest is that list.                                  *)
ReleaseIsItsRevisions ==
    LET s == release.entries
    IN  /\ Len(s) = Cardinality(release.asked)
        /\ \A i \in 1..Len(s) - 1 : Identity(s[i])[1] < Identity(s[i + 1])[1]

(* An exercise and version, once archived, stands for one text and one     *)
(* version of each asset, however the exercise is edited afterwards; and   *)
(* whatever has the same hash is the same revision.                        *)
IdentityFixesContent ==
    \A a, b \in known :
        /\ Identity(a.entry) = Identity(b.entry) => a.of = b.of
        /\ a.entry.hash = b.entry.hash => a.of = b.of

(* The three together.                                                     *)
ReleaseInvariant == ReleaseTypeOK /\ ReleaseIsItsRevisions /\ IdentityFixesContent
=============================================================================
