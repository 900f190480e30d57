----------------------------- MODULE MCSnapshots -----------------------------
(***************************************************************************)
(* How knowledge gets from Notion onto a page: the readers of the three    *)
(* projects, the server that publishes what they read, the pages and       *)
(* buttons of a tab that ask for it, and what a page makes of the row it   *)
(* finds, in a project with scope and in one without.  Each part lets the  *)
(* others do whatever they may, so they are checked one at a time: "part"  *)
(* says which.  The others rest in an initial state; the variables of a    *)
(* reader that is not looked at are Off.                                   *)
(***************************************************************************)
EXTENDS Publication, ProjectReadings, TLC

CONSTANTS p1, b1, b2

VARIABLE part

allVars == <<part, vars, tabVars, readVars, readingVars>>

Symmetry == Permutations(Request) \cup Permutations(Source)

-----------------------------------------------------------------------------
(* The instances.                                                          *)

(* One page that comes and goes, and two buttons.                          *)
OnePage    == {p1}
TwoButtons == {b1, b2}

(* One subject; where there is scope, time enough for a snapshot to grow   *)
(* stale between its reading and its publication, and where there is none, *)
(* a row that replaces another.                                            *)
OneSubject  == {p1}
TwoProjects == {"kuzushiji", "western-art-history"}
RowsOf      == [p \in TwoProjects |-> IF p = "kuzushiji" THEN 1 ELSE 2]
TimeOf      == [p \in TwoProjects |-> IF p = "kuzushiji" THEN 2 ELSE 1]

(* Kuzushiji: a lecture and two characters, two of the pages linked to.    *)
KuzushijiWorkspace ==
    [kinds    |-> {"lecture", "character"}, pages |-> 1..3, targets |-> 1..2,
     kindOf   |-> (1 :> "lecture") @@ (2 :> "character") @@ (3 :> "character"),
     titles   |-> (1 :> "text") @@ (2 :> "space") @@ (3 :> "text"), bare |-> {},
     declared |-> <<[owner |-> "lecture", target |-> "character"]>>,
     batch    |-> 1, attempts |-> 1]

(* Two people who may both name the second, a work without title or text;  *)
(* relations that name two are read in the same way, in Philosophy.        *)
ArtWorkspace ==
    [kinds    |-> {"person", "work"}, pages |-> 1..3, targets |-> {2},
     kindOf   |-> (1 :> "person") @@ (2 :> "person") @@ (3 :> "work"),
     titles   |-> (1 :> "text") @@ (2 :> "empty") @@ (3 :> "empty"), bare |-> {3},
     declared |-> <<[owner |-> "person", target |-> "person"]>>,
     batch    |-> 1, attempts |-> 1]

(* The two people and their influence on each other; a request is tried    *)
(* twice.                                                                  *)
PhilosophyWorkspace ==
    [kinds    |-> {"person"}, pages |-> 1..2, targets |-> 1..2,
     kindOf   |-> (1 :> "person") @@ (2 :> "person"),
     titles   |-> (1 :> "text") @@ (2 :> "empty"), bare |-> {},
     declared |-> <<[owner |-> "person", target |-> "person"]>>,
     batch    |-> 1, attempts |-> 2]

Workspaces ==
    [p \in {"kuzushiji-v2", "western-art-history-v1", "philosophy-v1"} |->
        CASE p = "kuzushiji-v2"           -> KuzushijiWorkspace
          [] p = "western-art-history-v1" -> ArtWorkspace
          [] p = "philosophy-v1"          -> PhilosophyWorkspace]

-----------------------------------------------------------------------------
ReadersOff ==
    /\ reader = Off
    /\ order = Off /\ link = Off /\ touched = Off /\ status = Off /\ cursor = Off
    /\ followed = Off /\ found = Off /\ complete = Off /\ tries = Off /\ todo = Off
    /\ rcursor = Off /\ rgot = Off /\ links = Off /\ evidence = Off /\ published = Off

AtRest     == Init /\ current = Nothing /\ \A r \in Request : intent[r] = "manual"
ReadAtRest == Row!Init /\ project = "kuzushiji"

PartsInit ==
    \/ part = "sync"     /\ Init   /\ Tab!Init /\ ReadAtRest /\ ReadersOff
    \/ part = "tab"      /\ AtRest /\ Tab!Init /\ ReadAtRest /\ ReadersOff
    \/ part = "pages"    /\ AtRest /\ Tab!Init /\ Row!Init   /\ ReadersOff
    \/ part = "readings" /\ AtRest /\ Tab!Init /\ ReadAtRest /\ ReadingInit

SyncStep     == part = "sync"     /\ Next        /\ UNCHANGED <<part, tabVars, readVars, readingVars>>
TabStep      == part = "tab"      /\ Tab!Next    /\ UNCHANGED <<part, vars, readVars, readingVars>>
PagesStep    == part = "pages"    /\ Row!Next    /\ UNCHANGED <<part, vars, tabVars, readingVars>>
ReadingsStep == part = "readings" /\ ReadingNext /\ UNCHANGED <<part, vars, tabVars, readVars>>

PartsNext == SyncStep \/ TabStep \/ PagesStep \/ ReadingsStep
PartsSpec == PartsInit /\ [][PartsNext]_allVars
=============================================================================
