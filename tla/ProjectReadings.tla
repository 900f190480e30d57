--------------------------- MODULE ProjectReadings ---------------------------
(***************************************************************************)
(* The readings of the three projects, each by its own reader out of its   *)
(* own workspace (readKuzushijiV2SnapshotSource and its siblings).  A run  *)
(* reads one project, and runs share nothing but the database, so one      *)
(* reading of any of them stands for all.                                  *)
(*                                                                         *)
(* The instances are of StrictSourceProofs, which is StrictSource with its *)
(* theorems: what is proved of every reader holds of these.                *)
(***************************************************************************)
CONSTANTS
    Workspace,  \* of every project, its data sources and its reader's limits
    NoCursor,   \* the cursor of a first request
    Off         \* what a reader that does not run is, and has

VARIABLES
    reader,     \* the project that is read, or Off
    order, link, touched, status, cursor, followed, found, complete, tries,
    todo, rcursor, rgot, links, evidence, published     \* see StrictSource

readingVars == <<reader, order, link, touched, status, cursor, followed, found, complete,
                 tries, todo, rcursor, rgot, links, evidence, published>>

KuzushijiSpace  == Workspace["kuzushiji-v2"]
ArtSpace        == Workspace["western-art-history-v1"]
PhilosophySpace == Workspace["philosophy-v1"]

Kuzushiji == INSTANCE StrictSourceProofs WITH
    Project <- "kuzushiji-v2", None <- NoCursor, got <- found,
    Kind <- KuzushijiSpace.kinds, Page <- KuzushijiSpace.pages, KindOf <- KuzushijiSpace.kindOf,
    Target <- KuzushijiSpace.targets, Title <- KuzushijiSpace.titles, Bare <- KuzushijiSpace.bare,
    Declared <- KuzushijiSpace.declared,
    BatchSize <- KuzushijiSpace.batch, MaxAttempts <- KuzushijiSpace.attempts

Art == INSTANCE StrictSourceProofs WITH
    Project <- "western-art-history-v1", None <- NoCursor, got <- found,
    Kind <- ArtSpace.kinds, Page <- ArtSpace.pages, KindOf <- ArtSpace.kindOf,
    Target <- ArtSpace.targets, Title <- ArtSpace.titles, Bare <- ArtSpace.bare,
    Declared <- ArtSpace.declared,
    BatchSize <- ArtSpace.batch, MaxAttempts <- ArtSpace.attempts

Philosophy == INSTANCE StrictSourceProofs WITH
    Project <- "philosophy-v1", None <- NoCursor, got <- found,
    Kind <- PhilosophySpace.kinds, Page <- PhilosophySpace.pages, KindOf <- PhilosophySpace.kindOf,
    Target <- PhilosophySpace.targets, Title <- PhilosophySpace.titles, Bare <- PhilosophySpace.bare,
    Declared <- PhilosophySpace.declared,
    BatchSize <- PhilosophySpace.batch, MaxAttempts <- PhilosophySpace.attempts

ASSUME ReadingsAssumption ==
    /\ Kuzushiji!ReaderAssumption /\ Art!ReaderAssumption /\ Philosophy!ReaderAssumption
    /\ Off \notin {"kuzushiji-v2", "western-art-history-v1", "philosophy-v1"}

-----------------------------------------------------------------------------
ReadingInit ==
    \/ reader = "kuzushiji-v2"           /\ Kuzushiji!Init
    \/ reader = "western-art-history-v1" /\ Art!Init
    \/ reader = "philosophy-v1"          /\ Philosophy!Init

ReadingNext ==
    /\ UNCHANGED reader
    /\ \/ reader = "kuzushiji-v2"           /\ Kuzushiji!Next
       \/ reader = "western-art-history-v1" /\ Art!Next
       \/ reader = "philosophy-v1"          /\ Philosophy!Next

ReadingSpec == ReadingInit /\ [][ReadingNext]_readingVars

(* What a run publishes is exactly what the part of the workspace holds    *)
(* that its owner let alone, in an order of its own, with evidence that    *)
(* accounts for every relation (StrictSource: queryAllNotionDataSource,    *)
(* collectStrictRelationObservations, normalizeProjection).                *)
PublishedIsExact ==
    /\ reader = "kuzushiji-v2"           => Kuzushiji!SourceInvariant
    /\ reader = "western-art-history-v1" => Art!SourceInvariant
    /\ reader = "philosophy-v1"          => Philosophy!SourceInvariant
=============================================================================
