----------------------------- MODULE Publication -----------------------------
(***************************************************************************)
(* Three parts of a project's knowledge on its way to a page: the server   *)
(* that publishes it, the pages and buttons of a tab that ask the server   *)
(* to, and what a page makes of the row it finds.  They meet only in calls *)
(* whose every outcome the other side allows for: a tab takes any answer   *)
(* to a request, and a page any row.  So each is stated for itself.        *)
(***************************************************************************)
EXTENDS SnapshotSync

CONSTANTS
    Page, Button, Throttle, TabTime, MaxPromises,   \* of the tab
    Project, Subject, Window, MaxRows, RowTime      \* of the rows

VARIABLES
    promises, entry, requestedAt, time, waits, got,
    project, now, reading, row, genuine, rows, shown

tabVars  == <<promises, entry, requestedAt, time, waits, got>>
readVars == <<project, now, reading, row, genuine, rows, shown>>

Tab == INSTANCE RefreshCoordinator WITH MaxTime <- TabTime, now <- time
Row == INSTANCE ReadContract WITH Validity <- Window, MaxTime <- RowTime, view <- shown

ASSUME PublicationAssumption == Tab!CoordinatorAssumption /\ Row!ContractAssumption

(* A tab has one request under way, forgets those that ended, answers a    *)
(* button with a manual request or a refreshed snapshot, and throttles     *)
(* what pages ask (RefreshCoordinator: requestProjectSnapshotRefresh).     *)
RefreshesAreJoined == Tab!CoordinatorInvariant

(* A page shows only what was published in the terms of this release,      *)
(* calls it ready only while it is recent, and claims an empty project     *)
(* only if one was read (ReadContract: decodeStoredProjectReadState).      *)
PagesShowWhatIsPublished == Row!ContractInvariant
=============================================================================
