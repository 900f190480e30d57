---------------------------- MODULE ReadContract ----------------------------
(***************************************************************************)
(* From the row of the archive to the state a page shows.  A publisher     *)
(* reads the pages of a project and builds a snapshot with its scope       *)
(* decisions and its content hash; a page that opens later checks the row  *)
(* and shows it, or says why it does not.  The archive outlives releases:  *)
(* the row may be of a former one, or of a later one that was rolled back, *)
(* and it may be damaged.                                                  *)
(*                                                                         *)
(* The hash of a snapshot is its hashed fields: all but the times.  A page *)
(* of the source is known by its mastery, the one cell the scope policy    *)
(* reads.  A source is read at an instant here; StrictSource models what a *)
(* reading is when its owner keeps editing.                                *)
(***************************************************************************)
EXTENDS Integers, FiniteSets

CONSTANTS
    Project,     \* the projects looked at
    Subject,     \* the pages that may exist
    Source,      \* the data sources this release reads
    Validity,    \* the window in which a snapshot is fresh
    MaxRows,     \* bound on the publications of each project
    MaxTime      \* bound on the time of each

ContractAssumption ==
    /\ Project \subseteq {"kuzushiji", "western-art-history", "philosophy"}
    /\ "another" \notin Source
    /\ Validity \in Nat \ {0}
    /\ MaxRows \in [Project -> Nat] /\ MaxTime \in [Project -> Nat \ {0}]

VARIABLES
    project,   \* the project of the page, and of the publishers
    now,
    reading,   \* what a publisher read and has not published
    row,       \* the current row of the archive
    genuine,   \* every row published in the terms of this release
    rows,      \* the number of publications of any release
    view       \* what the page that opened last shows

vars == <<project, now, reading, row, genuine, rows, view>>

-----------------------------------------------------------------------------
(* Scope.                                                                  *)

Mastery == {"unlearned", "reading", "odd", "blank"}
Pages   == UNION {[s -> Mastery] : s \in SUBSET Subject}

Status(mastery) ==
    CASE mastery = "unlearned"         -> "ineligible"
      [] mastery = "reading"           -> "eligible"
      [] mastery \in {"odd", "blank"}  -> "unknown"

(* Only Kuzushiji takes part: one decision for every character.            *)
Decisions(pages) ==
    IF project = "kuzushiji"
    THEN [p \in DOMAIN pages |-> Status(pages[p])]
    ELSE <<>>

-----------------------------------------------------------------------------
(* Snapshots.                                                              *)

Own     == CASE project = "kuzushiji"           -> "kuzushiji-v2"
             [] project = "western-art-history" -> "western-art-history-v1"
             [] project = "philosophy"          -> "philosophy-v1"
Former  == "kuzushiji-v1"
Later   == "later"
Version == {Own, Former, Later}

Policy == IF project = "kuzushiji" THEN "phase4b-v1" ELSE "not-applicable"
Newer  == "newer"   \* a policy this release does not know

Hash(s) == <<s.version, s.policy, s.sources, s.complete, s.decisions, s.pages>>
Sealed(s) == [s EXCEPT !.hash = Hash(s)]

Nothing == [version |-> "none"]

Snapshot_FreshWhenPublished(version, policy, sources, decisions, pages, readAt) ==
    Sealed([version |-> version, policy |-> policy, sources |-> sources, complete |-> TRUE,
            decisions |-> decisions, pages |-> pages,
            readAt |-> readAt, until |-> now + Validity, hash |-> <<>>])

Snapshot(version, policy, sources, decisions, pages, readAt) ==
    Sealed([version |-> version, policy |-> policy, sources |-> sources, complete |-> TRUE,
            decisions |-> decisions, pages |-> pages,
            readAt |-> readAt, until |-> readAt + Validity, hash |-> <<>>])

KuzushijiSnapshot(pages, readAt) ==
    Snapshot("kuzushiji-v2", "phase4b-v1", Source, Decisions(pages), pages, readAt)

ProjectSnapshot(pages, readAt) ==
    Snapshot(Own, "not-applicable", Source, <<>>, pages, readAt)

FormerSnapshot(pages, readAt) ==
    Snapshot(Former, "phase4b-v1", Source, Decisions(pages), pages, readAt)

Built(pages, readAt) ==
    IF project = "kuzushiji" THEN KuzushijiSnapshot(pages, readAt) ELSE ProjectSnapshot(pages, readAt)

-----------------------------------------------------------------------------
(* What a reader requires of a row.                                        *)

HashValid(s) == s.hash = Hash(s)

(* The historical projection has no empty text.                            *)
FormerReadable(s) == \A p \in DOMAIN s.pages : s.pages[p] # "blank"

Evidence(s) == s.policy = "phase4b-v1" /\ s.sources = Source /\ s.complete

NoScope(s) == s.policy = "not-applicable" /\ s.decisions = <<>>

(* The reason for which a decoder refuses the snapshot, or "none".         *)
Refusal(s) ==
    CASE s.version = Later                             -> "unsupported-projection-version"
      [] s.version = Former /\ project # "kuzushiji"   -> "project-projection-mismatch"
      [] s.version = Former /\ ~FormerReadable(s)      -> "invalid-projection"
      [] s.version = "kuzushiji-v2" /\ ~Evidence(s)    -> "invalid-projection"
      [] project # "kuzushiji" /\ ~NoScope(s)          -> "invalid-projection"
      [] OTHER -> IF HashValid(s) THEN "none" ELSE "invalid-content-hash"

Learner(s) == s.version = Own

Silent(kind, code) == [kind |-> kind, code |-> code, data |-> Nothing, size |-> "none", at |-> 0]

Size(s) == IF DOMAIN s.pages = {} THEN "authoritative-empty" ELSE "available"

Shown(s, kind) == [kind |-> kind, code |-> "none", data |-> s, size |-> Size(s), at |-> now]

Decoded(s) ==
    CASE s = Nothing           -> Silent("missing", "not-yet-published")
      [] Refusal(s) # "none"   -> Silent("invalid-candidate", Refusal(s))
      [] ~Learner(s)           -> Silent("invalid-candidate", "project-projection-mismatch")
      [] OTHER                 -> Shown(s, IF s.until <= now THEN "stale" ELSE "ready")

(* The row is checked once more before it is decoded.                      *)
ReadState ==
    IF row # Nothing /\ ~HashValid(row)
    THEN Silent("invalid-candidate", "snapshot_invalid")
    ELSE Decoded(row)

Renderable(state) == state.kind \in {"ready", "stale"}

(* The graph of a state: without a snapshot it has no node and no source.  *)
Graph(state) ==
    IF Renderable(state)
    THEN [nodes |-> DOMAIN state.data.pages, state |-> state.kind, known |-> TRUE]
    ELSE [nodes |-> {}, state |-> state.kind, known |-> FALSE]

-----------------------------------------------------------------------------
NoReading == [under |-> FALSE, at |-> 0, pages |-> <<>>]
NoView    == [kind |-> "none", code |-> "none", data |-> Nothing, size |-> "none", at |-> 0]

Init ==
    /\ project \in Project /\ now = 1 /\ reading = NoReading
    /\ row = Nothing /\ genuine = {} /\ rows = 0
    /\ view = NoView

Tick ==
    /\ now < MaxTime[project] /\ now' = now + 1
    /\ UNCHANGED <<project, reading, row, genuine, rows, view>>

-----------------------------------------------------------------------------
(* Publishers.                                                             *)

ReadSource ==
    /\ ~reading.under /\ rows < MaxRows[project]
    /\ \E pages \in Pages : reading' = [under |-> TRUE, at |-> now, pages |-> pages]
    /\ UNCHANGED <<project, now, row, genuine, rows, view>>

(* The snapshot is fresh for a window that began when the reading ended.   *)
Publish ==
    /\ reading.under /\ rows < MaxRows[project]
    /\ row' = Built(reading.pages, reading.at)
    /\ genuine' = genuine \cup {row'} /\ rows' = rows + 1
    /\ reading' = NoReading
    /\ UNCHANGED <<project, now, view>>

(* The run fails, or is killed.                                            *)
Abandon ==
    /\ reading.under /\ reading' = NoReading
    /\ UNCHANGED <<project, now, row, genuine, rows, view>>

(* The release before this one still runs somewhere.                       *)
PublishFormer ==
    /\ project = "kuzushiji" /\ rows < MaxRows[project]
    /\ \E pages \in Pages : row' = FormerSnapshot(pages, now)
    /\ rows' = rows + 1
    /\ UNCHANGED <<project, now, reading, genuine, view>>

(* What a later release writes is in the terms of this one if projection   *)
(* and policy are; only where there is scope do the sources matter too.    *)
InTerms(version, policy, more) ==
    version = Own /\ policy = Policy /\ (project = "kuzushiji" => more = {})

(* A later release ran and was rolled back.  It kept what it did not       *)
(* change: it has its own projection, or policy, or one source more.       *)
PublishLater ==
    /\ rows < MaxRows[project]
    /\ \E version \in {Own, Later}, policy \in {Policy, Newer}, more \in {{}, {"another"}}, pages \in Pages :
          /\ version # Own \/ policy # Policy \/ more # {}
          /\ row' = Snapshot(version, policy, Source \cup more, Decisions(pages), pages, now)
          /\ genuine' = IF InTerms(version, policy, more) THEN genuine \cup {row'} ELSE genuine
    /\ rows' = rows + 1
    /\ UNCHANGED <<project, now, reading, view>>

(* One hashed field of the row changes: a hand, a disk, a proxy.           *)
Damage ==
    /\ row # Nothing /\ HashValid(row)
    /\ \E other \in {[row EXCEPT !.version = v] : v \in Version}
              \cup {[row EXCEPT !.policy = v] : v \in {Policy, Newer}}
              \cup {[row EXCEPT !.complete = FALSE]}
              \cup {[row EXCEPT !.pages = v] : v \in Pages}
              \cup {[row EXCEPT !.decisions = v] : v \in {Decisions(q) : q \in Pages}} :
          other # row /\ row' = other
    /\ UNCHANGED <<project, now, reading, genuine, rows, view>>

-----------------------------------------------------------------------------
(* A page opens.                                                           *)

Open ==
    /\ view' = ReadState
    /\ UNCHANGED <<project, now, reading, row, genuine, rows>>

OpenFails ==
    /\ view' = Silent("unavailable", "rpc")
    /\ UNCHANGED <<project, now, reading, row, genuine, rows>>

Next ==
    \/ Tick
    \/ ReadSource \/ Publish \/ Abandon \/ PublishFormer \/ PublishLater \/ Damage
    \/ Open \/ OpenFails

Spec == Init /\ [][Next]_vars

-----------------------------------------------------------------------------
(* Properties.                                                             *)

(* Types, and the shapes of the row and of the states a page can be in.    *)
Envelope(s) ==
    s = [version |-> s.version, policy |-> s.policy, sources |-> s.sources, complete |-> s.complete,
         decisions |-> s.decisions, pages |-> s.pages,
         readAt |-> s.readAt, until |-> s.until, hash |-> s.hash]

ContractTypeOK ==
    /\ project \in Project /\ now \in 1..MaxTime[project] /\ rows \in 0..MaxRows[project]
    /\ reading \in [under : BOOLEAN, at : 0..MaxTime[project], pages : Pages]
    /\ row = Nothing \/ Envelope(row)
    /\ \A s \in genuine : s.readAt \in Nat
    /\ view.kind \in {"none", "missing", "invalid-candidate", "unavailable", "ready", "stale"}
    /\ view.size = "none" <=> ~Renderable(view)

(* Only what was published in the terms of this release is ever shown,     *)
(* whole: no row of another projection or policy, none of other sources    *)
(* where there is scope, no damaged row, no mixture of two rows.           *)
ShownWasPublished == Renderable(view) => view.data \in genuine

(* A page calls ready only a snapshot whose source was read within the     *)
(* window, however long the publication took.                              *)
ReadyIsRecent == view.kind = "ready" => view.at < view.data.readAt + Validity

(* What is published in the terms of this release, its pages show: no such *)
(* publication puts a project out of sight.                                *)
PublishedIsShown == row \in genuine => Renderable(ReadState)

(* An empty project is only ever reported from a reading that found it     *)
(* empty; every failure leaves a graph that does not claim to know.        *)
EmptyWasRead ==
    Graph(view).nodes = {} =>
        \/ ~Graph(view).known
        \/ \E s \in genuine : DOMAIN s.pages = {}

(* What is in the terms of this release, its decoder accepts; and of the   *)
(* rows that may be in the archive it accepts nothing else.                *)
GenuineIsSound ==
    \A s \in genuine :
       HashValid(s) /\ Refusal(s) = "none" /\ Learner(s) /\ s.until = s.readAt + Validity

OnlyGenuineIsReadable == Renderable(ReadState) => row \in genuine

(* The properties together, with what makes them inductive.                *)
ContractInvariant ==
    /\ ContractTypeOK /\ GenuineIsSound /\ OnlyGenuineIsReadable
    /\ ShownWasPublished /\ ReadyIsRecent /\ PublishedIsShown /\ EmptyWasRead
=============================================================================
