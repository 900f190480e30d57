# study-graph: a verification project

TLA+ models of the parts of study-graph whose correctness depends on the order
in which things happen, checked by TLC on small instances and, for the parts
that matter most, proved by TLAPS for every value of the constants.

Paths are relative to the repository root.  `offline/` abbreviates
`src/lib/review/offline/`, `migrations/` abbreviates `supabase/migrations/`.

## 1. The system

study-graph is a Next.js application (TypeScript) over a Supabase (Postgres)
database and read-only Notion content.  A learner reviews exercises, online or
offline; each *instance* of an exercise is issued by the server and may be answered
once; an answer may move the spaced-repetition (SRS) state of the *objective* behind
the exercise.  What the projects are about is read from Notion, published as a
*snapshot* with a generation, and shown by pages that also work without a network.

| Component | State it keeps | Operations | Talks to | What is hard |
|---|---|---|---|---|
| Attempt outbox (`offline/attempt-outbox.ts`, `outbox-core.ts`, `model-core.ts`) | IndexedDB stores `attempt-outbox`, `attempt-receipts` | commit, list, find, mark sending, recover sending, apply a delivery, mark reauthenticated, reconcile a blocked row | every page of the browser profile | pages share it and die between transactions |
| Delivery (`offline/pilot-transport.ts`, `foreground-sync.ts`, `components/ReviewSession.tsx`) | running calls in each page | flush, answer button, manual recovery | outbox, attempt and receipt routes | lost, late and duplicated requests; stale answers; races between tabs |
| Attempt and receipt routes (`app/api/review/pilot/*`, `pilot-runtime.ts`, `pilot-attempt-dispatch.ts`, `objective-runtime-core.ts`) | none | record an attempt, recover a receipt | Notion, database | errors after the commit, deployments and scope that change under a call |
| Objective SRS authority (`migrations/20260917021000…`, `20260918010500…`) | objective state, opportunities, attempts, receipts | issue, accept (v1, v2) | everything above it | advisory locks, stale clocks, one application per opportunity |
| Offline prefetch authority (`migrations/20260925120000…`) | request mappings | prefetch | issuer | retries, nested rollback |
| Card preparation (`*-pilot-runtime.ts`, `parallel-issuance.ts`, `units/runtime.ts`, `migrations/20260922100000…`) | archive, definitions, bindings, instances | five calls per exercise, several exercises at a time | authority | partial failure, deployments that disagree |
| Content release (`exercises/revision.ts`, `exercises/validation.ts`) | manifest, archive | build and archive | Git content | identity against content |
| Scope snapshot sync (`migrations/20260908140000…`, `…143000…`, `snapshot-sync/`) | run with its lease, snapshots, current pointer | begin, publish, fail, get | Notion, database | runs that outlive their lease, killed invocations |
| Notion readers and projections (`notion/*-snapshot-source.ts`, `strict-snapshot-source.ts`, `projects/project-projections.ts`, `project-graph.ts`) | one run's memory | query, read relations, normalise, decode, draw | Notion | edits between two requests of one pagination |
| Project reads (`projects/read-contract.ts`, `read-runtime*.ts`) | none | check a stored row, show it | database | rows of other releases, damaged rows |
| Foreground refresh (`components/project-snapshot-refresh-coordinator.ts`, `projects/foreground-refresh*.ts`) | in-flight map and throttle of a tab | request, foreground request | snapshot route | microtasks between two requests |
| Snapshot cache (`offline/snapshot-cache.ts`, `components/KuzushijiSnapshotDashboard.tsx`) | IndexedDB replica and pointer | adopt, read, choose | route | overlapping loads, restored servers |
| Objective state mirror (`offline/objective-state-mirror.ts`) | IndexedDB record per epoch | sync | route | out-of-order answers |
| Offline card (`offline/instance-cache.ts`, `pilot-prefetch.ts`, `prefetch-client.ts`, `assets.ts`, `components/OfflineKuzushijiReview.tsx`) | request, instance and image stores | prepare, open, answer | routes, outbox | three databases with no common transaction; what was read is old when it is used |
| Study units in the browser (`units/run-store.ts`, `draft-store.ts`, `components/StudyUnitPractice.tsx`) | run in IndexedDB, drafts in local storage | start, resume, type, grade | outbox | two tabs on one run |

`PROJECT.json` lists every component with its files and what is modelled of it, and
every hazard with its line and the properties about it.

## 2. The modules

| Module | Models | Kind |
|---|---|---|
| `OutboxCore`, `AttemptOutbox` | the outbox: classification of answers; one operator per storage transaction | component |
| `PilotTransport` | delivery, the answer button, manual recovery, the routes and the network as the browser sees them; extends `AttemptOutbox` | composition |
| `AnswerLedger` | a held answer is confirmed only if it is the one its instance took | abstract |
| `ObjectiveAuthority` | issuer, v1 and v2 acceptance, offline prefetch as concurrent transactions | component |
| `ReceiptRegister` | one receipt per instance, written once: the interface of database and browser | abstract |
| `AttemptService` | the invocation between the two: recovery, dispatch, scope, writer, reread | component |
| `CardPreparation`, `ContentRelease` | what is issued, and from which content | components |
| `SnapshotSync` | publication under a lease | component |
| `KnowledgeRegister` | what is shown of a changing source only moves forward | abstract |
| `Projection` | normalisation, the readers' checks, the graph, as operators | pure |
| `StrictSource` | reading Notion page by page; extends `Projection` | component |
| `ProjectReadings` | the three instances of the reader, each with its project's workspace | composition |
| `ReadContract` | from a stored row to what a page shows | component |
| `RefreshCoordinator`, `SnapshotCache`, `StateMirror`, `OfflineCard`, `UnitPractice` | the browser's other shared state | components |
| `Publication` | `SnapshotSync`, `RefreshCoordinator` and `ReadContract` side by side: from a publisher to a page | composition |
| `Practice` | `UnitPractice`, `CardPreparation`, `ContentRelease` and `StateMirror` side by side: what a learner practises | composition |
| `MC…` | small instances; `MCSnapshots` and `MCPractice` hold several components, see below | model checking |
| `…Proofs` | theorems | proofs |

Refinements: `PilotTransport` implements `AnswerLedger` and, with its server,
`ReceiptRegister`; `ObjectiveAuthority` implements `ReceiptRegister` too, so the
browser model assumes of the database what the database model provides.
`SnapshotSync` implements `KnowledgeRegister`.

`Publication` and `Practice` instantiate components that share no variable and state the
property of each; `PublicationProofs` and `PracticeProofs` prove them, of each component's
own specification (`Tab!Spec => []…`, `Preparation!Spec => []…`).  `ProjectReadings` has the
readers of the three projects, whose runs share only the database: `reader` is the project
that is read, and the constant `Workspace` gives each its data sources, pages, declared
relations and limits.  Its instances are of `StrictSourceProofs`, which is `StrictSource` with
its theorems, so that what is proved of every reader can be cited for these three.

`MCSnapshots` and `MCPractice` check the same definitions on small instances, one component
at a time: the variable `part` says which one moves.  The others rest in an initial state,
where their properties hold too; when no project is read, `reader` and the reader's
variables are `Off`, and `PublishedIsExact` speaks of the reader at work
(`reader = "philosophy-v1" => …`).  So a run checks each component exactly as a run of its
own would.

### Outbox and delivery

`outbox[a]` is the IndexedDB row of attempt `a`, `receipts[a]` the receipt store,
`server[i]` the stored receipt of instance `i`.  A thread is one running call: `pc` is
the await it stands at, `target` its attempt, `queue` what a flush has listed, `wire`
the fetch it awaits, `stray` the POSTs given up by a reload or a failure that may
still arrive.  `StartFlush`, `ListOfflineAttempts`, `FlushNext`, `FlushOver` are
`recoverAndFlushPilotOutbox`; `ProbeAnswered`, `MarkAndPost`, `PostAnswered`,
`LookupAnswered` the steps of `sendPilotOutboxAttempt`; `AnswerCard`,
`CommitPilotOfflineAttempt`, `SendCommitted` the button; `StartRecovery`,
`RecoveryValidated`, `RecoveryAnswered`, `RecoveryLookedUp` the manual recovery.
`AttemptRoute` and `ReceiptRoute` are the server's side of a fetch: an answer, or an
error before or after the commit.  Left out: retry counters, timestamps, last errors
(they decide nothing), payloads (a request hash stands for them).

### Objective authority

`state[o]` is the `objective_review_state` row, `issued[i]` the immutable context of an
instance, `slot[i]` its opportunity, `answer[i]` the attempt with its receipt,
`mapping[q]` an offline request.  A session is `idle`, `begun` (its `v_now` is read),
`identified` (past its attempt lock) or `locked` (it holds the objective's advisory
lock, and `seen` is what it read).  `Begin`, `Identify` and `LockObjective` lead to one
action that commits — `ReuseOpportunity`, `IssueOpportunity`, `IssuePractice`,
`AcceptAnswer` (v2), `AcceptHistorical` (v1) — or to one that writes nothing:
`RecoverMapping`, `RefuseNotDue`, `RefuseAnswered`, `Fail`, `BreakDeadlock`.  What is
read and written under the lock is one step, because only holders of the same lock
touch those rows.  `Reason` folds the reasons for which an answer is no SRS evidence.

### The service between them

`AttemptService` is one invocation per `Call`: `Recover` (the stored receipt, before
anything else), `Route` (project, contract, registry), `Again` and `LookUpV2` (the
second look of each writer), `ReadScope` (the source), `Write`, `Reread`.  A write may
be carried out and its answer lost; `Deploy` and `SourceChanges` happen at any time,
and each invocation keeps the deployment it started with.  A grade is a verdict.

`CardPreparation` has one action per database call of an exercise and the pool of
workers; `StartPage` takes the exercises in scope, `StartUnit` all of them or none, and
`unit` remembers which requests are units; a page leaves a failed exercise out, a unit
fails whole, and neither ends while a call of its exercises is under way.  A sort is a list of places: an entry stands behind what is before it and
behind its equals that came earlier (`Place`).  `ContentRelease` builds manifests from definitions an editor changes with or without a
new version; a hash is what is hashed.

### From Notion to the screen

`SnapshotSync`: a call is sent in one step (its clock is read) and carried out in a
later one; answers are lost; an invocation is killed at any step while its call still
executes.  `StrictSource`: one reader run, request by request, against an owner who
adds, removes, moves and relinks pages between any two requests; a Notion cursor names
the next item and is refused when that item is gone.  `Projection` is what is made of
the result.  It sorts by how many members are not greater (`Standing`), and finds
an item of a list by its value (`Place`), so that nothing is recursive.
`ReadContract`: a row written by this, a former or a later release, or
damaged in one field, and the state a page makes of it.  The hash does not cover the
times.  A former and a later release are external publishers; what a later one wrote
counts as published in the terms of this one (`InTerms`) if it kept projection and policy
and, where there is scope, the sources, which the decoder compares only there.

`RefreshCoordinator` has promises and microtasks of one tab as actions;
`SnapshotCache` the transactions of each load; `StateMirror` those of each sync.

### In the browser

`OfflineCard`: a tab prepares (`Prepare`, `Recover`, `Create`, `Persist`, `Download`,
`MarkImage`, `Report`) or opens (`Look`, `ReadSnapshot`, `Take`, `Find`, `Reconcile`,
`Check`, `Show`, `Commit`, `MarkAnswered`) a card, and is closed at any step.  It goes by
what it read: `noted` is the record its transaction returned before the image was asked
for, by which the page reports the card ready or answered; `rest` is the list of ready
records and `hides` what the snapshot excludes, each read once when a card is opened.  `UnitPractice`: runs,
drafts and tabs; a tab keeps the run it read when it opened.

## 3. What the runs show

| Run | Instance | Shows |
|---|---|---|
| `delivery` | 2 flushing pages, a button, a manual recovery, 1 foreign answer | accepted only on the stored receipt; beaten only if beaten; nothing sent that is not durable; nothing reported that is not stored; a blocked row is moved by a recovery only |
| `two_cards` | 2 buttons, 2 competing answers, 1 flush, 1 foreign answer | refinement of `AnswerLedger` and `ReceiptRegister`; one row per instance; no finished row is rewound |
| `settles` | 1 flush, 1 button, 1 foreign answer | every durable answer reaches a terminal state |
| `authority` | 2 sessions, 1 v1 and 2 v2 instances, 4 attempts (2 compete), 1 offline request | one opportunity, no lost update, no answer outside its window, a mapping is for good, one receipt |
| `calls_end` | 2 sessions, v1 and v2, practice too | every transaction ends, through the deadlock too |
| `attempt_service` | 2 invocations, 1 or 2 attempts with 2 contents for one of 6 instances (legacy, historical, draft, pinned, of a later project, of a unit), a rollback | one receipt, found again whatever was deployed since; a schedule moves only for an eligible subject |
| `snapshots` | parts `sync` (2 requests, 2 sources), `tab` (1 page, 2 buttons), `pages` (a row with scope or without), `readings` (each of the three readers) | what is shown never goes back, generations are unique, runs end only by themselves or their lease, a former release's snapshot is kept; requests of a tab are joined and throttled; a page shows only what was published in the terms of this release, calls it ready only while it is recent; what is published is what the untouched part of the workspace holds |
| `snapshot_cache` | 2 loads, 3 publications with a restore between them, cleared storage | one content per generation, although a generation is published twice; the newest known is shown |
| `offline_card` | 2 tabs, 2 requests, 2 instances | no issued instance is stranded; marker, outbox and offers agree; what a page reports by an old record is true; no card that could be shown is passed over |
| `practice` | parts `run` (2 tabs, 2 cards), `release` (2 exercises), `cards` (2 requests, each for a page or a unit, of 2 deployments that disagree; 1 failure), `mirror` (2 syncs, 2 epochs) | texts stay on their card, a tab goes on with the stored answer, none is skipped; identities fix content; cards are their instances; the mirror moves forward |
| `unit_race`, `flush_all` | – | counterexamples, see Findings |

`RefreshesAreJoined`, `PagesShowWhatIsPublished`, `PublishedIsExact`, `CardInvariant`,
`ReleasesAreExact`, `CardsAreExact` and `MirrorsAdvance` are conjunctions; the parts
are named and explained in their modules (`CoordinatorInvariant`,
`ContractInvariant`, `SourceInvariant`, `PreparationInvariant`, …).

**Bounds.**  Delivery: one learner and one foreign device; the server cannot tell two
foreign answers apart once one is taken.  Authority: `MaxTime` = 2 (1 in `calls_end`),
`Lease` = 2, `Again` = 1, `Day` = 2, so that an opportunity expires, an objective falls
due again, and a transaction waits across either; the grade *again* only (others differ
in the due date; the theorems cover them); one objective, because objectives share no
row and no lock; two sessions for every pairwise race.  Attempt service: two invocations
at a time, one after another without bound; the kinds left out here (units, legacy
instances, quarantined revisions, other projects) are in the theorems.
Snapshot sync: `Lease` = 1, `Validity` = 2, `Cooldown` = 1, `MaxTime` = 3, so that a run
outlives its lease and a snapshot its window; `MaxEdits` = 1 of each of two sources is
enough for a publication that mixes old and new.  Readers: batches of one item, two
or three pages (a lecture and two characters; two people, both naming one of them, and a work;
two people naming each other and a request that is retried), so that a cursor can be moved, repeated and lost; edits are not bounded.
Read contract: `Window` = 1; a project with scope has two ticks and one row (`RowTime`,
`MaxRows`), one without scope a replacement and one tick; one page suffices, since decisions are
made page by page.  Coordinator: `Throttle` = 2, `TabTime` = 2, `MaxPromises` = 4, a chain
of manual requests behind foreground work.  Cache: `MaxPublished` = 3, with one content of a
projection this release cannot show: two publications, a restore of the first, and a third
that repeats the generation of the second with another content.  Units: `MaxRuns` = 1 (2 in `unit_race`), `Cards` = 2.
Release: `MaxVersion` = 2, `MaxEdits` = 3.  Preparation: two exercises of one
objective, so that a page may be handed the other's instance; one is edited under its old
version, the other under a new one; `Workers` = 2 (3 in the code, for more exercises),
`MaxFailures` = 1 and `MaxInstances` = 4, one for each exercise of each request.  Mirror: `MaxRevision` = 2, `MaxPast` = 3 states of the server, a restore
among them.

Symmetry is used among alike actors (pages, buttons, sessions, invocations, tabs, loads),
never in a run with a liveness property.

`CHECK_DEADLOCK FALSE` where the system may stop: the snapshot runs (the clock and the
edits are bounded, a failed reader stays failed), the cache, the card and practice.

**Fairness.**  `settles`: a page that is opened again and again, so its flush starts and
its steps run (strong fairness for the steps a reload can interrupt), and a network
that answers truly now and then (strong fairness of the routes' answers).  It is stated
for one flushing page and for buttons that come to rest, because the code bounds
neither.  `calls_end`: the database runs each session, grants locks in the order they
were asked for (strong fairness of `Identify` and `LockObjective`), and ends one
transaction of a deadlock.  An issuer for which the model has no identity left fails:
identities are random in the program.

## 4. What is proved

All theorems hold for every value of the constants that satisfies the named
assumptions of the modules.

- `PilotTransportProofs`, of the storage: stores agree, one row per instance
  (`StoreInvariant`); finished rows are never rewound (`StoreNeverRewinds`).  Of the
  delivery: `DeliveryInvariant`, and from it the properties of `delivery`.
  They are not inductive alone: a row is accepted only on the stored receipt because
  what is on the wire is the server's (`WireHonest`), which the server never rewrites; a
  sent answer is durable because a thread at work has a durable row (`ThreadsSound`).
  Steps are classified once as storage operation, record of the server, or neither; the
  same classes map to a step of `AnswerLedger` or a stutter, the server's to
  `ReceiptRegister`.  `OnlyRecoveriesUnblock`: a storage operation that moves a blocked row is
  `ReconcileBlockedAttempt`, and only the last step of a manual recovery performs it.
- `AuthorityProofs`: `AuthorityInvariant`.  Its heart is `LocksHeld` (one holder per
  objective, and what it read still stands) with `HistoricalHeld` (the v1 writer checks
  its instance before it has the objective lock and relies on its row locks).
  `SlotsSound` adds that an active opportunity's revision is not ahead of the state, and
  while level with it the objective was due at issue: hence `AppliedOnlyInWindow`
  despite the stale clock.
- `AttemptServiceProofs`: `ServiceInvariant` says, per invocation, what each place in the
  code knows: past `recover` nothing was stored when it began, the writer fits the
  contract, the scope it holds was true since it began.  Rows are written once, so a
  reply stays the row of its instance; that gives `EverySuccessIsTheReceipt`,
  `AcceptedIsAlwaysAnswered`, `WritersFit` and `SchedulesNeedScope`, for every contract,
  project and number of deployments.
- `PublicationProofs`, three components.  `SyncInvariant`: the key is that the run that owns the project
  has read no source older than what is shown: it began after the last publication,
  because a publication ends its run, and a run that lost its lease owns nothing.  With
  it `SnapshotsImplementRegister`; generations are below `next_generation` and belong to one
  run (`GenerationsAreGivenOnce`).
  `RefreshesStayJoined` (a tab): one call at a time is not inductive alone; what carries it
  is that the in-flight map knows of the one request under way, and that a chained
  promise which left the map follows a manual one that still runs.
  `PagesStayTrue` (a page): the decoder accepts whatever this release built
  (`GenuineIsSound`) and, of the rows that may be in the archive, nothing else
  (`OnlyGenuineIsReadable`, `InTermsIsReadable`); so what is shown is what was published in the
  terms of this release, field for field.
- `StrictSourceProofs`: `ReadingIsExact`, for any project, pages, kinds, declared relations,
  size of an answer and number of attempts.  That the published projection is exact says
  nothing of a run that has not ended, so the invariant (`Sound`) says what a run has at each
  request.  `QueriedSoFar`: of a data source, the pages the owner let alone that stand before
  the cursor have been read, and no such page was read that is not there; it is kept because
  an edit moves a page to the front or out and leaves the others in their order
  (`ConsKeepsOrder`, `WithoutKeepsOrder`), and an answer brings exactly what stands between
  its cursor and the next (`BatchContinues`).  `CrawledSoFar`: a property is either still to
  be read or has its evidence, whose count is the number of links read for it.
  `LinksAreTrue`: those links are the ones the page has, as far as it was let alone.  The rest is
  about the projection: sorting keeps each member once (`SortedPermutes`: different keys stand
  at different places, counted by cardinalities), one link of each identity is kept and every
  link has a relation that stands for it (`KeptRepresents`), and a page takes part in as many
  relations as its evidence counts, but for a link to itself (`RelationsCountLinks`).
- `PublicationProofs` cites that for the three projects: `ReadingsStayExact`, for any workspaces.
- `SnapshotCacheProofs`: `CacheInvariant`: identifiers and generations the browser has are
  positive and served, the replica has one content per generation and the pointer is
  its newest; hence it never goes back, and a load shows the newest of what it knows.
- `OfflineCardProofs`: `CardsAreSound`, and from it `IssuedIsReachable`.  Nothing a tab relies on
  is taken back (`WorldKeeps`): a request is answered once, an instance has one answer, a
  stored instance stays, a request remains the one to ask again until it is answered.  So
  what a tab knew at one step (`TabSound`) holds at its next, after any steps of others.
  `OldRecordsReportTrue`: a record noted as ready may be answered when the page reports it,
  but a marker follows the outbox, so the instance waits or its answer is there.
  `CardsAreFound`: a card that could have been shown ever since the tab began to look is still
  before it (`StillAhead`); each step drops only the record it is at.
- `PracticeProofs`, four components.  `PracticeIsOrderly` is a per-tab invariant over the outbox, stable
  because the outbox only grows (an answer is never replaced): a tab at a card has
  answers to all before it, its text was typed there, and the answer it goes on with is
  the stored one.
  `MirrorsMoveForward`: a sync about to write holds a state the server had, and the
  transaction that writes compares it with the record it replaces.
  `CardsStayExact`: one request disturbs another only through the database, whose rows stay
  (`DatabaseStays`), so what holds of an exercise in preparation (`Holds`) keeps holding; an
  open instance is a scheduled one, and a unit's is new, so no page is ever handed it.  The
  queue is taken in order (`IsOrderly`), which says what a request that ended has tried.
  `ReleasesStayExact`: entries that name no revision twice name no exercise twice, so as many
  as are not greater stand at or before an exercise, a different number for each, and the
  sort is a permutation (`SortsByExercise`, by cardinalities); a row that is archived was
  compared with every row of its identity.

What the theorems assume of the constants is what their modules' named assumptions say:
identities are distinct from `None`, a hash is of one thing, bounds are numbers; every run
evaluates them.  The bounds are constants too, so a theorem holds for each of their values.

`ReadingIsExact` carries its assumptions as a hypothesis (`ReaderAssumption`: finitely many pages
and kinds, every relation declared between kinds, relations name pages of the workspace);
`ReadingsAssumption` states them of the three readers, and the run evaluates it.

Only model-checked: liveness (`EveryAnswerSettles`, `EveryCallEnds`), which is out
of the prover's reach.  Every invariant and action property that a passing run checks is
stated by a theorem; some theorems (`WritersFit`, `ReplicaIsShown`, …) state properties that
no run repeats, because they follow from the same invariant.

## 5. Findings

1. `flush_all`: the comment of `offline/pilot-transport.ts` 597 says a flush reaches every
   durable row.  A send that throws ends the loop; the rows behind it wait for the next
   flush (no answer is lost: `settles`).
2. `unit_race`: `docs/STUDY_UNITS.md` 43 says an unfinished practice is not overwritten by a
   new one.  The tab decides by the run it read when it opened, and another tab may
   have stored one since.

Met while modelling, and not kept as runs: the comment of `foreground-sync.ts` 11 says
concurrent tabs coalesce the local flush, but the promise they would share is a
variable of one page; a test (`offline/model.test.ts` 377) calls the answer of a different
attempt `instance-already-answered`, which with the hashes the program computes is
recorded as `attempt-conflict` (both are terminal); of two foreground refreshes that read
the same stale snapshot, the second replaces the fresh one of the first, although only
a stale snapshot is to be refreshed (`docs/PHASE_5A_0_PRODUCT_UX.md` 165; nothing goes back,
`SnapshotsAdvance`); the button of `KuzushijiSnapshotDashboard` calls the server without
the coordinator, so a tab can have two refreshes under way by that way.

## 6. Not modelled

- Legacy review persistence (SQL): the writer before objectives, kept for migration and
  history; one row-locked upsert.
- Objective recovery tool: an audit over exported rows, sequential and pure.
- Pilot authentication: stateless bearer and cookie checks.
- Service worker and offline shell: Cache Storage plumbing that serves files; what is
  lost or damaged in it is an action of `OfflineCard`.
- Graph, history and availability reads, pages and presentation, operator scripts:
  views and tools without state that two actors share.
- Inside modelled components: payload validation (a refused call fails), grading and
  the scope rules of each project (a verdict), rendering, the candidates' weights, the
  diagnostics panels, the catalogues.

External, and modelled by how the code uses it: Notion's order and cursors (a source
has one order at a time; a cursor is the next item), the hosting platform's kills, the
browser's storage, former and later releases.

## 7. What is left

The composition of `OfflineCard` with `AttemptOutbox`, whose commit it takes as one step; the
scheduler's interval arithmetic as lemmas; two loads of one tab that answer in the
opposite order (the second to end decides what is on the screen, until the next load).
