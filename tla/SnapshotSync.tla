---------------------------- MODULE SnapshotSync ----------------------------
(***************************************************************************)
(* Publishing a project's knowledge snapshot.  A refresh request, sent by  *)
(* a page in the foreground or by the learner, is one server invocation:   *)
(* it reads the current snapshot, decides whether to publish, begins a run *)
(* in the database, reads the Notion data sources side by side, and        *)
(* publishes what it read; if anything fails after the run began, it       *)
(* reports the failure.                                                    *)
(*                                                                         *)
(* Each database call is one transaction under the project's advisory      *)
(* lock.  Its clock is read before the lock is taken, so a call is sent in *)
(* one step and executed in a later one.  Its answer may be lost, and the  *)
(* invocation may be killed at any step while its call still executes.     *)
(*                                                                         *)
(* One project; a data source is its version, counted in edits.            *)
(***************************************************************************)
EXTENDS Integers, FiniteSets

CONSTANTS
    Request,    \* refresh requests
    Source,     \* the project's Notion data sources
    None,
    Lease,      \* 15 minutes
    Validity,   \* 2 hours
    Cooldown,   \* 90 seconds
    MaxEdits,   \* bound on the edits of a source
    MaxTime     \* bound on the clock

ASSUME SyncAssumption ==
    /\ None \notin Request
    /\ Lease \in Nat \ {0} /\ Validity \in Nat \ {0} /\ Cooldown \in Nat
    /\ MaxEdits \in Nat /\ MaxTime \in Nat

VARIABLES
    clock,
    notion,     \* the version of every data source
    archive,    \* scope_knowledge_snapshots, immutable rows
    current,    \* the row current_snapshot_id points to
    next,       \* next_generation
    active,     \* active_run_id, and its generation and lease
    pc, intent, \* where each request is, and what it asks
    seen,       \* the snapshot it read before it decided
    sent,       \* when its database call was sent
    gen, view,  \* its generation, and what it has read from Notion
    killed      \* the invocations that were killed

database == <<archive, current, next, active>>
request  == <<pc, intent, seen, sent, gen, view, killed>>
vars     == <<clock, notion, archive, current, next, active,
              pc, intent, seen, sent, gen, view, killed>>

-----------------------------------------------------------------------------
Version  == Nat \cup {None}
Snapshot == [gen : Nat, view : [Source -> Nat], at : Nat, supported : BOOLEAN]

(* No snapshot, and one a former release published in a projection that    *)
(* this release does not read.                                             *)
Nothing == [gen |-> 0, view |-> [s \in Source |-> 0], at |-> 0, supported |-> FALSE]
Former  == [Nothing EXCEPT !.gen = 1]

NoRun == [run |-> None, gen |-> 0, until |-> 0]
Unread == [s \in Source |-> None]

ReadState_InvalidIsMissing(snapshot) ==
    IF ~snapshot.supported THEN "missing"
    ELSE IF snapshot.at + Validity <= clock THEN "stale" ELSE "ready"

ReadState(snapshot) ==
    IF snapshot = Nothing THEN "missing"
    ELSE IF ~snapshot.supported THEN "invalid"
    ELSE IF snapshot.at + Validity <= clock THEN "stale" ELSE "ready"

(* Which requests may start a publication, given what they read.           *)
MayPublish(r) ==
    LET state == ReadState(seen[r])
    IN  IF intent[r] = "foreground"
        THEN state = "stale"
        ELSE \/ state = "missing"
             \/ state \in {"stale", "ready"} /\ clock - seen[r].at >= Cooldown

Init ==
    /\ clock = 0
    /\ notion = [s \in Source |-> 0]
    /\ current \in {Nothing, Former}
    /\ archive = {current} \ {Nothing}
    /\ next = current.gen + 1
    /\ active = NoRun
    /\ pc = [r \in Request |-> "idle"]
    /\ intent \in [Request -> {"foreground", "manual"}]
    /\ seen = [r \in Request |-> Nothing]
    /\ sent = [r \in Request |-> 0]
    /\ gen = [r \in Request |-> 0]
    /\ view = [r \in Request |-> Unread]
    /\ killed = {}

-----------------------------------------------------------------------------
(* The environment.                                                        *)

Tick ==
    /\ clock < MaxTime
    /\ clock' = clock + 1
    /\ UNCHANGED <<notion, database, request>>

Edit(s) ==
    /\ notion[s] < MaxEdits
    /\ notion' = [notion EXCEPT ![s] = @ + 1]
    /\ UNCHANGED <<clock, database, request>>

(* The platform ends an invocation; a call it has sent is not recalled.    *)
Kill(r) ==
    /\ r \notin killed /\ pc[r] \notin {"idle", "done"}
    /\ killed' = killed \cup {r}
    /\ pc' = [pc EXCEPT ![r] = IF @ \in {"begin", "publish", "fail"} THEN @ ELSE "done"]
    /\ UNCHANGED <<clock, notion, database, intent, seen, sent, gen, view>>

-----------------------------------------------------------------------------
(* A request, up to its run.                                               *)

Goes(r, from, to) == pc[r] = from /\ pc' = [pc EXCEPT ![r] = to]

Load(r) ==
    /\ Goes(r, "idle", "loaded")
    /\ seen' = [seen EXCEPT ![r] = current]
    /\ UNCHANGED <<clock, notion, database, intent, sent, gen, view, killed>>

Decline(r) ==
    /\ ~MayPublish(r)
    /\ Goes(r, "loaded", "done")
    /\ UNCHANGED <<clock, notion, database, intent, seen, sent, gen, view, killed>>

SendBegin(r) ==
    /\ MayPublish(r)
    /\ Goes(r, "loaded", "begin")
    /\ sent' = [sent EXCEPT ![r] = clock]
    /\ UNCHANGED <<clock, notion, database, intent, seen, gen, view, killed>>

(* Another run is active and its lease had not ended when the call began.  *)
Leased(r) == active.run # None /\ active.until > sent[r]

(* The call fails without an effect: it does not arrive, or the project is *)
(* leased.  A run that never began has nothing to report.                  *)
BeginRefused(r) ==
    /\ Goes(r, "begin", "done")
    /\ UNCHANGED <<clock, notion, database, intent, seen, sent, gen, view, killed>>

Begin_SameGeneration(r) ==
    /\ ~Leased(r) /\ r \notin killed
    /\ active' = [run |-> r, gen |-> next, until |-> sent[r] + Lease]
    /\ Goes(r, "begin", "read")
    /\ gen' = [gen EXCEPT ![r] = next]
    /\ UNCHANGED <<clock, notion, archive, current, next, intent, seen, sent, view, killed>>

(* The run takes the next generation.  If its answer is lost, or nobody    *)
(* waits for it, the run stays active until its lease ends.                *)
Begin(r) ==
    /\ ~Leased(r)
    /\ active' = [run |-> r, gen |-> next, until |-> sent[r] + Lease]
    /\ next' = next + 1
    /\ \/ /\ r \notin killed
          /\ Goes(r, "begin", "read")
          /\ gen' = [gen EXCEPT ![r] = next]
       \/ /\ Goes(r, "begin", "done")
          /\ UNCHANGED gen
    /\ UNCHANGED <<clock, notion, archive, current, intent, seen, sent, view, killed>>

-----------------------------------------------------------------------------
(* The run.                                                                *)

ReadSource(r, s) ==
    /\ pc[r] = "read" /\ view[r][s] = None
    /\ view' = [view EXCEPT ![r][s] = notion[s]]
    /\ UNCHANGED <<clock, notion, database, pc, intent, seen, sent, gen, killed>>

SendPublish_Early(r) ==
    /\ \E s \in Source : view[r][s] # None
    /\ Goes(r, "read", "publish")
    /\ sent' = [sent EXCEPT ![r] = clock]
    /\ UNCHANGED <<clock, notion, database, intent, seen, gen, view, killed>>

(* Every source has answered; the snapshot is stamped and sent.            *)
SendPublish(r) ==
    /\ \A s \in Source : view[r][s] # None
    /\ Goes(r, "read", "publish")
    /\ sent' = [sent EXCEPT ![r] = clock]
    /\ UNCHANGED <<clock, notion, database, intent, seen, gen, view, killed>>

(* A source fails or is incomplete, or what was read does not form a       *)
(* snapshot; an answer read by another source then is of no use.           *)
SourceFails(r) ==
    /\ Goes(r, "read", "fail")
    /\ UNCHANGED <<clock, notion, database, intent, seen, sent, gen, view, killed>>

Draft(r) == [gen |-> gen[r], view |-> view[r], at |-> sent[r], supported |-> TRUE]

(* The run still owns the project, and its lease had not ended when the    *)
(* call began.                                                             *)
Owns(r) == active.run = r /\ active.gen = gen[r]

MayCommit(r) ==
    /\ Owns(r)
    /\ active.until > sent[r]
    /\ gen[r] > current.gen

After(r) == IF r \in killed THEN "done" ELSE "fail"

(* Archive the snapshot, make it current, and end the run.  A lost answer  *)
(* is a failure for the invocation.                                        *)
Publish(r) ==
    /\ MayCommit(r)
    /\ archive' = archive \cup {Draft(r)}
    /\ current' = Draft(r)
    /\ active' = NoRun
    /\ \E to \in {"done", After(r)} : Goes(r, "publish", to)
    /\ UNCHANGED <<clock, notion, next, intent, seen, sent, gen, view, killed>>

(* The call does not arrive, or the run has lost the project.              *)
PublishRefused(r) ==
    /\ Goes(r, "publish", After(r))
    /\ UNCHANGED <<clock, notion, database, intent, seen, sent, gen, view, killed>>

ReportFailure_AnyRun(r) ==
    /\ Goes(r, "fail", "done")
    /\ active' \in {active, NoRun}
    /\ UNCHANGED <<clock, notion, archive, current, next, intent, seen, sent, gen, view, killed>>

(* The failure is recorded, and the run ended, only if it is still the     *)
(* active one; or the call does not arrive.                                *)
ReportFailure(r) ==
    /\ Goes(r, "fail", "done")
    /\ active' \in {active, IF active.run = r THEN NoRun ELSE active}
    /\ UNCHANGED <<clock, notion, archive, current, next, intent, seen, sent, gen, view, killed>>

Step(r) ==
    \/ Load(r) \/ Decline(r) \/ SendBegin(r) \/ BeginRefused(r) \/ Begin(r)
    \/ SendPublish(r) \/ SourceFails(r) \/ Publish(r) \/ PublishRefused(r)
    \/ ReportFailure(r) \/ Kill(r)
    \/ \E s \in Source : ReadSource(r, s)

Next == Tick \/ (\E s \in Source : Edit(s)) \/ (\E r \in Request : Step(r))

Spec == Init /\ [][Next]_vars

-----------------------------------------------------------------------------
(* Properties.                                                             *)

(* Every variable has its type.                                            *)
SyncTypeOK ==
    /\ clock \in Nat
    /\ notion \in [Source -> Nat]
    /\ archive \subseteq Snapshot
    /\ current \in Snapshot
    /\ next \in Nat
    /\ active \in [run : Request \cup {None}, gen : Nat, until : Nat]
    /\ pc \in [Request -> {"idle", "loaded", "begin", "read", "publish", "fail", "done"}]
    /\ intent \in [Request -> {"foreground", "manual"}]
    /\ seen \in [Request -> Snapshot]
    /\ sent \in [Request -> Nat]
    /\ gen \in [Request -> Nat]
    /\ view \in [Request -> [Source -> Version]]
    /\ killed \subseteq Request

(* What readers are shown never goes back: a snapshot that replaces        *)
(* another holds, of every source, the same version or a later one,        *)
(* although runs overlap and lose their lease.                             *)
Published == INSTANCE KnowledgeRegister
                 WITH Part <- Source, world <- notion, shown <- current.view
SnapshotsAdvance == Published!RegisterSpec

(* A generation is given to one run, and archived at most once; the        *)
(* current snapshot is the newest one in the archive.                      *)
GenerationsAreUnique ==
    /\ \A a, b \in archive : a.gen = b.gen => a = b
    /\ \A a \in archive : a.gen <= current.gen
    /\ current # Nothing => current \in archive
    /\ \A r1, r2 \in Request : gen[r1] = gen[r2] /\ gen[r1] # 0 => r1 = r2

(* A run is ended by its own publication or failure report, or by a run    *)
(* that begins after its lease; a late report of another run never ends it. *)
RunsEndByThemselves ==
    [][active.run # None /\ active' # active =>
          \/ current' = Draft(active.run)
          \/ pc[active.run] = "fail" /\ pc'[active.run] = "done"
          \/ active'.run # None /\ active.until <= sent[active'.run]]_vars

(* A snapshot this release cannot read is left for an operator: no         *)
(* refresh, whatever its race, puts another in its place.                  *)
UnsupportedIsKept == [][current = Former => current' = Former]_vars
=============================================================================
