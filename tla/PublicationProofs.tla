-------------------------- MODULE PublicationProofs --------------------------
(***************************************************************************)
(* What the publication of snapshots guarantees for any number of requests *)
(* and data sources and for any lease; what a tab that asks for it         *)
(* guarantees for any number of pages and buttons and any throttle; and    *)
(* what a page shows, of any project and any set of subjects, whatever is  *)
(* in the archive.                                                         *)
(*                                                                         *)
(* Publication.  Runs overlap, outlive their lease and are killed while    *)
(* their calls still execute; what carries the proof is that a run owns    *)
(* the project from the moment it begins until another begins, so whatever *)
(* it has read since is no older than what is shown.                       *)
(***************************************************************************)
EXTENDS Publication, ProjectReadings, Sequences, TLAPS

Unstarted == {"idle", "loaded", "begin"}
Settled   == {"idle", "loaded", "done"}

(* A run that has not begun has no generation and has read nothing.        *)
StartsClean == \A r \in Request : pc[r] \in Unstarted => gen[r] = 0 /\ view[r] = Unread

(* next is above every generation given, and no two runs share one.        *)
NextIsFree ==
    /\ next > 0 /\ active.gen < next
    /\ active.run # None => active.gen > 0
    /\ \A r \in Request : gen[r] < next
    /\ \A r1, r2 \in Request : gen[r1] = gen[r2] /\ gen[r1] # 0 => r1 = r2

ArchiveInOrder ==
    /\ \A a, b \in archive : a.gen = b.gen => a = b
    /\ \A a \in archive : a.gen <= current.gen
    /\ current # Nothing => current \in archive

(* What was read or is shown is no newer than the source.                  *)
ReadsArePast ==
    /\ \A r \in Request, s \in Source : view[r][s] # None => view[r][s] <= notion[s]
    /\ \A s \in Source : current.view[s] <= notion[s]

(* What the owner has read is no older than what is shown.                 *)
OwnerIsAhead ==
    \A r \in Request, s \in Source : Owns(r) /\ view[r][s] # None => current.view[s] <= view[r][s]

SendsWhole == \A r \in Request : pc[r] = "publish" => \A s \in Source : view[r][s] # None

(* Where nothing but Former is shown nobody has decided to publish.        *)
FormerStands ==
    current = Former =>
        \A r \in Request : pc[r] \in Settled /\ (pc[r] = "loaded" => seen[r] = Former)

RunsInv ==
    /\ StartsClean /\ NextIsFree /\ ArchiveInOrder
    /\ ReadsArePast /\ OwnerIsAhead /\ SendsWhole /\ FormerStands

SyncInv == SyncTypeOK /\ RunsInv

-----------------------------------------------------------------------------
LEMMA BaseTypes ==
    /\ Nothing \in Snapshot /\ Former \in Snapshot /\ NoRun \in [run : Request \cup {None}, gen : Nat, until : Nat]
    /\ Former.gen = 1 /\ Nothing.gen = 0 /\ ~Former.supported /\ NoRun.run = None /\ NoRun.gen = 0
    /\ \A s \in Source : Former.view[s] = 0 /\ Nothing.view[s] = 0
BY DEF Nothing, Former, Snapshot, NoRun

LEMMA FormerIsInvalid == ReadState(Former) = "invalid"
BY BaseTypes DEF ReadState

LEMMA SyncInit == Init => SyncInv
<1> SUFFICES ASSUME Init PROVE SyncInv
  OBVIOUS
<1>1. current \in Snapshot /\ archive \subseteq Snapshot /\ next \in Nat /\ next > 0 /\ current.gen \in Nat
  BY BaseTypes DEF Init, Snapshot
<1>2. view \in [Request -> [Source -> Version]] /\ \A r \in Request, s \in Source : view[r][s] = None
  BY DEF Init, Unread, Version
<1>3. SyncTypeOK
  BY <1>1, <1>2, BaseTypes DEF Init, SyncTypeOK
<1>4. StartsClean /\ SendsWhole /\ FormerStands
  BY DEF Init, StartsClean, SendsWhole, FormerStands, Settled
<1>5. NextIsFree
  BY <1>1, BaseTypes DEF Init, NextIsFree
<1>6. ArchiveInOrder
  BY <1>1 DEF Init, ArchiveInOrder
<1>7. ReadsArePast /\ OwnerIsAhead
  BY <1>2, BaseTypes DEF Init, ReadsArePast, OwnerIsAhead
<1> QED
  BY <1>3, <1>4, <1>5, <1>6, <1>7 DEF SyncInv, RunsInv

(* A step of one invocation that leaves the database, its generation and   *)
(* what was read alone.                                                    *)
LEMMA QuietStep ==
    ASSUME SyncInv, NEW r \in Request,
           UNCHANGED <<notion, database, intent, gen, view>>,
           clock' = clock,
           seen' \in [Request -> Snapshot], sent' \in [Request -> Nat], killed' \subseteq Request,
           pc' \in [Request -> {"idle", "loaded", "begin", "read", "publish", "fail", "done"}],
           \A q \in Request \ {r} : pc'[q] = pc[q] /\ seen'[q] = seen[q],
           pc'[r] \in Unstarted => pc[r] \in Unstarted,
           pc'[r] = "publish" => \A s \in Source : view[r][s] # None,
           current = Former => pc'[r] \in Settled /\ (pc'[r] = "loaded" => seen'[r] = Former)
    PROVE  SyncInv'
<1> USE DEF database
<1>1. SyncTypeOK'
  BY DEF SyncInv, SyncTypeOK
<1>2. StartsClean'
  BY DEF SyncInv, RunsInv, StartsClean
<1>3. NextIsFree' /\ ArchiveInOrder'
  BY DEF SyncInv, RunsInv, NextIsFree, ArchiveInOrder
<1>4. ReadsArePast' /\ OwnerIsAhead'
  BY DEF SyncInv, RunsInv, ReadsArePast, OwnerIsAhead, Owns
<1>5. SendsWhole'
  BY DEF SyncInv, RunsInv, SendsWhole
<1>6. FormerStands'
  BY DEF SyncInv, RunsInv, FormerStands
<1> QED
  BY <1>1, <1>2, <1>3, <1>4, <1>5, <1>6 DEF SyncInv, RunsInv

LEMMA QuietSteps ==
    ASSUME SyncInv, NEW r \in Request,
           \/ Load(r) \/ Decline(r) \/ SendBegin(r) \/ BeginRefused(r) \/ SendPublish(r)
           \/ SourceFails(r) \/ PublishRefused(r) \/ Kill(r)
    PROVE  SyncInv'
<1>1. SyncTypeOK /\ FormerStands
  BY DEF SyncInv, RunsInv
<1>2. CASE Load(r)
  BY <1>1, <1>2, QuietStep DEF Load, Goes, SyncTypeOK, Unstarted, Settled
<1>3. ASSUME NEW from, NEW to, <<from, to>> \in {<<"loaded", "done">>, <<"begin", "done">>, <<"read", "fail">>},
             Goes(r, from, to),
             UNCHANGED <<clock, notion, database, intent, seen, sent, gen, view, killed>>
      PROVE  SyncInv'
  <2>1. \/ from = "loaded" /\ to = "done"
        \/ from = "begin" /\ to = "done"
        \/ from = "read" /\ to = "fail"
    BY <1>3
  <2> QED
    BY <1>1, <1>3, <2>1, QuietStep DEF Goes, SyncTypeOK, Unstarted, Settled, FormerStands
<1>4. CASE SendBegin(r)
  <2>1. current # Former
    BY <1>1, <1>4, FormerIsInvalid DEF SendBegin, Goes, MayPublish, FormerStands, SyncTypeOK
  <2> QED
    BY <1>1, <1>4, <2>1, QuietStep DEF SendBegin, Goes, SyncTypeOK, Unstarted
<1>5. CASE SendPublish(r)
  BY <1>1, <1>5, QuietStep DEF SendPublish, Goes, SyncTypeOK, Unstarted, Settled, FormerStands
<1>6. CASE PublishRefused(r)
  BY <1>1, <1>6, QuietStep DEF PublishRefused, After, Goes, SyncTypeOK, Unstarted, Settled, FormerStands
<1>7. CASE Kill(r)
  <2>1. pc[r] = "publish" => \A s \in Source : view[r][s] # None
    BY DEF SyncInv, RunsInv, SendsWhole
  <2> QED
    BY <1>1, <1>7, <2>1, QuietStep DEF Kill, SyncTypeOK, Unstarted, Settled, FormerStands
<1>8. CASE Decline(r) \/ BeginRefused(r) \/ SourceFails(r)
  BY <1>3, <1>8 DEF Decline, BeginRefused, SourceFails
<1> QED
  BY <1>2, <1>4, <1>5, <1>6, <1>7, <1>8

LEMMA TickStep == SyncInv /\ Tick => SyncInv'
<1> SUFFICES ASSUME SyncInv, Tick PROVE SyncInv'
  OBVIOUS
<1>1. SyncTypeOK'
  BY DEF SyncInv, SyncTypeOK, Tick, database, request
<1>2. StartsClean' /\ NextIsFree' /\ ArchiveInOrder'
  BY DEF SyncInv, RunsInv, StartsClean, NextIsFree, ArchiveInOrder, Tick, database, request
<1>3. ReadsArePast' /\ OwnerIsAhead' /\ SendsWhole' /\ FormerStands'
  BY DEF SyncInv, RunsInv, ReadsArePast, OwnerIsAhead, Owns, SendsWhole, FormerStands, Tick, database, request
<1> QED
  BY <1>1, <1>2, <1>3 DEF SyncInv, RunsInv

LEMMA EditStep ==
    ASSUME SyncInv, NEW s \in Source, Edit(s)
    PROVE  SyncInv'
<1>1. /\ notion' \in [Source -> Nat]
      /\ \A x \in Source : notion[x] \in Nat /\ notion'[x] \in Nat /\ notion[x] <= notion'[x]
  BY DEF SyncInv, SyncTypeOK, Edit
<1>2. SyncTypeOK'
  BY <1>1 DEF SyncInv, SyncTypeOK, Edit, database, request
<1>3. StartsClean' /\ NextIsFree' /\ ArchiveInOrder'
  BY DEF SyncInv, RunsInv, StartsClean, NextIsFree, ArchiveInOrder, Edit, database, request
<1>4. OwnerIsAhead' /\ SendsWhole' /\ FormerStands'
  BY DEF SyncInv, RunsInv, OwnerIsAhead, Owns, SendsWhole, FormerStands, Edit, database, request
<1>5. ReadsArePast'
  <2>1. \A r \in Request, x \in Source : view[r][x] # None => view[r][x] \in Nat /\ view[r][x] <= notion[x]
    BY DEF SyncInv, SyncTypeOK, RunsInv, ReadsArePast, Version
  <2>2. \A x \in Source : current.view[x] \in Nat /\ current.view[x] <= notion[x]
    BY DEF SyncInv, SyncTypeOK, RunsInv, ReadsArePast, Snapshot
  <2>3. view' = view /\ current' = current
    BY DEF Edit, database, request
  <2> QED
    BY <1>1, <2>1, <2>2, <2>3 DEF ReadsArePast
<1> QED
  BY <1>2, <1>3, <1>4, <1>5 DEF SyncInv, RunsInv

LEMMA ReadStep ==
    ASSUME SyncInv, NEW r \in Request, NEW s \in Source, ReadSource(r, s)
    PROVE  SyncInv'
<1> USE DEF ReadSource, database
<1>1. /\ pc[r] = "read" /\ notion[s] \in Nat /\ current.view[s] <= notion[s]
      /\ view' = [view EXCEPT ![r][s] = notion[s]]
  BY DEF SyncInv, SyncTypeOK, RunsInv, ReadsArePast
<1>2. /\ view' \in [Request -> [Source -> Version]]
      /\ \A q \in Request, x \in Source :
            view'[q][x] = IF q = r /\ x = s THEN notion[s] ELSE view[q][x]
      /\ \A q \in Request : q # r => view'[q] = view[q]
  BY <1>1 DEF SyncInv, SyncTypeOK, Version
<1>3. SyncTypeOK'
  BY <1>2 DEF SyncInv, SyncTypeOK
<1>4. StartsClean' /\ SendsWhole'
  BY <1>1, <1>2 DEF SyncInv, RunsInv, StartsClean, SendsWhole, Unstarted
<1>5. NextIsFree' /\ ArchiveInOrder' /\ FormerStands'
  BY DEF SyncInv, RunsInv, NextIsFree, ArchiveInOrder, FormerStands
<1>6. ReadsArePast' /\ OwnerIsAhead'
  BY <1>1, <1>2 DEF SyncInv, RunsInv, SyncTypeOK, ReadsArePast, OwnerIsAhead, Owns
<1> QED
  BY <1>3, <1>4, <1>5, <1>6 DEF SyncInv, RunsInv

(* A run that begins takes the project from whoever had it, and has read   *)
(* nothing yet.                                                            *)
LEMMA BeginStep ==
    ASSUME SyncInv, NEW r \in Request, Begin(r)
    PROVE  SyncInv'
<1> USE DEF database
<1>1. /\ pc[r] = "begin" /\ gen[r] = 0 /\ view[r] = Unread /\ r # None
      /\ next \in Nat /\ next > 0 /\ sent[r] + Lease \in Nat
  BY SyncAssumption DEF SyncInv, SyncTypeOK, RunsInv, StartsClean, NextIsFree, Begin, Goes, Unstarted
<1>2. /\ active' = [run |-> r, gen |-> next, until |-> sent[r] + Lease]
      /\ next' = next + 1
      /\ UNCHANGED <<clock, notion, archive, current, intent, seen, sent, view, killed>>
  BY DEF Begin
<1>3. PICK to \in {"read", "done"} : pc' = [pc EXCEPT ![r] = to]
  BY DEF Begin, Goes
<1>4. gen' \in [Request -> Nat] /\ \A q \in Request : gen'[q] = gen[q] \/ (q = r /\ gen'[q] = next)
  BY <1>1 DEF Begin, SyncInv, SyncTypeOK
<1>5. SyncTypeOK'
  <2>1. pc' \in [Request -> {"idle", "loaded", "begin", "read", "publish", "fail", "done"}]
    BY <1>3 DEF SyncInv, SyncTypeOK
  <2>2. active' \in [run : Request \cup {None}, gen : Nat, until : Nat] /\ next' \in Nat
    BY <1>1, <1>2
  <2> QED
    BY <1>2, <1>4, <2>1, <2>2 DEF SyncInv, SyncTypeOK
<1>6. StartsClean' /\ SendsWhole'
  <2>1. \A q \in Request : q # r => pc'[q] = pc[q] /\ gen'[q] = gen[q]
    BY <1>3, <1>4 DEF SyncInv, SyncTypeOK
  <2>2. pc'[r] = to
    BY <1>3 DEF SyncInv, SyncTypeOK
  <2> QED
    BY <1>2, <2>1, <2>2 DEF SyncInv, RunsInv, StartsClean, SendsWhole, Unstarted
<1>7. NextIsFree'
  <2>1. \A q \in Request : gen[q] \in Nat /\ gen[q] < next
    BY DEF SyncInv, SyncTypeOK, RunsInv, NextIsFree
  <2>2. \A q \in Request : gen'[q] \in Nat /\ gen'[q] < next'
    BY <1>1, <1>2, <1>4, <2>1
  <2>3. \A r1, r2 \in Request : gen'[r1] = gen'[r2] /\ gen'[r1] # 0 => r1 = r2
    BY <1>1, <1>4, <2>1 DEF SyncInv, RunsInv, NextIsFree
  <2> QED
    BY <1>1, <1>2, <2>2, <2>3 DEF NextIsFree
<1>8. ArchiveInOrder' /\ ReadsArePast'
  BY <1>2 DEF SyncInv, RunsInv, ArchiveInOrder, ReadsArePast
<1>9. OwnerIsAhead'
  BY <1>1, <1>2 DEF OwnerIsAhead, Owns, Unread
<1>10. FormerStands'
  BY <1>1, <1>2 DEF SyncInv, RunsInv, FormerStands, Settled
<1> QED
  BY <1>5, <1>6, <1>7, <1>8, <1>9, <1>10 DEF SyncInv, RunsInv

(* What a run publishes: a whole snapshot, newer than the current one in   *)
(* its generation and no older in any source.                              *)
LEMMA DraftIsAhead ==
    ASSUME SyncInv, NEW r \in Request, Publish(r)
    PROVE  /\ Draft(r) \in Snapshot /\ Draft(r).gen = gen[r] /\ Draft(r).supported
           /\ Draft(r).view = view[r]
           /\ Draft(r).gen > current.gen
           /\ \A s \in Source : /\ Draft(r).view[s] \in Nat /\ current.view[s] \in Nat
                                /\ current.view[s] <= Draft(r).view[s]
                                /\ Draft(r).view[s] <= notion[s]
<1>1. pc[r] = "publish" /\ Owns(r) /\ gen[r] > current.gen
  BY DEF Publish, Goes, MayCommit
<1>2. \A s \in Source : view[r][s] # None /\ view[r][s] \in Version
  BY <1>1 DEF SyncInv, RunsInv, SendsWhole, SyncTypeOK
<1>3. view[r] \in [Source -> Nat]
  BY <1>2 DEF SyncInv, SyncTypeOK, Version
<1>4. Draft(r) \in Snapshot /\ Draft(r).gen = gen[r] /\ Draft(r).supported /\ Draft(r).view = view[r]
  BY <1>3 DEF Draft, Snapshot, SyncInv, SyncTypeOK
<1>5. \A s \in Source : current.view[s] <= view[r][s] /\ view[r][s] <= notion[s]
  BY <1>1, <1>2 DEF SyncInv, RunsInv, OwnerIsAhead, ReadsArePast
<1>6. \A s \in Source : view[r][s] \in Nat /\ current.view[s] \in Nat
  BY <1>3 DEF SyncInv, SyncTypeOK, Snapshot
<1> QED
  BY <1>1, <1>4, <1>5, <1>6

LEMMA PublishStep ==
    ASSUME SyncInv, NEW r \in Request, Publish(r)
    PROVE  SyncInv'
<1> DEFINE d == Draft(r)
<1>1. /\ d \in Snapshot /\ d.gen = gen[r] /\ d.supported
      /\ d.gen > current.gen
      /\ \A s \in Source : d.view[s] <= notion[s]
  BY DraftIsAhead
<1>2. /\ archive' = archive \cup {d} /\ current' = d /\ active' = NoRun
      /\ UNCHANGED <<clock, notion, next, intent, seen, sent, gen, view, killed>>
  BY DEF Publish
<1>3. PICK to \in {"done", "fail"} : pc' = [pc EXCEPT ![r] = to]
  BY DEF Publish, Goes, After
<1>4. SyncTypeOK'
  <2>1. pc' \in [Request -> {"idle", "loaded", "begin", "read", "publish", "fail", "done"}]
    BY <1>3 DEF SyncInv, SyncTypeOK
  <2> QED
    BY <1>1, <1>2, <2>1, BaseTypes DEF SyncInv, SyncTypeOK
<1>5. StartsClean' /\ SendsWhole'
  BY <1>2, <1>3 DEF SyncInv, RunsInv, SyncTypeOK, StartsClean, SendsWhole, Unstarted
<1>6. NextIsFree'
  BY <1>2, BaseTypes DEF SyncInv, RunsInv, NextIsFree
<1>7. ArchiveInOrder'
  <2>1. \A a \in archive : a.gen <= current.gen /\ a.gen \in Nat /\ a.gen < d.gen
    BY <1>1 DEF SyncInv, RunsInv, SyncTypeOK, ArchiveInOrder, Snapshot
  <2>2. \A a, b \in archive \cup {d} : a.gen = b.gen => a = b
    BY <2>1 DEF SyncInv, RunsInv, ArchiveInOrder
  <2>3. \A a \in archive \cup {d} : a.gen <= d.gen
    BY <1>1, <2>1 DEF Snapshot
  <2> QED
    BY <1>2, <2>2, <2>3 DEF ArchiveInOrder
<1>8. ReadsArePast'
  BY <1>1, <1>2 DEF SyncInv, RunsInv, ReadsArePast
<1>9. OwnerIsAhead'
  BY <1>2, BaseTypes, SyncAssumption DEF OwnerIsAhead, Owns
<1>10. FormerStands'
  BY <1>1, <1>2, BaseTypes DEF FormerStands
<1> QED
  BY <1>4, <1>5, <1>6, <1>7, <1>8, <1>9, <1>10 DEF SyncInv, RunsInv

LEMMA ReportStep ==
    ASSUME SyncInv, NEW r \in Request, ReportFailure(r)
    PROVE  SyncInv'
<1>1. /\ active' \in {active, NoRun}
      /\ pc[r] = "fail" /\ pc' = [pc EXCEPT ![r] = "done"]
      /\ UNCHANGED <<clock, notion, archive, current, next, intent, seen, sent, gen, view, killed>>
  BY DEF ReportFailure, Goes
<1>2. SyncTypeOK'
  BY <1>1, BaseTypes DEF SyncInv, SyncTypeOK
<1>3. StartsClean' /\ SendsWhole' /\ FormerStands'
  BY <1>1 DEF SyncInv, RunsInv, SyncTypeOK, StartsClean, SendsWhole, Unstarted, FormerStands, Settled
<1>4. NextIsFree'
  BY <1>1, BaseTypes DEF SyncInv, RunsInv, NextIsFree
<1>5. ArchiveInOrder' /\ ReadsArePast'
  BY <1>1 DEF SyncInv, RunsInv, ArchiveInOrder, ReadsArePast
<1>6. OwnerIsAhead'
  BY <1>1, BaseTypes, SyncAssumption DEF SyncInv, RunsInv, OwnerIsAhead, Owns
<1> QED
  BY <1>2, <1>3, <1>4, <1>5, <1>6 DEF SyncInv, RunsInv

LEMMA SyncStep == SyncInv /\ [Next]_vars => SyncInv'
<1> SUFFICES ASSUME SyncInv, [Next]_vars PROVE SyncInv'
  OBVIOUS
<1>1. CASE UNCHANGED vars
  BY <1>1 DEF vars, SyncInv, SyncTypeOK, RunsInv, StartsClean, NextIsFree, ArchiveInOrder, ReadsArePast,
     OwnerIsAhead, Owns, SendsWhole, FormerStands
<1>2. CASE Tick
  BY <1>2, TickStep
<1>3. ASSUME NEW s \in Source, Edit(s) PROVE SyncInv'
  BY <1>3, EditStep
<1>4. ASSUME NEW r \in Request, Step(r) PROVE SyncInv'
  <2>1. CASE \/ Load(r) \/ Decline(r) \/ SendBegin(r) \/ BeginRefused(r) \/ SendPublish(r)
             \/ SourceFails(r) \/ PublishRefused(r) \/ Kill(r)
    BY <2>1, QuietSteps
  <2>2. CASE Begin(r)
    BY <2>2, BeginStep
  <2>3. CASE Publish(r)
    BY <2>3, PublishStep
  <2>4. CASE ReportFailure(r)
    BY <2>4, ReportStep
  <2>5. ASSUME NEW s \in Source, ReadSource(r, s) PROVE SyncInv'
    BY <2>5, ReadStep
  <2> QED
    BY <1>4, <2>1, <2>2, <2>3, <2>4, <2>5 DEF Step
<1> QED
  BY <1>1, <1>2, <1>3, <1>4 DEF Next

-----------------------------------------------------------------------------
(* The inductive invariant holds of every behaviour: any number of         *)
(* requests, sources, edits and kills (syncProjectKnowledgeSnapshot and    *)
(* the functions it calls).                                                *)
THEOREM SyncInvariant == Spec => []SyncInv
BY SyncInit, SyncStep, PTL DEF Spec

(* Every variable has its type; what is archived is whole.                 *)
THEOREM SyncTypes == Spec => []SyncTypeOK
<1>1. SyncInv => SyncTypeOK
  BY DEF SyncInv
<1> QED
  BY <1>1, SyncInvariant, PTL

(* One generation, one run, at most one snapshot, and the current one is   *)
(* the newest, though runs overlap (publish_scope_knowledge_snapshot).     *)
THEOREM GenerationsAreGivenOnce == Spec => []GenerationsAreUnique
<1>1. SyncInv => GenerationsAreUnique
  BY DEF SyncInv, RunsInv, ArchiveInOrder, NextIsFree, GenerationsAreUnique
<1> QED
  BY <1>1, SyncInvariant, PTL

-----------------------------------------------------------------------------
(* Which steps move the database.                                          *)
LEMMA WhoMoves ==
    ASSUME [Next]_vars
    PROVE  \/ \E r \in Request : Begin(r) \/ Publish(r) \/ ReportFailure(r)
           \/ UNCHANGED <<archive, current, active>>
<1>1. CASE UNCHANGED vars
  BY <1>1 DEF vars
<1>2. CASE Tick \/ \E s \in Source : Edit(s)
  BY <1>2 DEF Tick, Edit, database
<1>3. ASSUME NEW r \in Request, Step(r), ~(Begin(r) \/ Publish(r) \/ ReportFailure(r))
      PROVE  UNCHANGED <<archive, current, active>>
  BY <1>3 DEF Step, Load, Decline, SendBegin, BeginRefused, SendPublish, SourceFails, PublishRefused,
     Kill, ReadSource, database
<1> QED
  BY <1>1, <1>2, <1>3 DEF Next

(* A snapshot this release cannot read is never replaced, not even by a    *)
(* request that decided earlier (decideSnapshotRefresh).                   *)
THEOREM FormerIsKept == Spec => UnsupportedIsKept
<1>1. ASSUME SyncInv, [Next]_vars PROVE [current = Former => current' = Former]_vars
  <2>1. SUFFICES ASSUME current = Former PROVE current' = Former
    OBVIOUS
  <2>2. ASSUME NEW r \in Request PROVE ~Publish(r)
    BY <1>1, <2>1 DEF SyncInv, RunsInv, FormerStands, Settled, Publish, Goes
  <2> QED
    BY <1>1, <2>1, <2>2, WhoMoves DEF Begin, ReportFailure
<1> QED
  BY <1>1, SyncInvariant, PTL DEF Spec, UnsupportedIsKept

(* A run is never ended by the late report of another, nor replaced within *)
(* its lease (study_graph_begin_scope_snapshot_sync and the failure RPC).  *)
THEOREM RunsAreNotEndedByOthers == Spec => RunsEndByThemselves
<1> DEFINE Ends == active.run # None /\ active' # active =>
             \/ current' = Draft(active.run)
             \/ pc[active.run] = "fail" /\ pc'[active.run] = "done"
             \/ active'.run # None /\ active.until <= sent[active'.run]
<1>1. ASSUME SyncInv, [Next]_vars PROVE [Ends]_vars
  <2>1. SUFFICES ASSUME active.run # None, active' # active PROVE Ends
    OBVIOUS
  <2>2. ASSUME NEW r \in Request, Begin(r) PROVE Ends
    <3>1. ~Leased(r) /\ active' = [run |-> r, gen |-> next, until |-> sent[r] + Lease]
      BY <2>2 DEF Begin
    <3>2. active'.run = r /\ r # None /\ active.until \in Nat /\ sent[r] \in Nat
      BY <1>1, <3>1, SyncAssumption DEF SyncInv, SyncTypeOK
    <3> QED
      BY <2>1, <3>1, <3>2 DEF Leased
  <2>3. ASSUME NEW r \in Request, Publish(r) PROVE Ends
    BY <2>3 DEF Publish, MayCommit, Owns
  <2>4. ASSUME NEW r \in Request, ReportFailure(r) PROVE Ends
    <3>1. active.run = r /\ pc[r] = "fail" /\ pc' = [pc EXCEPT ![r] = "done"]
      BY <2>1, <2>4 DEF ReportFailure, Goes
    <3> QED
      BY <1>1, <3>1 DEF SyncInv, SyncTypeOK
  <2> QED
    BY <1>1, <2>1, <2>2, <2>3, <2>4, WhoMoves
<1> QED
  BY <1>1, SyncInvariant, PTL DEF Spec, RunsEndByThemselves

(* The chain of snapshots implements the register of a changing source:    *)
(* readers never see a source go back, although a run may publish after    *)
(* one that began later has been refused, killed or answered.              *)
THEOREM SnapshotsImplementRegister == Spec => SnapshotsAdvance
<1>1. Init => Published!RegisterInit
  BY BaseTypes DEF Init, Published!RegisterInit, Nothing, Former
<1>2. SyncInv /\ SyncInv' /\ [Next]_vars => [Published!RegisterNext]_<<notion, current.view>>
  <2> SUFFICES ASSUME SyncInv, SyncInv', [Next]_vars
               PROVE  [Published!RegisterNext]_<<notion, current.view>>
    OBVIOUS
  <2>1. ASSUME NEW r \in Request, Publish(r) PROVE Published!Show
    <3>1. current' = Draft(r) /\ notion' = notion
      BY <2>1 DEF Publish
    <3>2. /\ Draft(r) \in Snapshot
          /\ \A s \in Source : current.view[s] <= Draft(r).view[s] /\ Draft(r).view[s] <= notion[s]
      BY <2>1, DraftIsAhead
    <3>3. Draft(r).view \in [Source -> Nat]
      BY <3>2 DEF Snapshot
    <3> QED
      BY <3>1, <3>2, <3>3 DEF Published!Show
  <2>2. ASSUME NEW s \in Source, Edit(s) PROVE Published!Change(s)
    BY <2>2 DEF Edit, database, Published!Change
  <2>3. ASSUME NEW r \in Request, Begin(r) \/ ReportFailure(r)
        PROVE  UNCHANGED <<notion, current.view>>
    BY <2>3 DEF Begin, ReportFailure
  <2>4. ASSUME NEW r \in Request, Step(r), ~(Begin(r) \/ Publish(r) \/ ReportFailure(r))
        PROVE  UNCHANGED <<notion, current.view>>
    BY <2>4 DEF Step, Load, Decline, SendBegin, BeginRefused, SendPublish, SourceFails, PublishRefused,
       Kill, ReadSource, database
  <2>5. CASE Tick \/ UNCHANGED vars
    BY <2>5 DEF Tick, vars, database
  <2> QED
    BY <2>1, <2>2, <2>3, <2>4, <2>5 DEF Next, Published!RegisterNext
<1> QED
  BY <1>1, <1>2, SyncInvariant, PTL DEF Spec, SnapshotsAdvance, Published!RegisterSpec

-----------------------------------------------------------------------------
(* The requests of a tab.  At most one promise is under way because the    *)
(* map knows of it: it is in the map, or the one in the map is chained to  *)
(* it.  A promise that has left the map starts no request, because what it *)
(* is chained to is manual and settles it whatever its result.             *)

State == Tab!Pending \cup {"chained"} \cup Tab!Ended
WithState(p, state, result) ==
    [intent |-> p.intent, state |-> state, after |-> p.after, result |-> result, at |-> p.at]

(* One promise changes, or one is added; the others are as they were.      *)
Rewritten(i, p) ==
    /\ promises' \in Seq(Tab!Promised) /\ Len(promises') = Len(promises)
    /\ promises'[i] = p
    /\ \A j \in 1..Len(promises) : j # i => promises'[j] = promises[j]
Added(p) ==
    /\ promises' \in Seq(Tab!Promised) /\ Len(promises') = Len(promises) + 1
    /\ promises'[Len(promises) + 1] = p
    /\ \A j \in 1..Len(promises) : promises'[j] = promises[j]

LEMMA BecomesRewrites ==
    ASSUME Tab!CoordinatorTypeOK, NEW i \in 1..Len(promises), NEW state \in State,
           NEW result \in Tab!Result,
           Tab!Becomes(i, state, result)
    PROVE  Rewritten(i, WithState(promises[i], state, result))
<1>1. promises \in Seq(Tab!Promised) /\ promises[i] \in Tab!Promised
  BY DEF Tab!CoordinatorTypeOK
<1>2. WithState(promises[i], state, result) \in Tab!Promised
  BY <1>1 DEF WithState, Tab!Promised, State
<1>3. [[promises[i] EXCEPT !.state = state] EXCEPT !.result = result]
         = WithState(promises[i], state, result)
  <2> DEFINE p == promises[i]
             q == [intent |-> p.intent, state |-> state, after |-> p.after, result |-> p.result, at |-> p.at]
  <2>1. [p EXCEPT !.state = state] = q
    BY <1>1 DEF Tab!Promised
  <2>2. [q EXCEPT !.result = result] = WithState(p, state, result)
    BY DEF WithState
  <2> QED
    BY <2>1, <2>2
<1>4. promises' = [promises EXCEPT ![i] = WithState(promises[i], state, result)]
  BY <1>1, <1>3 DEF Tab!Becomes
<1> HIDE DEF Tab!Promised, WithState
<1> QED
  BY <1>1, <1>2, <1>4 DEF Rewritten

LEMMA AppendAdds ==
    ASSUME Tab!CoordinatorTypeOK, NEW p \in Tab!Promised, promises' = Append(promises, p)
    PROVE  Added(p)
BY DEF Added, Tab!CoordinatorTypeOK

LEMMA NewPromise ==
    ASSUME Tab!CoordinatorTypeOK, NEW how \in {"foreground", "manual"},
           NEW state \in {"queued", "chained"}, NEW after \in Nat
    PROVE  Tab!Promise(how, state, after) \in Tab!Promised
BY DEF Tab!Promise, Tab!Promised, Tab!CoordinatorTypeOK, Tab!NoResult, Tab!Result, Tab!Pending, Tab!Kind

LEMMA PromisedFields ==
    ASSUME NEW p \in Tab!Promised
    PROVE  /\ p.intent \in {"foreground", "manual"} /\ p.after \in Nat
           /\ p.result \in Tab!Result /\ p.at \in Nat
BY DEF Tab!Promised

(* The one in the map, or the one it is chained to: there is no third.     *)
AllSound == \A i \in 1..Len(promises) : Tab!PromiseSound(i)

(* What the promises and the map are to each other.                        *)
BookSound ==
    /\ entry \in 0..Len(promises)
    /\ \A i \in 1..Len(promises) :
          /\ promises[i].after \in 0..Len(promises)
          /\ promises[i].result.kind \in Tab!Kind <=> promises[i].state \in Tab!Ended
    /\ AllSound /\ Tab!EntryIsLive /\ Tab!ForegroundIsThrottled

(* A step keeps the invariant if it keeps the book, hands every button a   *)
(* manual promise to wait for, and answers it as it asked.                 *)
LEMMA Assembled ==
    ASSUME Tab!CoordinatorInvariant, promises' \in Seq(Tab!Promised), BookSound',
           \A j \in 1..Len(promises) :
              j \in 1..Len(promises') /\ promises'[j].intent = promises[j].intent,
           requestedAt' \in Int, time' \in Nat,
           waits' \in [Tab!Caller -> 0..Len(promises')], got' \in [Tab!Caller -> Tab!Result],
           \A b \in Button :
              waits'[b] \in {0, waits[b]} \/ promises'[waits'[b]].intent = "manual",
           \A b \in Button : got'[b] \in {Tab!NoResult, got[b]} \/ Tab!Satisfies(got'[b])
    PROVE  Tab!CoordinatorInvariant'
<1>1. Tab!CoordinatorTypeOK' /\ AllSound' /\ Tab!EntryIsLive' /\ Tab!ForegroundIsThrottled'
  BY DEF Tab!CoordinatorTypeOK, BookSound
<1>2. Tab!OneCallAtATime'
  BY <1>1 DEF AllSound, Tab!PromiseSound, Tab!MapKnows, Tab!OneCallAtATime, Tab!Pending,
              Tab!CoordinatorTypeOK
<1>3. \A b \in Button : waits'[b] # 0 => promises'[waits'[b]].intent = "manual"
  <2> SUFFICES ASSUME NEW b \in Button, waits'[b] # 0, waits'[b] = waits[b]
               PROVE  promises'[waits'[b]].intent = "manual"
    OBVIOUS
  <2>1. waits[b] \in 1..Len(promises) /\ promises[waits[b]].intent = "manual"
    BY DEF Tab!CoordinatorInvariant, Tab!CoordinatorTypeOK, Tab!Caller
  <2> QED
    BY <2>1
<1>4. Tab!ManualIsAnswered'
  BY DEF Tab!CoordinatorInvariant, Tab!ManualIsAnswered
<1> QED
  BY <1>1, <1>2, <1>3, <1>4 DEF Tab!CoordinatorInvariant, AllSound

(* The three ways a request of a caller goes.                              *)
LEMMA RequestsAre ==
    ASSUME Tab!CoordinatorInvariant, NEW c \in Tab!Caller, NEW how \in {"foreground", "manual"},
           Tab!RequestRefresh(c, how)
    PROVE  \/ /\ entry = 0 /\ Added(Tab!Direct(how))
              /\ entry' = Len(promises) + 1 /\ waits' = [waits EXCEPT ![c] = entry']
           \/ /\ entry # 0
              /\ how = "manual" => promises[entry].intent = "manual"
              /\ waits' = [waits EXCEPT ![c] = entry] /\ UNCHANGED <<promises, entry>>
           \/ /\ entry # 0 /\ how = "manual" /\ promises[entry].intent = "foreground"
              /\ Added(Tab!Promise("manual", "chained", entry))
              /\ entry' = Len(promises) + 1 /\ waits' = [waits EXCEPT ![c] = entry']
<1>1. Tab!CoordinatorTypeOK
  BY DEF Tab!CoordinatorInvariant
<1>2. CASE entry = 0
  <2>1. Tab!Direct(how) \in Tab!Promised
    BY <1>1, NewPromise DEF Tab!Direct
  <2>2. promises' = Append(promises, Tab!Direct(how))
    BY <1>2 DEF Tab!RequestRefresh
  <2>3. Added(Tab!Direct(how))
    BY <1>1, <2>1, <2>2, AppendAdds
  <2> QED
    BY <1>2, <2>3 DEF Tab!RequestRefresh, Tab!Fresh
<1>3. CASE entry # 0 /\ (promises[entry].intent = "manual" \/ how = "foreground")
  BY <1>3 DEF Tab!RequestRefresh
<1>4. CASE entry # 0 /\ ~(promises[entry].intent = "manual" \/ how = "foreground")
  <2>1. entry \in Nat /\ promises[entry] \in Tab!Promised
    BY <1>1, <1>4 DEF Tab!CoordinatorTypeOK
  <2>2. promises[entry].intent = "foreground" /\ how = "manual"
    BY <1>4, <2>1 DEF Tab!Promised
  <2>3. Tab!Promise("manual", "chained", entry) \in Tab!Promised
    BY <1>1, <2>1, NewPromise
  <2>4. promises' = Append(promises, Tab!Promise("manual", "chained", entry))
    BY <1>4 DEF Tab!RequestRefresh
  <2>5. Added(Tab!Promise("manual", "chained", entry))
    BY <1>1, <2>3, <2>4, AppendAdds
  <2> QED
    BY <1>4, <2>2, <2>5 DEF Tab!RequestRefresh, Tab!Fresh
<1> QED
  BY <1>2, <1>3, <1>4

-----------------------------------------------------------------------------
(* A promise is added at the end: direct, or chained to foreground work.   *)
LEMMA AddedKeeps ==
    ASSUME Tab!CoordinatorInvariant, NEW p \in Tab!Promised, Added(p), entry' = Len(promises) + 1,
           time' = time, requestedAt' \in Int, requestedAt' >= requestedAt,
           p.after \in 0..Len(promises), p.result = Tab!NoResult,
           \/ p.state = "queued" /\ \A i \in 1..Len(promises) : promises[i].state \notin Tab!Pending
           \/ /\ p.state = "chained" /\ p.intent = "manual" /\ p.after = entry /\ entry # 0
              /\ promises[entry].state # "chained",
           \A i \in 1..Len(promises) :
              promises[i].state = "chained" => promises[promises[i].after].intent = "manual",
           p.intent = "foreground" =>
              p.at <= requestedAt' /\ p.at - requestedAt >= Throttle
    PROVE  BookSound'
<1> DEFINE n == Len(promises)
<1>1. /\ promises \in Seq(Tab!Promised) /\ n \in Nat /\ entry \in 0..n
      /\ \A i \in 1..n : promises[i] \in Tab!Promised /\ promises[i].after \in 0..n /\ Tab!PromiseSound(i)
      /\ \A i \in 1..n : promises[i].result.kind \in Tab!Kind <=> promises[i].state \in Tab!Ended
      /\ requestedAt \in Int /\ Throttle \in Nat
  <2>1. Tab!CoordinatorTypeOK /\ \A i \in 1..n : Tab!PromiseSound(i)
    BY DEF Tab!CoordinatorInvariant
  <2>2. Throttle \in Nat
    BY PublicationAssumption DEF Tab!CoordinatorAssumption
  <2> QED
    BY <2>1, <2>2 DEF Tab!CoordinatorTypeOK
<1>2. /\ promises' \in Seq(Tab!Promised) /\ Len(promises') = n + 1 /\ promises'[n + 1] = p
      /\ \A i \in 1..n : promises'[i] = promises[i]
      /\ \A i \in 1..(n + 1) : i \in 1..n \/ i = n + 1
  BY <1>1 DEF Added
<1> HIDE DEF n
<1>3. ~(p.result.kind \in Tab!Kind) /\ p.state \notin Tab!Ended /\ p.state # "settled"
  BY DEF Tab!NoResult, Tab!Kind, Tab!Ended
<1>4. entry' \in 0..Len(promises') /\ Tab!EntryIsLive'
  BY <1>1, <1>2, <1>3 DEF Tab!EntryIsLive, n
<1>5. \A i \in 1..Len(promises') :
          /\ promises'[i].after \in 0..Len(promises')
          /\ promises'[i].result.kind \in Tab!Kind <=> promises'[i].state \in Tab!Ended
  BY <1>1, <1>2, <1>3 DEF n
<1>6. ASSUME NEW i \in 1..n PROVE Tab!PromiseSound(i)'
  <2>1. Tab!MapKnows(i)'
    <3>1. CASE promises[i].state \notin Tab!Pending
      BY <1>2, <1>6, <3>1 DEF Tab!MapKnows
    <3>2. CASE promises[i].state \in Tab!Pending
      <4>1. /\ p.state = "chained" /\ p.after = entry /\ entry # 0
            /\ promises[entry].state # "chained"
        BY <1>6, <3>2 DEF n
      <4>2. i = entry
        BY <1>1, <1>6, <3>2, <4>1 DEF Tab!PromiseSound, Tab!MapKnows
      <4> QED
        BY <1>1, <1>2, <4>1, <4>2 DEF Tab!MapKnows, n
    <3> QED
      BY <3>1, <3>2
  <2>2. Tab!ChainEnds(i)'
    <3>1. CASE promises[i].state = "chained"
      <4>1. promises[i].after \in 1..n
        BY <1>1, <1>6, <3>1 DEF Tab!PromiseSound, Tab!ChainEnds
      <4> QED
        BY <1>1, <1>2, <1>6, <3>1, <4>1 DEF Tab!PromiseSound, Tab!ChainEnds, n
    <3>2. CASE promises[i].state # "chained"
      BY <1>2, <1>6, <3>2 DEF Tab!ChainEnds
    <3> QED
      BY <3>1, <3>2
  <2>3. promises'[i] = promises[i] /\ promises[i].at \in Nat
    BY <1>1, <1>2, <1>6, PromisedFields
  <2>4. promises[i].intent = "foreground" => promises[i].at <= requestedAt'
    <3>1. promises[i].intent = "foreground" => promises[i].at <= requestedAt
      BY <1>1, <1>6 DEF Tab!PromiseSound
    <3> QED
      BY <1>1, <2>3, <3>1
  <2>5. promises[i].intent = "manual" /\ promises[i].state \in Tab!Ended => Tab!Satisfies(promises[i].result)
    BY <1>1, <1>6 DEF Tab!PromiseSound
  <2> QED
    BY <2>1, <2>2, <2>3, <2>4, <2>5 DEF Tab!PromiseSound
<1>7. ASSUME NEW k, k = n + 1 PROVE Tab!PromiseSound(k)'
  <2>1. promises'[k] = p /\ entry' = k /\ k # 0
    BY <1>1, <1>2, <1>7 DEF n
  <2>2. Tab!MapKnows(k)'
    BY <2>1 DEF Tab!MapKnows, Tab!Pending
  <2>3. Tab!ChainEnds(k)'
    BY <2>1 DEF Tab!ChainEnds
  <2> QED
    BY <1>3, <2>1, <2>2, <2>3 DEF Tab!PromiseSound
<1>8. AllSound'
  BY <1>2, <1>6, <1>7 DEF AllSound
<1>9. Tab!ForegroundIsThrottled'
  <2> SUFFICES ASSUME NEW i \in 1..(n + 1), NEW j \in 1..(n + 1), i < j,
                      promises'[i].intent = "foreground", promises'[j].intent = "foreground"
               PROVE  promises'[j].at - promises'[i].at >= Throttle
    BY <1>2 DEF Tab!ForegroundIsThrottled
  <2>1. i \in 1..n
    BY <1>1 DEF n
  <2>2. CASE j \in 1..n
    BY <1>2, <2>1, <2>2 DEF Tab!CoordinatorInvariant, Tab!ForegroundIsThrottled, n
  <2>3. CASE j = n + 1
    <3>0. promises[i].at \in Nat /\ p.at \in Nat
      BY <1>1, <2>1, PromisedFields
    <3>1. promises[i].at <= requestedAt
      BY <1>1, <1>2, <2>1 DEF Tab!PromiseSound
    <3>2. p.at - requestedAt >= Throttle
      BY <1>2, <2>3
    <3>3. promises'[i].at = promises[i].at /\ promises'[j].at = p.at
      BY <1>2, <2>1, <2>3
    <3> QED
      BY <1>1, <3>0, <3>1, <3>2, <3>3
  <2> QED
    BY <1>2, <2>2, <2>3
<1> QED
  BY <1>4, <1>5, <1>8, <1>9 DEF BookSound

(* A promise changes its state; a promise that settles leaves the map.     *)
LEMMA RewrittenKeeps ==
    ASSUME Tab!CoordinatorInvariant, NEW i \in 1..Len(promises), NEW s \in Tab!Pending \cup Tab!Ended,
           NEW r \in Tab!Result, Rewritten(i, WithState(promises[i], s, r)),
           UNCHANGED requestedAt,
           s \in Tab!Pending => promises[i].state \in Tab!Pending,
           promises[i].state = "chained" => promises[promises[i].after].state \notin Tab!Pending,
           r.kind \in Tab!Kind <=> s \in Tab!Ended,
           promises[i].intent = "manual" /\ s \in Tab!Ended => Tab!Satisfies(r),
           \/ s # "settled" /\ entry' = entry
           \/ promises[i].state = "answered" /\ entry' = IF entry = i THEN 0 ELSE entry
    PROVE  BookSound'
<1> DEFINE n == Len(promises)
<1>1. /\ promises \in Seq(Tab!Promised) /\ n \in Nat /\ entry \in 0..n
      /\ \A j \in 1..n : promises[j] \in Tab!Promised /\ promises[j].after \in 0..n /\ Tab!PromiseSound(j)
      /\ \A j \in 1..n : promises[j].result.kind \in Tab!Kind <=> promises[j].state \in Tab!Ended
      /\ i \in 1..n
      /\ entry # 0 => promises[entry].state # "settled"
      /\ \A j, k \in 1..n :
            j < k /\ promises[j].intent = "foreground" /\ promises[k].intent = "foreground"
               => promises[k].at - promises[j].at >= Throttle
  BY DEF Tab!CoordinatorInvariant, Tab!CoordinatorTypeOK, Tab!EntryIsLive, Tab!ForegroundIsThrottled
<1> HIDE DEF n
<1>2. /\ Len(promises') = n /\ promises'[i] = WithState(promises[i], s, r)
       /\ \A j \in 1..n : j # i => promises'[j] = promises[j]
  BY DEF Rewritten, n
<1>3. /\ promises'[i].state = s /\ promises'[i].result = r
       /\ promises'[i].intent = promises[i].intent /\ promises'[i].after = promises[i].after
       /\ promises'[i].at = promises[i].at
  BY <1>2 DEF WithState
<1>4. \A j \in 1..n : /\ promises'[j].intent = promises[j].intent
                       /\ promises'[j].after = promises[j].after
                       /\ promises'[j].at = promises[j].at
  BY <1>2, <1>3
<1>5. s # "chained"
  BY DEF Tab!Pending, Tab!Ended
<1>6. entry' \in 0..Len(promises') /\ Tab!EntryIsLive'
  <2>1. CASE s # "settled" /\ entry' = entry
    BY <1>1, <1>2, <1>3, <1>4, <2>1 DEF Tab!EntryIsLive
  <2>2. CASE promises[i].state = "answered" /\ entry' = IF entry = i THEN 0 ELSE entry
    BY <1>1, <1>2, <1>3, <1>4, <2>2 DEF Tab!EntryIsLive
  <2> QED
    BY <2>1, <2>2
<1>7. \A j \in 1..Len(promises') :
          /\ promises'[j].after \in 0..Len(promises')
          /\ promises'[j].result.kind \in Tab!Kind <=> promises'[j].state \in Tab!Ended
  BY <1>1, <1>2, <1>3, <1>4
<1>8. ASSUME NEW j \in 1..n PROVE Tab!PromiseSound(j)'
  <2>1. Tab!MapKnows(j)'
    <3> SUFFICES ASSUME promises'[j].state \in Tab!Pending
                 PROVE  /\ entry' # 0
                        /\ \/ j = entry'
                           \/ promises'[entry'].state = "chained" /\ promises'[entry'].after = j
      BY DEF Tab!MapKnows
    <3>1. promises[j].state \in Tab!Pending
      BY <1>2, <1>3, <1>4, <1>8
    <3>2. entry # 0 /\ (j = entry \/ (promises[entry].state = "chained" /\ promises[entry].after = j))
      BY <1>1, <1>8, <3>1 DEF Tab!PromiseSound, Tab!MapKnows
    <3>3. entry' = entry
      <4>1. CASE promises[i].state = "answered" /\ entry = i
        BY <3>1, <3>2, <4>1 DEF Tab!Pending
      <4> QED
        BY <4>1
    <3>4. CASE j = entry
      BY <3>2, <3>3, <3>4
    <3>5. CASE promises[entry].state = "chained" /\ promises[entry].after = j
      <4>1. entry # i
        BY <3>1, <3>5
      <4> QED
        BY <1>1, <1>2, <1>3, <1>4, <3>2, <3>3, <3>5, <4>1
    <3> QED
      BY <3>2, <3>4, <3>5
  <2>2. Tab!ChainEnds(j)'
    <3>1. CASE j = i
      BY <1>2, <1>3, <1>4, <1>5, <3>1 DEF Tab!ChainEnds
    <3>2. CASE j # i /\ promises[j].state = "chained"
      <4>1. /\ promises[j].intent = "manual" /\ promises[j].after \in 1..n
            /\ j = entry \/ promises[promises[j].after].intent = "manual"
        BY <1>1, <1>8, <3>2 DEF Tab!PromiseSound, Tab!ChainEnds
      <4>2. j = entry => entry' = entry
        BY <3>2
      <4>3. /\ promises'[j].intent = "manual" /\ promises'[j].after = promises[j].after
            /\ promises'[promises[j].after].intent = promises[promises[j].after].intent
        BY <1>2, <1>3, <1>4, <1>8, <4>1
      <4> QED
        BY <4>1, <4>2, <4>3 DEF Tab!ChainEnds
    <3>3. CASE j # i /\ promises[j].state # "chained"
      BY <1>2, <1>3, <1>4, <1>8, <3>3 DEF Tab!ChainEnds
    <3> QED
      BY <3>1, <3>2, <3>3
  <2>3. promises'[j].intent = "foreground" => promises'[j].at <= requestedAt'
    BY <1>1, <1>2, <1>3, <1>4, <1>8 DEF Tab!PromiseSound
  <2>4. promises'[j].intent = "manual" /\ promises'[j].state \in Tab!Ended => Tab!Satisfies(promises'[j].result)
    BY <1>1, <1>2, <1>3, <1>4, <1>8 DEF Tab!PromiseSound
  <2> QED
    BY <2>1, <2>2, <2>3, <2>4 DEF Tab!PromiseSound
<1>9. AllSound'
  BY <1>2, <1>3, <1>4, <1>8 DEF AllSound
<1>10. Tab!ForegroundIsThrottled'
  BY <1>1, <1>2, <1>4 DEF Tab!ForegroundIsThrottled
<1> QED
  BY <1>6, <1>7, <1>9, <1>10 DEF BookSound

(* The promise in the map, chained to work that did not publish, is        *)
(* followed by a manual request of its own.                                *)
LEMMA ContinueKeeps ==
    ASSUME Tab!CoordinatorInvariant, NEW i \in 1..Len(promises),
           promises[i].state = "chained",
           promises[promises[i].after].state = "settled",
           promises[promises[i].after].intent # "manual",
           promises' = Append([promises EXCEPT ![i].after = Tab!Fresh], Tab!Direct("manual")),
           entry' = Tab!Fresh, UNCHANGED requestedAt
    PROVE  /\ promises' \in Seq(Tab!Promised) /\ Len(promises') = Len(promises) + 1
           /\ \A j \in 1..Len(promises) : promises'[j].intent = promises[j].intent
           /\ BookSound'
<1> DEFINE n == Len(promises)
           p == Tab!Direct("manual")
           q == [promises[i] EXCEPT !.after = n + 1]
<1>1. /\ promises \in Seq(Tab!Promised) /\ n \in Nat /\ entry \in 0..n /\ i \in 1..n
      /\ \A j \in 1..n : promises[j] \in Tab!Promised /\ promises[j].after \in 0..n /\ Tab!PromiseSound(j)
      /\ \A j \in 1..n : promises[j].result.kind \in Tab!Kind <=> promises[j].state \in Tab!Ended
      /\ Tab!CoordinatorTypeOK
  BY DEF Tab!CoordinatorInvariant, Tab!CoordinatorTypeOK
<1>2. p \in Tab!Promised
  BY <1>1, NewPromise DEF Tab!Direct
<1>3. /\ q \in Tab!Promised /\ q.after = n + 1
      /\ q.intent = promises[i].intent /\ q.state = promises[i].state
      /\ q.result = promises[i].result /\ q.at = promises[i].at
  <2>1. promises[i] \in Tab!Promised /\ n + 1 \in Nat
    BY <1>1
  <2> QED
    BY <2>1 DEF Tab!Promised
<1>4. [promises EXCEPT ![i] = q] \in Seq(Tab!Promised) /\ Len([promises EXCEPT ![i] = q]) = n
  BY <1>1, <1>3
<1>5. promises' = Append([promises EXCEPT ![i] = q], p)
  BY DEF Tab!Fresh
<1>6. /\ p.intent = "manual" /\ p.state = "queued" /\ p.after = 0 /\ p.result = Tab!NoResult
      /\ p.result.kind \notin Tab!Kind /\ p.state \notin Tab!Ended
  BY DEF Tab!Direct, Tab!Promise, Tab!NoResult, Tab!Kind, Tab!Ended
<1> HIDE DEF n, p, q
<1>7. /\ promises' \in Seq(Tab!Promised) /\ Len(promises') = n + 1 /\ promises'[n + 1] = p
      /\ promises'[i] = q /\ \A j \in 1..n : j # i => promises'[j] = promises[j]
      /\ \A j \in 1..(n + 1) : j \in 1..n \/ j = n + 1
      /\ entry' = n + 1
  <2>1. Len(promises') = n + 1 /\ promises' \in Seq(Tab!Promised) /\ promises'[n + 1] = p
    BY <1>2, <1>4, <1>5
  <2>2. \A j \in 1..n : promises'[j] = [promises EXCEPT ![i] = q][j]
    BY <1>2, <1>4, <1>5
  <2>3. promises'[i] = q /\ \A j \in 1..n : j # i => promises'[j] = promises[j]
    BY <1>1, <2>2 DEF n
  <2> QED
    BY <1>1, <2>1, <2>3 DEF n, Tab!Fresh
<1>8. i = entry
  BY <1>1 DEF Tab!PromiseSound, Tab!ChainEnds
<1>9. \A j \in 1..n : promises[j].state \notin Tab!Pending
  BY <1>1, <1>8 DEF Tab!PromiseSound, Tab!MapKnows, Tab!Pending
<1>10. entry' \in 0..Len(promises') /\ Tab!EntryIsLive'
  BY <1>1, <1>6, <1>7 DEF Tab!EntryIsLive
<1>11. \A j \in 1..Len(promises') :
          /\ promises'[j].after \in 0..Len(promises')
          /\ promises'[j].result.kind \in Tab!Kind <=> promises'[j].state \in Tab!Ended
  <2> SUFFICES ASSUME NEW j \in 1..(n + 1)
               PROVE  /\ promises'[j].after \in 0..(n + 1)
                      /\ promises'[j].result.kind \in Tab!Kind <=> promises'[j].state \in Tab!Ended
    BY <1>7
  <2>1. CASE j = n + 1
    BY <1>1, <1>6, <1>7, <2>1
  <2>2. CASE j = i
    BY <1>1, <1>3, <1>7, <2>2
  <2>3. CASE j \in 1..n /\ j # i
    BY <1>1, <1>7, <2>3
  <2> QED
    BY <1>7, <2>1, <2>2, <2>3
<1>12. ASSUME NEW j \in 1..(n + 1) PROVE Tab!PromiseSound(j)'
  <2>1. CASE j = n + 1
    <3>1. promises'[j] = p /\ entry' = j /\ j # 0
      BY <1>1, <1>7, <2>1
    <3> QED
      BY <1>6, <3>1 DEF Tab!PromiseSound, Tab!MapKnows, Tab!ChainEnds
  <2>2. CASE j = i
    <3>1. promises'[j] = q /\ q.state \notin Tab!Pending /\ q.state \notin Tab!Ended
      BY <1>3, <1>7, <2>2 DEF Tab!Pending, Tab!Ended
    <3>2. q.intent = "manual" /\ q.after # 0 /\ promises'[q.after].intent = "manual"
      BY <1>1, <1>3, <1>6, <1>7 DEF Tab!PromiseSound, Tab!ChainEnds
    <3> QED
      BY <3>1, <3>2 DEF Tab!PromiseSound, Tab!MapKnows, Tab!ChainEnds
  <2>3. CASE j \in 1..n /\ j # i
    <3>1. promises'[j] = promises[j] /\ promises[j].state \notin Tab!Pending
      BY <1>7, <1>9, <2>3
    <3>2. promises[j].state = "chained" =>
             /\ promises[j].intent = "manual" /\ promises[j].after \in 1..n
             /\ promises[promises[j].after].intent = "manual"
      BY <1>1, <1>8, <2>3 DEF Tab!PromiseSound, Tab!ChainEnds
    <3>3. \A k \in 1..n : promises'[k].intent = promises[k].intent
      BY <1>3, <1>7
    <3>4. /\ promises[j].intent = "manual" /\ promises[j].state \in Tab!Ended => Tab!Satisfies(promises[j].result)
          /\ promises[j].intent = "foreground" => promises[j].at <= requestedAt
      BY <1>1, <2>3 DEF Tab!PromiseSound
    <3>5. Tab!MapKnows(j)'
      BY <3>1 DEF Tab!MapKnows
    <3>6. promises[j].state = "chained" => promises'[promises[j].after].intent = "manual"
      BY <3>2, <3>3
    <3>7. Tab!ChainEnds(j)'
      <4>1. promises[j].state = "chained" => promises[j].after # 0
        BY <1>1, <3>2
      <4> QED
        BY <3>1, <3>2, <3>6, <4>1 DEF Tab!ChainEnds
    <3> QED
      BY <3>1, <3>4, <3>5, <3>7 DEF Tab!PromiseSound
  <2> QED
    BY <1>7, <2>1, <2>2, <2>3
<1>13. AllSound'
  BY <1>7, <1>12 DEF AllSound
<1>14. \A j \in 1..n : promises'[j].intent = promises[j].intent /\ promises'[j].at = promises[j].at
  BY <1>3, <1>7
<1>15. Tab!ForegroundIsThrottled'
  <2> SUFFICES ASSUME NEW a \in 1..(n + 1), NEW b \in 1..(n + 1), a < b,
                      promises'[a].intent = "foreground", promises'[b].intent = "foreground"
               PROVE  promises'[b].at - promises'[a].at >= Throttle
    BY <1>7 DEF Tab!ForegroundIsThrottled
  <2>1. a \in 1..n /\ b \in 1..n
    BY <1>6, <1>7
  <2> QED
    BY <1>14, <2>1 DEF Tab!CoordinatorInvariant, Tab!ForegroundIsThrottled, n
<1> QED
  BY <1>7, <1>10, <1>11, <1>13, <1>14, <1>15 DEF n, BookSound

-----------------------------------------------------------------------------
(* The steps.                                                              *)

LEMMA AddStep ==
    ASSUME Tab!CoordinatorInvariant, NEW p \in Tab!Promised, Added(p), BookSound',
           NEW c \in Tab!Caller, waits' = [waits EXCEPT ![c] = Len(promises) + 1],
           c \in Button => p.intent = "manual",
           requestedAt' \in Int, UNCHANGED <<time, got>>
    PROVE  Tab!CoordinatorInvariant'
<1>1. Tab!CoordinatorTypeOK
  BY DEF Tab!CoordinatorInvariant
<1>2. /\ promises' \in Seq(Tab!Promised) /\ Len(promises) \in Nat
      /\ Len(promises') = Len(promises) + 1 /\ promises'[Len(promises) + 1] = p
      /\ \A j \in 1..Len(promises) : promises'[j] = promises[j]
  BY <1>1 DEF Added, Tab!CoordinatorTypeOK
<1>3. \A j \in 1..Len(promises) : j \in 1..Len(promises')
  BY <1>2
<1>4. waits' \in [Tab!Caller -> 0..Len(promises')]
  BY <1>1, <1>2 DEF Tab!CoordinatorTypeOK
<1>5. \A b \in Button : waits'[b] \in {0, waits[b]} \/ promises'[waits'[b]].intent = "manual"
  BY <1>1, <1>2 DEF Tab!CoordinatorTypeOK, Tab!Caller
<1>6. time' \in Nat /\ got' \in [Tab!Caller -> Tab!Result] /\ \A b \in Button : got'[b] = got[b]
  BY <1>1 DEF Tab!CoordinatorTypeOK
<1> QED
  BY <1>2, <1>3, <1>4, <1>5, <1>6, Assembled

LEMMA RewriteStep ==
    ASSUME Tab!CoordinatorInvariant, NEW i \in 1..Len(promises), NEW s \in Tab!Pending \cup Tab!Ended,
           NEW r \in Tab!Result, Tab!Becomes(i, s, r),
           UNCHANGED <<requestedAt, time, waits, got>>,
           s \in Tab!Pending => promises[i].state \in Tab!Pending,
           promises[i].state = "chained" => promises[promises[i].after].state \notin Tab!Pending,
           r.kind \in Tab!Kind <=> s \in Tab!Ended,
           promises[i].intent = "manual" /\ s \in Tab!Ended => Tab!Satisfies(r),
           \/ s # "settled" /\ entry' = entry
           \/ promises[i].state = "answered" /\ entry' = IF entry = i THEN 0 ELSE entry
    PROVE  Tab!CoordinatorInvariant'
<1>1. Tab!CoordinatorTypeOK /\ s \in State
  BY DEF Tab!CoordinatorInvariant, State
<1>2. Rewritten(i, WithState(promises[i], s, r))
  BY <1>1, BecomesRewrites
<1>3. BookSound'
  BY <1>2, RewrittenKeeps
<1>4. /\ promises' \in Seq(Tab!Promised) /\ Len(promises') = Len(promises)
      /\ \A j \in 1..Len(promises) : promises'[j].intent = promises[j].intent
  <2>1. promises' \in Seq(Tab!Promised) /\ Len(promises') = Len(promises)
    BY <1>2 DEF Rewritten
  <2>2. promises'[i].intent = promises[i].intent
    BY <1>2 DEF Rewritten, WithState
  <2>3. \A j \in 1..Len(promises) : j # i => promises'[j] = promises[j]
    BY <1>2 DEF Rewritten
  <2> QED
    BY <2>1, <2>2, <2>3
<1>5. /\ requestedAt' \in Int /\ time' \in Nat /\ got' \in [Tab!Caller -> Tab!Result]
      /\ waits' \in [Tab!Caller -> 0..Len(promises')]
  BY <1>1, <1>4 DEF Tab!CoordinatorTypeOK
<1> QED
  BY <1>3, <1>4, <1>5, Assembled

LEMMA RequestStep ==
    ASSUME Tab!CoordinatorInvariant, NEW c \in Tab!Caller, NEW how \in {"foreground", "manual"},
           Tab!RequestRefresh(c, how), c \in Button => how = "manual",
           requestedAt' = IF how = "foreground" /\ entry = 0 THEN time ELSE requestedAt,
           how = "foreground" /\ entry = 0 => time - requestedAt >= Throttle,
           UNCHANGED <<time, got>>
    PROVE  Tab!CoordinatorInvariant'
<1>1. Tab!CoordinatorTypeOK /\ Throttle \in Nat
  BY PublicationAssumption DEF Tab!CoordinatorInvariant, Tab!CoordinatorAssumption
<1>2. requestedAt' \in Int /\ requestedAt' >= requestedAt
  BY <1>1 DEF Tab!CoordinatorTypeOK
<1>3. CASE /\ entry = 0 /\ Added(Tab!Direct(how))
           /\ entry' = Len(promises) + 1 /\ waits' = [waits EXCEPT ![c] = entry']
  <2> DEFINE p == Tab!Direct(how)
  <2>1. /\ p \in Tab!Promised /\ p.intent = how /\ p.state = "queued" /\ p.after = 0
        /\ p.result = Tab!NoResult /\ p.at = time
    BY <1>1, NewPromise DEF Tab!Direct, Tab!Promise
  <2> HIDE DEF p
  <2>2. \A i \in 1..Len(promises) : promises[i].state \notin Tab!Pending
    BY <1>3 DEF Tab!CoordinatorInvariant, Tab!PromiseSound, Tab!MapKnows
  <2>3. ASSUME NEW i \in 1..Len(promises), promises[i].state = "chained"
        PROVE  promises[promises[i].after].intent = "manual"
    <3>1. i # entry
      BY <1>1, <1>3 DEF Tab!CoordinatorTypeOK
    <3>2. Tab!ChainEnds(i)
      BY DEF Tab!CoordinatorInvariant, Tab!PromiseSound
    <3> QED
      BY <2>3, <3>1, <3>2 DEF Tab!ChainEnds
  <2>4. p.after \in 0..Len(promises)
    BY <1>1, <2>1 DEF Tab!CoordinatorTypeOK
  <2>5. p.intent = "foreground" => p.at <= requestedAt' /\ p.at - requestedAt >= Throttle
    BY <1>1, <1>3, <2>1 DEF Tab!CoordinatorTypeOK
  <2>6. Added(p)
    BY <1>3 DEF p
  <2>7. BookSound'
    BY <1>2, <1>3, <2>1, <2>2, <2>3, <2>4, <2>5, <2>6, AddedKeeps
  <2> QED
    BY <1>2, <1>3, <2>1, <2>6, <2>7, AddStep
<1>4. CASE /\ entry # 0
           /\ how = "manual" => promises[entry].intent = "manual"
           /\ waits' = [waits EXCEPT ![c] = entry] /\ UNCHANGED <<promises, entry>>
  <2>1. UNCHANGED requestedAt
    BY <1>4
  <2>2. BookSound'
    BY <1>4, <2>1 DEF Tab!CoordinatorInvariant, Tab!CoordinatorTypeOK, BookSound, AllSound, Tab!PromiseSound,
                      Tab!MapKnows, Tab!ChainEnds, Tab!EntryIsLive, Tab!ForegroundIsThrottled
  <2>3. waits' \in [Tab!Caller -> 0..Len(promises')] /\ got' \in [Tab!Caller -> Tab!Result]
    BY <1>1, <1>4 DEF Tab!CoordinatorTypeOK
  <2>4. \A b \in Button : waits'[b] \in {0, waits[b]} \/ promises'[waits'[b]].intent = "manual"
    BY <1>1, <1>4 DEF Tab!CoordinatorTypeOK, Tab!Caller
  <2>5. promises' \in Seq(Tab!Promised) /\ time' \in Nat
    BY <1>1, <1>4 DEF Tab!CoordinatorTypeOK
  <2> QED
    BY <1>2, <1>4, <2>2, <2>3, <2>4, <2>5, Assembled
<1>5. CASE /\ entry # 0 /\ how = "manual" /\ promises[entry].intent = "foreground"
           /\ Added(Tab!Promise("manual", "chained", entry))
           /\ entry' = Len(promises) + 1 /\ waits' = [waits EXCEPT ![c] = entry']
  <2> DEFINE p == Tab!Promise("manual", "chained", entry)
  <2>0. entry \in 1..Len(promises) /\ entry \in Nat
    BY <1>1, <1>5 DEF Tab!CoordinatorTypeOK
  <2>1. /\ p \in Tab!Promised /\ p.intent = "manual" /\ p.state = "chained" /\ p.after = entry
        /\ p.result = Tab!NoResult
    BY <1>1, <2>0, NewPromise DEF Tab!Promise
  <2> HIDE DEF p
  <2>2. promises[entry].state # "chained"
    BY <1>5, <2>0 DEF Tab!CoordinatorInvariant, Tab!PromiseSound, Tab!ChainEnds
  <2>3. \A i \in 1..Len(promises) :
           promises[i].state = "chained" => promises[promises[i].after].intent = "manual"
    BY <2>2 DEF Tab!CoordinatorInvariant, Tab!PromiseSound, Tab!ChainEnds
  <2>4. p.after \in 0..Len(promises)
    BY <1>1, <2>1 DEF Tab!CoordinatorTypeOK
  <2>5. Added(p)
    BY <1>5 DEF p
  <2>6. BookSound'
    BY <1>2, <1>5, <2>1, <2>2, <2>3, <2>4, <2>5, AddedKeeps
  <2> QED
    BY <1>2, <1>5, <2>1, <2>5, <2>6, AddStep
<1> QED
  BY <1>3, <1>4, <1>5, RequestsAre

LEMMA CallerSteps ==
    ASSUME Tab!CoordinatorInvariant,
           \/ \E b \in Button : Tab!Press(b)
           \/ \E p \in Page : Tab!Appear(p) \/ Tab!Unmount(p)
           \/ Tab!Tick
           \/ \E c \in Tab!Caller : Tab!Deliver(c)
    PROVE  Tab!CoordinatorInvariant'
<1>1. Tab!CoordinatorTypeOK /\ Page \cap Button = {}
  BY PublicationAssumption DEF Tab!CoordinatorInvariant, Tab!CoordinatorAssumption
<1>2. ASSUME NEW b \in Button, Tab!Press(b) PROVE Tab!CoordinatorInvariant'
  BY <1>2, RequestStep DEF Tab!Press, Tab!Caller
<1>3. ASSUME NEW p \in Page, Tab!Appear(p) PROVE Tab!CoordinatorInvariant'
  <2>1. /\ p \in Tab!Caller /\ p \notin Button /\ Tab!RequestRefresh(p, "foreground")
        /\ entry = 0 => time - requestedAt >= Throttle
        /\ requestedAt' = IF entry = 0 THEN time ELSE requestedAt
        /\ UNCHANGED <<time, got>>
    BY <1>1, <1>3 DEF Tab!Appear, Tab!RequestForeground, Tab!Caller
  <2> QED
    BY <2>1, RequestStep
<1>4. Tab!NoResult \in Tab!Result
  BY DEF Tab!NoResult, Tab!Result
<1>5. ASSUME UNCHANGED <<promises, entry, requestedAt>> PROVE BookSound'
  BY <1>5 DEF Tab!CoordinatorInvariant, Tab!CoordinatorTypeOK, BookSound, AllSound, Tab!PromiseSound,
              Tab!MapKnows, Tab!ChainEnds, Tab!EntryIsLive, Tab!ForegroundIsThrottled
<1>6. ASSUME NEW p \in Page, Tab!Unmount(p) PROVE Tab!CoordinatorInvariant'
  <2>1. waits' \in [Tab!Caller -> 0..Len(promises')] /\ got' \in [Tab!Caller -> Tab!Result]
    <3>1. UNCHANGED promises /\ 0 \in 0..Len(promises)
      BY <1>1, <1>6 DEF Tab!Unmount, Tab!CoordinatorTypeOK
    <3>2. waits' = [waits EXCEPT ![p] = 0] /\ got' = [got EXCEPT ![p] = Tab!NoResult]
      BY <1>6 DEF Tab!Unmount
    <3>3. waits \in [Tab!Caller -> 0..Len(promises)] /\ got \in [Tab!Caller -> Tab!Result]
      BY <1>1 DEF Tab!CoordinatorTypeOK
    <3> QED
      BY <1>4, <3>1, <3>2, <3>3
  <2>2. \A b \in Button : waits'[b] \in {0, waits[b]} /\ got'[b] \in {Tab!NoResult, got[b]}
    BY <1>1, <1>6 DEF Tab!Unmount, Tab!CoordinatorTypeOK, Tab!Caller
  <2> QED
    BY <1>1, <1>5, <1>6, <2>1, <2>2, Assembled DEF Tab!Unmount, Tab!CoordinatorTypeOK
<1>7. ASSUME Tab!Tick PROVE Tab!CoordinatorInvariant'
  BY <1>1, <1>5, <1>7, Assembled DEF Tab!Tick, Tab!CoordinatorTypeOK
<1>8. ASSUME NEW c \in Tab!Caller, Tab!Deliver(c) PROVE Tab!CoordinatorInvariant'
  <2>1. waits[c] \in 1..Len(promises) /\ promises[waits[c]] \in Tab!Promised
    BY <1>1, <1>8 DEF Tab!Deliver, Tab!CoordinatorTypeOK
  <2>2. promises[waits[c]].result \in Tab!Result
    BY <2>1 DEF Tab!Promised
  <2>3. waits' \in [Tab!Caller -> 0..Len(promises')] /\ got' \in [Tab!Caller -> Tab!Result]
    BY <1>1, <1>8, <2>2 DEF Tab!Deliver, Tab!CoordinatorTypeOK
  <2>4. c \in Button => Tab!Satisfies(promises[waits[c]].result)
    BY <1>8, <2>1 DEF Tab!Deliver, Tab!CoordinatorInvariant, Tab!PromiseSound, Tab!Ended
  <2>5. \A b \in Button : waits'[b] \in {0, waits[b]}
    BY <1>1, <1>8 DEF Tab!Deliver, Tab!CoordinatorTypeOK, Tab!Caller
  <2>6. \A b \in Button : got'[b] \in {Tab!NoResult, got[b]} \/ Tab!Satisfies(got'[b])
    BY <1>1, <1>8, <2>4 DEF Tab!Deliver, Tab!CoordinatorTypeOK, Tab!Caller
  <2> QED
    BY <1>1, <1>5, <1>8, <2>3, <2>5, <2>6, Assembled DEF Tab!Deliver, Tab!CoordinatorTypeOK
<1> QED
  BY <1>2, <1>3, <1>6, <1>7, <1>8

LEMMA PromiseSteps ==
    ASSUME Tab!CoordinatorInvariant, NEW i \in DOMAIN promises,
           Tab!Launch(i) \/ (\E k \in Tab!Kind : Tab!Respond(i, k)) \/ Tab!Continue(i) \/ Tab!Finally(i)
    PROVE  Tab!CoordinatorInvariant'
<1>1. /\ Tab!CoordinatorTypeOK /\ i \in 1..Len(promises) /\ promises[i] \in Tab!Promised
      /\ promises[i].after \in 0..Len(promises) /\ Tab!PromiseSound(i)
      /\ promises[i].result.kind \in Tab!Kind <=> promises[i].state \in Tab!Ended
  BY DEF Tab!CoordinatorInvariant, Tab!CoordinatorTypeOK
<1>2. Tab!NoResult \in Tab!Result /\ Tab!NoResult.kind \notin Tab!Kind
  BY DEF Tab!NoResult, Tab!Result, Tab!Kind
<1>3. CASE Tab!Launch(i)
  <2>1. "calling" \in Tab!Pending /\ "calling" \notin Tab!Ended /\ "queued" \in Tab!Pending
    BY DEF Tab!Pending, Tab!Ended
  <2> QED
    BY <1>1, <1>2, <1>3, <2>1, RewriteStep DEF Tab!Launch
<1>4. ASSUME NEW k \in Tab!Kind, Tab!Respond(i, k) PROVE Tab!CoordinatorInvariant'
  <2> DEFINE r == [kind |-> k, by |-> promises[i].intent]
  <2>1. "answered" \in Tab!Ended /\ "answered" \notin Tab!Pending
    BY DEF Tab!Pending, Tab!Ended
  <2>2. r \in Tab!Result /\ r.kind \in Tab!Kind /\ r.by = promises[i].intent
    BY <1>1 DEF Tab!Promised, Tab!Result
  <2>3. promises[i].intent = "manual" => Tab!Satisfies(r)
    BY <2>2 DEF Tab!Satisfies
  <2>4. Tab!Becomes(i, "answered", r) /\ promises[i].state = "calling"
    BY <1>4 DEF Tab!Respond
  <2> HIDE DEF r
  <2> QED
    BY <1>1, <1>4, <2>1, <2>2, <2>3, <2>4, RewriteStep DEF Tab!Respond
<1>5. CASE Tab!Finally(i)
  <2>1. "settled" \in Tab!Ended /\ "settled" \notin Tab!Pending /\ "answered" \in Tab!Ended
    BY DEF Tab!Pending, Tab!Ended
  <2>2. promises[i].state = "answered" /\ promises[i].result \in Tab!Result
    BY <1>1, <1>5 DEF Tab!Finally, Tab!Promised
  <2>3. promises[i].intent = "manual" => Tab!Satisfies(promises[i].result)
    BY <1>1, <2>1, <2>2 DEF Tab!PromiseSound
  <2> QED
    BY <1>1, <1>5, <2>1, <2>2, <2>3, RewriteStep DEF Tab!Finally
<1>6. CASE Tab!Continue(i)
  <2> DEFINE before == promises[promises[i].after]
  <2>0. promises[i].intent = "manual" /\ promises[i].after \in 1..Len(promises)
    BY <1>1, <1>6 DEF Tab!Continue, Tab!PromiseSound, Tab!ChainEnds
  <2>1. /\ promises[i].state = "chained" /\ before.state = "settled" /\ before \in Tab!Promised
        /\ before.result \in Tab!Result
    <3>1. promises[i].state = "chained" /\ before.state = "settled"
      BY <1>6 DEF Tab!Continue
    <3>2. before \in Tab!Promised
      BY <1>1, <2>0 DEF Tab!CoordinatorTypeOK
    <3>3. before.result \in Tab!Result
      BY <3>2 DEF Tab!Promised
    <3> QED
      BY <3>1, <3>2, <3>3
  <2>2. before.result.kind \in Tab!Kind /\ (before.intent = "manual" => Tab!Satisfies(before.result))
    BY <2>0, <2>1 DEF Tab!CoordinatorInvariant, Tab!CoordinatorTypeOK, Tab!PromiseSound, Tab!Ended
  <2>3. CASE before.intent = "manual" \/ before.result.kind = "refreshed"
    <3>1. Tab!Becomes(i, "answered", before.result) /\ UNCHANGED <<entry, requestedAt, time, waits, got>>
      BY <1>6, <2>3 DEF Tab!Continue
    <3>2. Tab!Satisfies(before.result)
      BY <2>2, <2>3 DEF Tab!Satisfies
    <3>3. /\ "answered" \in Tab!Ended /\ "answered" \notin Tab!Pending /\ "settled" \notin Tab!Pending
      BY DEF Tab!Pending, Tab!Ended
    <3> HIDE DEF before
    <3>4. promises[promises[i].after].state \notin Tab!Pending
      BY <2>1, <3>3 DEF before
    <3> QED
      BY <1>1, <2>1, <2>2, <3>1, <3>2, <3>3, <3>4, RewriteStep
  <2>4. CASE ~(before.intent = "manual" \/ before.result.kind = "refreshed")
    <3>1. /\ promises' = Append([promises EXCEPT ![i].after = Tab!Fresh], Tab!Direct("manual"))
          /\ entry' = Tab!Fresh /\ UNCHANGED <<requestedAt, time, waits, got>>
      BY <1>6, <2>4 DEF Tab!Continue
    <3>2. /\ promises' \in Seq(Tab!Promised) /\ Len(promises') = Len(promises) + 1
          /\ \A j \in 1..Len(promises) : promises'[j].intent = promises[j].intent
          /\ BookSound'
      BY <1>1, <2>1, <2>4, <3>1, ContinueKeeps
    <3>3. Len(promises) \in Nat /\ \A j \in 1..Len(promises) : j \in 1..Len(promises')
      BY <1>1, <3>2 DEF Tab!CoordinatorTypeOK
    <3>4. /\ requestedAt' \in Int /\ time' \in Nat /\ got' \in [Tab!Caller -> Tab!Result]
          /\ waits' \in [Tab!Caller -> 0..Len(promises')]
      BY <1>1, <3>1, <3>2 DEF Tab!CoordinatorTypeOK
    <3> QED
      BY <3>1, <3>2, <3>3, <3>4, Assembled
  <2> QED
    BY <2>3, <2>4
<1> QED
  BY <1>3, <1>4, <1>5, <1>6

LEMMA CoordinatorInit == Tab!Init => Tab!CoordinatorInvariant
<1> SUFFICES ASSUME Tab!Init PROVE Tab!CoordinatorInvariant
  OBVIOUS
<1>1. promises = <<>> /\ Len(promises) = 0 /\ promises \in Seq(Tab!Promised) /\ entry = 0 /\ time = 0
  BY DEF Tab!Init
<1>2. Tab!CoordinatorTypeOK
  BY <1>1, PublicationAssumption
     DEF Tab!Init, Tab!CoordinatorTypeOK, Tab!CoordinatorAssumption, Tab!NoResult, Tab!Result
<1>3. /\ Tab!OneCallAtATime /\ Tab!EntryIsLive /\ Tab!ForegroundIsThrottled
      /\ \A i \in 1..Len(promises) : Tab!PromiseSound(i)
  BY <1>1 DEF Tab!OneCallAtATime, Tab!EntryIsLive, Tab!ForegroundIsThrottled
<1>4. /\ Tab!ManualIsAnswered
      /\ \A b \in Button : waits[b] # 0 => promises[waits[b]].intent = "manual"
  BY DEF Tab!Init, Tab!ManualIsAnswered, Tab!Caller
<1> QED
  BY <1>2, <1>3, <1>4 DEF Tab!CoordinatorInvariant

LEMMA CoordinatorStep == Tab!CoordinatorInvariant /\ [Tab!Next]_Tab!vars => Tab!CoordinatorInvariant'
<1> SUFFICES ASSUME Tab!CoordinatorInvariant, [Tab!Next]_Tab!vars PROVE Tab!CoordinatorInvariant'
  OBVIOUS
<1>1. CASE Tab!Next
  BY <1>1, CallerSteps, PromiseSteps DEF Tab!Next, Tab!Microtask
<1>2. CASE UNCHANGED Tab!vars
  BY <1>2 DEF Tab!vars, Tab!CoordinatorInvariant, Tab!CoordinatorTypeOK, Tab!PromiseSound,
              Tab!MapKnows, Tab!ChainEnds,
              Tab!OneCallAtATime, Tab!EntryIsLive, Tab!ManualIsAnswered, Tab!ForegroundIsThrottled
<1> QED
  BY <1>1, <1>2

(* However requests, answers and continuations of a tab interleave: one     *)
(* request at a time, none forgotten in the map, every button answered as   *)
(* it asked, foreground work throttled (RefreshCoordinator).                *)
THEOREM RefreshesStayJoined == Tab!Spec => []RefreshesAreJoined
BY CoordinatorInit, CoordinatorStep, PTL DEF Tab!Spec, RefreshesAreJoined

-----------------------------------------------------------------------------
(* What a page shows.  Of the rows that may be in the archive the decoder  *)
(* accepts those this release built and no other: another release differs  *)
(* in its version, its policy or its sources, and a damaged row in a field *)
(* that its hash covers.                                                   *)

(* What a page makes of a row.                                             *)
Readable(s) == s # Row!Nothing /\ Row!HashValid(s) /\ Row!Refusal(s) = "none" /\ Row!Learner(s)

LEMMA Projects ==
    ASSUME Row!ContractTypeOK
    PROVE  /\ project \in {"kuzushiji", "western-art-history", "philosophy"}
           /\ MaxRows[project] \in Nat /\ RowTime[project] \in Nat \ {0}
           /\ now \in Nat /\ Window \in Nat \ {0}
BY PublicationAssumption DEF Row!ContractAssumption, Row!ContractTypeOK

LEMMA OwnVersion ==
    ASSUME project \in {"kuzushiji", "western-art-history", "philosophy"}
    PROVE  /\ Row!Own # Row!Former /\ Row!Own # Row!Later /\ Row!Own # "none" /\ Row!Later # Row!Former
           /\ project = "kuzushiji" <=> Row!Own = "kuzushiji-v2"
BY DEF Row!Own, Row!Former, Row!Later

LEMMA ReadStates ==
    /\ Row!Renderable(Row!ReadState) <=> Readable(row)
    /\ Row!Renderable(Row!ReadState) =>
          Row!ReadState = Row!Shown(row, IF row.until <= now THEN "stale" ELSE "ready")
    /\ ~Row!Renderable(Row!ReadState) =>
          Row!ReadState.size = "none" /\ Row!ReadState.kind \in {"missing", "invalid-candidate"}
<1>1. CASE row # Row!Nothing /\ ~Row!HashValid(row)
  BY <1>1 DEF Row!ReadState, Row!Silent, Row!Renderable, Readable
<1>2. CASE row = Row!Nothing
  BY <1>2 DEF Row!ReadState, Row!Decoded, Row!Silent, Row!Renderable, Readable
<1>3. CASE row # Row!Nothing /\ Row!HashValid(row) /\ Row!Refusal(row) # "none"
  BY <1>3 DEF Row!ReadState, Row!Decoded, Row!Silent, Row!Renderable, Readable
<1>4. CASE row # Row!Nothing /\ Row!HashValid(row) /\ Row!Refusal(row) = "none" /\ ~Row!Learner(row)
  BY <1>4 DEF Row!ReadState, Row!Decoded, Row!Silent, Row!Renderable, Readable
<1>5. CASE Readable(row)
  <2>1. Row!ReadState = Row!Shown(row, IF row.until <= now THEN "stale" ELSE "ready")
    BY <1>5 DEF Row!ReadState, Row!Decoded, Readable
  <2>2. Row!Renderable(Row!ReadState)
    BY <2>1 DEF Row!Shown, Row!Renderable
  <2> QED
    BY <1>5, <2>1, <2>2
<1> QED
  BY <1>1, <1>2, <1>3, <1>4, <1>5 DEF Readable

LEMMA ShownStates ==
    ASSUME NEW s, NEW kind \in {"ready", "stale"}
    PROVE  /\ Row!Renderable(Row!Shown(s, kind)) /\ Row!Shown(s, kind).kind = kind
           /\ Row!Shown(s, kind).data = s /\ Row!Shown(s, kind).at = now
           /\ Row!Shown(s, kind).size # "none"
BY DEF Row!Shown, Row!Renderable, Row!Size

-----------------------------------------------------------------------------
(* The rows.                                                               *)

Fields(v, p, s, c, d, g, r, u, h) ==
    [version |-> v, policy |-> p, sources |-> s, complete |-> c, decisions |-> d, pages |-> g,
     readAt |-> r, until |-> u, hash |-> h]

LEMMA SnapshotFields ==
    ASSUME NEW version, NEW policy, NEW sources, NEW decisions, NEW pages, NEW readAt \in Nat
    PROVE  LET s == Row!Snapshot(version, policy, sources, decisions, pages, readAt)
           IN  /\ Row!Envelope(s) /\ Row!HashValid(s)
               /\ s.version = version /\ s.policy = policy /\ s.sources = sources /\ s.complete
               /\ s.decisions = decisions /\ s.pages = pages
               /\ s.readAt = readAt /\ s.until = readAt + Window
<1> DEFINE t(k) == Fields(version, policy, sources, TRUE, decisions, pages, readAt, readAt + Window, k)
           h    == <<version, policy, sources, TRUE, decisions, pages>>
           s    == Row!Snapshot(version, policy, sources, decisions, pages, readAt)
<1>1. \A k : Row!Hash(t(k)) = h
  BY DEF Row!Hash, Fields
<1>2. s = [t(<<>>) EXCEPT !.hash = Row!Hash(t(<<>>))]
  BY DEF Row!Snapshot, Row!Sealed, Fields
<1>3. PICK u : u = t(<<>>) /\ s = [u EXCEPT !.hash = Row!Hash(u)]
  BY <1>2, Zenon
<1>4. s = t(h)
  <2> HIDE DEF s, h, t
  <2>1. Row!Hash(u) = h
    BY <1>1, <1>3
  <2>2. s = [u EXCEPT !.hash = h]
    BY <1>3, <2>1
  <2> QED
    <3>1. ASSUME NEW c, NEW w, u = Fields(version, policy, sources, c, decisions, pages, readAt, w, <<>>)
          PROVE  [u EXCEPT !.hash = h]
                    = Fields(version, policy, sources, c, decisions, pages, readAt, w, h)
      BY <3>1 DEF Fields
    <3>2. [u EXCEPT !.hash = h] = t(h)
      BY <1>3, <3>1 DEF t
    <3> QED
      BY <2>2, <3>2
<1>5. t(h).hash = h
  <2> HIDE DEF h
  <2> QED
    BY DEF Fields
<1>6. Row!HashValid(s)
  <2> HIDE DEF s, h, t
  <2> QED
    BY <1>1, <1>4, <1>5 DEF Row!HashValid
<1>7. Row!Envelope(s)
  BY <1>4 DEF Row!Envelope, Fields
<1> QED
  BY <1>4, <1>6, <1>7 DEF Fields

LEMMA EnvelopeIsSomething == ASSUME NEW s, Row!Envelope(s) PROVE s # Row!Nothing
BY DEF Row!Envelope, Row!Nothing

(* What this release builds, its decoder accepts.                          *)
LEMMA BuiltIsReadable ==
    ASSUME Row!ContractTypeOK, NEW pages, NEW readAt \in Nat
    PROVE  /\ Row!Envelope(Row!Built(pages, readAt)) /\ Readable(Row!Built(pages, readAt))
           /\ Row!Built(pages, readAt).until = Row!Built(pages, readAt).readAt + Window
           /\ Row!Built(pages, readAt).readAt = readAt
<1> DEFINE s == Row!Built(pages, readAt)
<1>1. CASE project = "kuzushiji"
  <2>1. s = Row!Snapshot("kuzushiji-v2", "phase4b-v1", Source, Row!Decisions(pages), pages, readAt)
    BY <1>1 DEF Row!Built, Row!KuzushijiSnapshot
  <2> HIDE DEF s
  <2>2. /\ Row!Envelope(s) /\ Row!HashValid(s)
        /\ s.version = "kuzushiji-v2" /\ s.policy = "phase4b-v1"
        /\ s.sources = Source /\ s.complete /\ s.until = s.readAt + Window
        /\ s.readAt = readAt
    BY <2>1, SnapshotFields
  <2>3. Row!Refusal(s) = "none"
    BY <1>1, <2>2 DEF Row!Refusal, Row!Evidence, Row!Later, Row!Former
  <2>4. Row!Learner(s) /\ s # Row!Nothing
    BY <1>1, <2>2, EnvelopeIsSomething DEF Row!Learner, Row!Own
  <2> QED
    BY <2>2, <2>3, <2>4 DEF Readable, s
<1>2. CASE project # "kuzushiji"
  <2>1. s = Row!Snapshot(Row!Own, "not-applicable", Source, <<>>, pages, readAt)
    BY <1>2 DEF Row!Built, Row!ProjectSnapshot
  <2> HIDE DEF s
  <2>2. /\ Row!Envelope(s) /\ Row!HashValid(s) /\ s.version = Row!Own /\ s.policy = "not-applicable"
        /\ s.decisions = <<>> /\ s.until = s.readAt + Window
        /\ s.readAt = readAt
    BY <2>1, SnapshotFields
  <2>3. Row!Own # "kuzushiji-v2" /\ Row!Own # Row!Later /\ Row!Own # Row!Former
    BY <1>2, Projects, OwnVersion
  <2>4. Row!Refusal(s) = "none"
    BY <1>2, <2>2, <2>3 DEF Row!Refusal, Row!NoScope
  <2>5. Row!Learner(s) /\ s # Row!Nothing
    BY <2>2, EnvelopeIsSomething DEF Row!Learner
  <2> QED
    BY <2>2, <2>4, <2>5 DEF Readable, s
<1> QED
  BY <1>1, <1>2

(* What another release writes, it does not.                               *)
LEMMA FormerIsNotReadable ==
    ASSUME Row!ContractTypeOK, NEW pages, NEW readAt \in Nat
    PROVE  /\ Row!Envelope(Row!FormerSnapshot(pages, readAt))
           /\ ~Readable(Row!FormerSnapshot(pages, readAt))
<1> DEFINE s == Row!FormerSnapshot(pages, readAt)
<1>1. s = Row!Snapshot(Row!Former, "phase4b-v1", Source, Row!Decisions(pages), pages, readAt)
  BY DEF Row!FormerSnapshot
<1> HIDE DEF s
<1>2. Row!Envelope(s) /\ s.version = Row!Former
  BY <1>1, SnapshotFields
<1> QED
  BY <1>2, Projects, OwnVersion DEF Readable, Row!Learner, s

LEMMA LaterIsNotReadable ==
    ASSUME Row!ContractTypeOK, NEW version \in {Row!Own, Row!Later}, NEW policy \in {Row!Policy, Row!Newer},
           NEW more \in {{}, {"another"}}, NEW pages, NEW readAt \in Nat,
           version # Row!Own \/ policy # Row!Policy \/ more # {}, ~Row!InTerms(version, policy, more)
    PROVE  LET s == Row!Snapshot(version, policy, Source \cup more, Row!Decisions(pages), pages, readAt)
           IN  Row!Envelope(s) /\ ~Readable(s)
<1> DEFINE s == Row!Snapshot(version, policy, Source \cup more, Row!Decisions(pages), pages, readAt)
<1>1. Row!Envelope(s) /\ s.version = version /\ s.policy = policy /\ s.sources = Source \cup more
  BY SnapshotFields
<1> HIDE DEF s
<1>2. /\ project \in {"kuzushiji", "western-art-history", "philosophy"}
      /\ Row!Own # Row!Former /\ Row!Own # Row!Later
      /\ project = "kuzushiji" <=> Row!Own = "kuzushiji-v2"
      /\ version = Row!Own => policy = Row!Newer \/ (project = "kuzushiji" /\ more # {})
  BY Projects, OwnVersion DEF Row!InTerms
<1>3. Row!Refusal(s) # "none"
  <2>1. CASE version = Row!Later
    BY <1>1, <2>1 DEF Row!Refusal
  <2>2. CASE version = Row!Own /\ project = "kuzushiji"
    <3>1. ~Row!Evidence(s)
      BY <1>1, <1>2, <2>2, PublicationAssumption DEF Row!Evidence, Row!Newer, Row!ContractAssumption
    <3> QED
      BY <1>1, <1>2, <2>2, <3>1 DEF Row!Refusal
  <2>3. CASE version = Row!Own /\ project # "kuzushiji"
    <3>1. ~Row!NoScope(s)
      BY <1>1, <1>2, <2>3 DEF Row!NoScope, Row!Newer
    <3> QED
      BY <1>1, <1>2, <2>3, <3>1 DEF Row!Refusal
  <2> QED
    BY <2>1, <2>2, <2>3
<1> QED
  BY <1>1, <1>3 DEF Readable, s

(* But one source more, where there is no scope, it does.                  *)
LEMMA InTermsIsReadable ==
    ASSUME Row!ContractTypeOK, NEW version \in {Row!Own, Row!Later}, NEW policy \in {Row!Policy, Row!Newer},
           NEW more \in {{}, {"another"}}, NEW pages, NEW readAt \in Nat,
           version # Row!Own \/ policy # Row!Policy \/ more # {}, Row!InTerms(version, policy, more)
    PROVE  \E s : /\ s = Row!Snapshot(version, policy, Source \cup more, Row!Decisions(pages), pages, readAt)
                  /\ Row!Envelope(s) /\ Readable(s)
                  /\ s.until = s.readAt + Window /\ s.readAt = readAt
<1> DEFINE s == Row!Snapshot(version, policy, Source \cup more, Row!Decisions(pages), pages, readAt)
<1>1. project # "kuzushiji" /\ version = Row!Own /\ policy = "not-applicable" /\ Row!Decisions(pages) = <<>>
  BY DEF Row!InTerms, Row!Policy, Row!Decisions
<1>2. /\ Row!Envelope(s) /\ Row!HashValid(s) /\ s.version = Row!Own /\ s.policy = "not-applicable"
      /\ s.decisions = <<>> /\ s.until = s.readAt + Window /\ s.readAt = readAt
  BY <1>1, SnapshotFields
<1> HIDE DEF s
<1>3. Row!Own # "kuzushiji-v2" /\ Row!Own # Row!Later /\ Row!Own # Row!Former
  BY <1>1, Projects, OwnVersion
<1>4. Row!Refusal(s) = "none"
  BY <1>1, <1>2, <1>3 DEF Row!Refusal, Row!NoScope
<1>5. Row!Learner(s) /\ s # Row!Nothing
  BY <1>2, EnvelopeIsSomething DEF Row!Learner
<1> QED
  BY <1>2, <1>4, <1>5 DEF Readable, s

(* A hash shows that a hashed field has changed.                           *)
LEMMA DamageShows ==
    ASSUME NEW s, NEW t, Row!Envelope(s), Row!HashValid(s), t # s,
           \/ \E v : t = [s EXCEPT !.version = v]
           \/ \E v : t = [s EXCEPT !.policy = v]
           \/ \E v : t = [s EXCEPT !.complete = v]
           \/ \E v : t = [s EXCEPT !.pages = v]
           \/ \E v : t = [s EXCEPT !.decisions = v]
    PROVE  Row!Envelope(t) /\ ~Row!HashValid(t)
<1>1. ASSUME NEW v, t = [s EXCEPT !.version = v] PROVE Row!Envelope(t) /\ ~Row!HashValid(t)
  BY <1>1 DEF Row!Envelope, Row!HashValid, Row!Hash
<1>2. ASSUME NEW v, t = [s EXCEPT !.policy = v] PROVE Row!Envelope(t) /\ ~Row!HashValid(t)
  BY <1>2 DEF Row!Envelope, Row!HashValid, Row!Hash
<1>3. ASSUME NEW v, t = [s EXCEPT !.complete = v] PROVE Row!Envelope(t) /\ ~Row!HashValid(t)
  BY <1>3 DEF Row!Envelope, Row!HashValid, Row!Hash
<1>4. ASSUME NEW v, t = [s EXCEPT !.pages = v] PROVE Row!Envelope(t) /\ ~Row!HashValid(t)
  BY <1>4 DEF Row!Envelope, Row!HashValid, Row!Hash
<1>5. ASSUME NEW v, t = [s EXCEPT !.decisions = v] PROVE Row!Envelope(t) /\ ~Row!HashValid(t)
  BY <1>5 DEF Row!Envelope, Row!HashValid, Row!Hash
<1> QED
  BY <1>1, <1>2, <1>3, <1>4, <1>5
-----------------------------------------------------------------------------
(* The steps.                                                              *)

(* What the rows must be for the pages to show what they ought to.         *)
RowsSound ==
    /\ \A s \in genuine : Readable(s) /\ s.until = s.readAt + Window
    /\ Readable(row) => row \in genuine

LEMMA ReadableStays ==
    ASSUME UNCHANGED project, NEW s
    PROVE  Readable(s)' <=> Readable(s)
BY DEF Readable, Row!HashValid, Row!Refusal, Row!Learner, Row!Own, Row!NoScope

LEMMA SoundRows == Row!ContractInvariant => RowsSound
<1> SUFFICES ASSUME Row!ContractInvariant PROVE RowsSound
  OBVIOUS
<1>1. project \in {"kuzushiji", "western-art-history", "philosophy"}
  BY Projects DEF Row!ContractInvariant
<1>2. ASSUME NEW s \in genuine PROVE s # Row!Nothing
  <2>1. s.version # "none"
    BY <1>1, OwnVersion DEF Row!ContractInvariant, Row!GenuineIsSound, Row!Learner
  <2> QED
    BY <2>1 DEF Row!Nothing
<1> QED
  BY <1>2, ReadStates
     DEF Row!ContractInvariant, Row!GenuineIsSound, Row!OnlyGenuineIsReadable, RowsSound, Readable

LEMMA RowsAssemble ==
    RowsSound => Row!GenuineIsSound /\ Row!OnlyGenuineIsReadable /\ Row!PublishedIsShown
BY ReadStates
   DEF RowsSound, Row!GenuineIsSound, Row!OnlyGenuineIsReadable, Row!PublishedIsShown, Readable

(* A step that leaves the pages alone.                                     *)
LEMMA RowStep ==
    ASSUME Row!ContractInvariant, Row!ContractTypeOK', RowsSound', genuine \subseteq genuine',
           UNCHANGED <<project, shown>>
    PROVE  Row!ContractInvariant'
<1>1. Row!GenuineIsSound' /\ Row!OnlyGenuineIsReadable' /\ Row!PublishedIsShown'
  BY DEF RowsSound, Row!GenuineIsSound, Row!OnlyGenuineIsReadable, Row!PublishedIsShown, Readable,
         Row!ReadState, Row!Decoded, Row!Silent, Row!Shown, Row!Renderable
<1>2. Row!ShownWasPublished' /\ Row!ReadyIsRecent'
  BY DEF Row!ContractInvariant, Row!ShownWasPublished, Row!ReadyIsRecent, Row!Renderable
<1>3. Row!EmptyWasRead'
  BY DEF Row!ContractInvariant, Row!EmptyWasRead, Row!Graph, Row!Renderable
<1> QED
  BY <1>1, <1>2, <1>3 DEF Row!ContractInvariant

LEMMA OpenStep == Row!ContractInvariant /\ (Row!Open \/ Row!OpenFails) => Row!ContractInvariant'
<1> SUFFICES ASSUME Row!ContractInvariant, Row!Open \/ Row!OpenFails PROVE Row!ContractInvariant'
  OBVIOUS
<1>1. RowsSound /\ Row!ContractTypeOK /\ now \in Nat /\ Window \in Nat
  BY SoundRows, Projects DEF Row!ContractInvariant
<1>2. UNCHANGED <<project, now, reading, row, genuine, rows>>
  BY DEF Row!Open, Row!OpenFails
<1>3. Row!GenuineIsSound' /\ Row!OnlyGenuineIsReadable' /\ Row!PublishedIsShown'
  <2>1. RowsSound'
    BY <1>1, <1>2, ReadableStays DEF RowsSound
  <2> QED
    BY <2>1 DEF RowsSound, Row!GenuineIsSound, Row!OnlyGenuineIsReadable, Row!PublishedIsShown, Readable,
                Row!ReadState, Row!Decoded, Row!Silent, Row!Shown, Row!Renderable
<1>4. CASE shown' = Row!ReadState /\ Row!Renderable(Row!ReadState)
  <2> DEFINE kind == IF row.until <= now THEN "stale" ELSE "ready"
  <2>1. /\ Row!Renderable(shown') /\ shown'.kind = kind /\ kind \in {"ready", "stale"}
        /\ shown'.data = row /\ shown'.at = now /\ shown'.size # "none"
    BY <1>4, ReadStates, ShownStates
  <2>2. row \in genuine /\ row.until = row.readAt + Window
    BY <1>1, <1>4, ReadStates DEF RowsSound
  <2>3. Row!ReadyIsRecent'
    <3>1. row.readAt \in Nat
      BY <1>1, <2>2 DEF Row!ContractTypeOK
    <3>2. row.until <= now \/ now < row.readAt + Window
      BY <1>1, <2>2, <3>1
    <3> QED
      BY <2>1, <3>2 DEF Row!ReadyIsRecent
  <2>4. Row!ShownWasPublished'
    BY <1>2, <2>1, <2>2 DEF Row!ShownWasPublished
  <2>5. Row!EmptyWasRead'
    BY <1>2, <2>1, <2>2 DEF Row!EmptyWasRead, Row!Graph
  <2>6. Row!ContractTypeOK'
    BY <1>1, <1>2, <2>1 DEF Row!ContractTypeOK
  <2> QED
    BY <1>3, <2>3, <2>4, <2>5, <2>6 DEF Row!ContractInvariant
<1>5. CASE shown' = Row!ReadState /\ ~Row!Renderable(Row!ReadState)
  <2>1. ~Row!Renderable(shown') /\ shown'.size = "none" /\ shown'.kind \in {"missing", "invalid-candidate"}
    BY <1>5, ReadStates
  <2> QED
    BY <1>1, <1>2, <1>3, <2>1
       DEF Row!ContractInvariant, Row!ContractTypeOK, Row!ShownWasPublished, Row!ReadyIsRecent,
           Row!EmptyWasRead, Row!Graph, Row!Renderable
<1>6. CASE Row!OpenFails
  <2>1. shown'.kind = "unavailable" /\ shown'.size = "none"
    BY <1>6 DEF Row!OpenFails, Row!Silent
  <2> QED
    BY <1>1, <1>2, <1>3, <2>1
       DEF Row!ContractInvariant, Row!ContractTypeOK, Row!ShownWasPublished, Row!ReadyIsRecent,
           Row!EmptyWasRead, Row!Graph, Row!Renderable
<1> QED
  BY <1>4, <1>5, <1>6 DEF Row!Open

LEMMA NoPages == <<>> \in Row!Pages
<1>1. <<>> \in [{} -> Row!Mastery]
  BY DEF Row!Mastery
<1> QED
  BY <1>1 DEF Row!Pages

(* The row becomes one that this release reads.                            *)
LEMMA OwnRow ==
    ASSUME Row!ContractInvariant, UNCHANGED <<project, now, shown>>,
           reading' = reading \/ reading' \in [under : BOOLEAN, at : 0..RowTime[project], pages : Row!Pages],
           NEW s, row' = s, genuine' = genuine \cup {s}, rows' \in 0..MaxRows[project],
           Row!Envelope(s), Readable(s), s.until = s.readAt + Window, s.readAt \in Nat
    PROVE  Row!ContractInvariant'
<1>1. RowsSound /\ Row!ContractTypeOK
  BY SoundRows DEF Row!ContractInvariant
<1>2. Row!Envelope(row')
  OBVIOUS
<1>3. Row!ContractTypeOK'
  BY <1>1, <1>2 DEF Row!ContractTypeOK, Row!Renderable, Row!Envelope
<1>4. \A g \in genuine' : Readable(g)' /\ g.until = g.readAt + Window
  BY <1>1, ReadableStays DEF RowsSound
<1>5. RowsSound'
  BY <1>4 DEF RowsSound
<1> QED
  BY <1>3, <1>5, RowStep

(* The publishers of this release; no row is touched before one is done.   *)
LEMMA PublisherStep ==
    ASSUME Row!ContractInvariant, Row!Tick \/ Row!ReadSource \/ Row!Publish \/ Row!Abandon
    PROVE  Row!ContractInvariant'
<1>1. RowsSound /\ Row!ContractTypeOK /\ UNCHANGED <<project, shown>>
  BY SoundRows DEF Row!ContractInvariant, Row!Tick, Row!ReadSource, Row!Publish, Row!Abandon
<1>2. /\ now \in Nat /\ MaxRows[project] \in Nat /\ RowTime[project] \in Nat \ {0} /\ rows \in Nat
      /\ now <= RowTime[project] /\ rows <= MaxRows[project] /\ now >= 1
  BY <1>1, Projects DEF Row!ContractTypeOK
<1>3. CASE Row!Tick \/ Row!ReadSource \/ Row!Abandon
  <2>1. UNCHANGED <<project, row, genuine, rows, shown>>
    BY <1>3 DEF Row!Tick, Row!ReadSource, Row!Abandon
  <2>2. now' \in 1..RowTime[project]
    BY <1>2, <1>3 DEF Row!Tick, Row!ReadSource, Row!Abandon
  <2>3. reading' \in [under : BOOLEAN, at : 0..RowTime[project], pages : Row!Pages]
    <3>1. Row!NoReading \in [under : BOOLEAN, at : 0..RowTime[project], pages : Row!Pages]
      BY <1>2, NoPages DEF Row!NoReading
    <3>2. now \in 0..RowTime[project]
      BY <1>2
    <3> QED
      <4>1. CASE UNCHANGED reading \/ reading' = Row!NoReading
        BY <1>1, <3>1, <4>1 DEF Row!ContractTypeOK
      <4>2. CASE \E pages \in Row!Pages : reading' = [under |-> TRUE, at |-> now, pages |-> pages]
        BY <3>2, <4>2
      <4> QED
        BY <1>3, <4>1, <4>2 DEF Row!Tick, Row!ReadSource, Row!Abandon
  <2>4. Row!ContractTypeOK'
    BY <1>1, <2>1, <2>2, <2>3 DEF Row!ContractTypeOK, Row!Renderable, Row!Envelope
  <2>5. RowsSound'
    BY <1>1, <2>1, ReadableStays DEF RowsSound
  <2> QED
    BY <1>1, <2>1, <2>4, <2>5, RowStep
<1>4. CASE Row!Publish
  <2> DEFINE s == Row!Built(reading.pages, reading.at)
  <2>1. /\ row' = s /\ genuine' = genuine \cup {s} /\ rows' = rows + 1 /\ rows < MaxRows[project]
        /\ reading' = Row!NoReading /\ UNCHANGED <<project, now, shown>>
    BY <1>4 DEF Row!Publish
  <2>2. reading.at \in Nat
    BY <1>1, <1>2 DEF Row!ContractTypeOK
  <2>3. Row!Envelope(s) /\ Readable(s) /\ s.until = s.readAt + Window /\ s.readAt \in Nat
    BY <1>1, <2>2, BuiltIsReadable
  <2> HIDE DEF s
  <2>4. Row!NoReading \in [under : BOOLEAN, at : 0..RowTime[project], pages : Row!Pages]
    BY <1>2, NoPages DEF Row!NoReading
  <2>5. rows' \in 0..MaxRows[project]
    BY <1>2, <2>1
  <2> QED
    BY <2>1, <2>3, <2>4, <2>5, OwnRow
<1> QED
  BY <1>3, <1>4

(* The row becomes one that this release does not read.                    *)
LEMMA ForeignRow ==
    ASSUME Row!ContractInvariant, Row!Envelope(row'), ~Readable(row'),
           UNCHANGED <<project, now, reading, genuine, shown>>, rows' \in 0..MaxRows[project]
    PROVE  Row!ContractInvariant'
<1>1. RowsSound /\ Row!ContractTypeOK
  BY SoundRows DEF Row!ContractInvariant
<1>2. Row!ContractTypeOK'
  BY <1>1 DEF Row!ContractTypeOK, Row!Renderable, Row!Envelope
<1>3. RowsSound'
  <2>1. ~Readable(row)'
    BY DEF Readable, Row!HashValid, Row!Refusal, Row!Learner, Row!Own, Row!NoScope, Row!Evidence
  <2>2. \A g \in genuine' : Readable(g)' /\ g.until = g.readAt + Window
    BY <1>1, ReadableStays DEF RowsSound
  <2> QED
    BY <2>1, <2>2 DEF RowsSound
<1> QED
  BY <1>2, <1>3, RowStep

LEMMA ForeignSteps ==
    ASSUME Row!ContractInvariant, Row!PublishFormer \/ Row!PublishLater \/ Row!Damage
    PROVE  Row!ContractInvariant'
<1>1. /\ Row!ContractTypeOK /\ now \in Nat /\ MaxRows[project] \in Nat /\ rows \in Nat
      /\ rows <= MaxRows[project]
  BY Projects DEF Row!ContractInvariant, Row!ContractTypeOK
<1>2. UNCHANGED <<project, now, reading, shown>> /\ rows' \in 0..MaxRows[project]
  BY <1>1 DEF Row!PublishFormer, Row!PublishLater, Row!Damage
<1>3. CASE Row!PublishFormer
  <2>1. PICK pages \in Row!Pages : row' = Row!FormerSnapshot(pages, now)
    BY <1>3 DEF Row!PublishFormer
  <2>2. UNCHANGED genuine
    BY <1>3 DEF Row!PublishFormer
  <2> QED
    BY <1>1, <1>2, <2>1, <2>2, FormerIsNotReadable, ForeignRow
<1>4. CASE Row!PublishLater
  <2>1. PICK version \in {Row!Own, Row!Later}, policy \in {Row!Policy, Row!Newer},
                more \in {{}, {"another"}}, pages \in Row!Pages :
           /\ version # Row!Own \/ policy # Row!Policy \/ more # {}
           /\ row' = Row!Snapshot(version, policy, Source \cup more, Row!Decisions(pages), pages, now)
           /\ genuine' = IF Row!InTerms(version, policy, more) THEN genuine \cup {row'} ELSE genuine
    BY <1>4 DEF Row!PublishLater
  <2>2. CASE Row!InTerms(version, policy, more)
    <3>1. now \in Nat /\ Row!ContractTypeOK /\ (version # Row!Own \/ policy # Row!Policy \/ more # {})
      BY <1>1, <2>1
    <3>2. PICK s : /\ s = Row!Snapshot(version, policy, Source \cup more, Row!Decisions(pages), pages, now)
                   /\ Row!Envelope(s) /\ Readable(s) /\ s.until = s.readAt + Window /\ s.readAt = now
      BY <3>1, <2>2, InTermsIsReadable
    <3>3. genuine' = genuine \cup {s} /\ row' = s
      BY <2>1, <2>2, <3>2
    <3> QED
      BY <1>2, <3>1, <3>2, <3>3, OwnRow
  <2>3. CASE ~Row!InTerms(version, policy, more)
    <3>1. Row!Envelope(row') /\ ~Readable(row')
      BY <1>1, <2>1, <2>3, LaterIsNotReadable
    <3> QED
      BY <1>2, <2>1, <2>3, <3>1, ForeignRow
  <2> QED
    BY <2>2, <2>3
<1>5. CASE Row!Damage
  <2>1. row # Row!Nothing /\ Row!Envelope(row) /\ Row!HashValid(row)
    BY <1>1, <1>5 DEF Row!Damage, Row!ContractTypeOK
  <2>2. /\ row' # row
        /\ \/ \E v : row' = [row EXCEPT !.version = v]
           \/ \E v : row' = [row EXCEPT !.policy = v]
           \/ \E v : row' = [row EXCEPT !.complete = v]
           \/ \E v : row' = [row EXCEPT !.pages = v]
           \/ \E v : row' = [row EXCEPT !.decisions = v]
    BY <1>5 DEF Row!Damage
  <2>3. Row!Envelope(row') /\ ~Row!HashValid(row')
    BY <2>1, <2>2, DamageShows
  <2>4. UNCHANGED genuine
    BY <1>5 DEF Row!Damage
  <2> QED
    BY <1>2, <2>3, <2>4, ForeignRow DEF Readable
<1> QED
  BY <1>3, <1>4, <1>5

LEMMA ContractInit == Row!Init => Row!ContractInvariant
<1> SUFFICES ASSUME Row!Init PROVE Row!ContractInvariant
  OBVIOUS
<1>1. MaxRows[project] \in Nat /\ RowTime[project] \in Nat \ {0}
  BY PublicationAssumption DEF Row!Init, Row!ContractAssumption
<1>2. Row!NoReading \in [under : BOOLEAN, at : 0..RowTime[project], pages : Row!Pages]
  BY <1>1, NoPages DEF Row!NoReading
<1>3. shown.kind = "none" /\ shown.size = "none" /\ ~Row!Renderable(shown)
  BY DEF Row!Init, Row!NoView, Row!Renderable
<1>4. Row!ContractTypeOK
  BY <1>1, <1>2, <1>3 DEF Row!Init, Row!ContractTypeOK
<1>5. RowsSound
  BY DEF Row!Init, RowsSound, Readable
<1>6. Row!ShownWasPublished /\ Row!ReadyIsRecent /\ Row!EmptyWasRead
  BY <1>3 DEF Row!ShownWasPublished, Row!ReadyIsRecent, Row!EmptyWasRead, Row!Graph
<1> QED
  BY <1>4, <1>5, <1>6, RowsAssemble DEF Row!ContractInvariant

LEMMA ContractStep == Row!ContractInvariant /\ [Row!Next]_Row!vars => Row!ContractInvariant'
<1> SUFFICES ASSUME Row!ContractInvariant, [Row!Next]_Row!vars PROVE Row!ContractInvariant'
  OBVIOUS
<1>1. CASE Row!Next
  BY <1>1, OpenStep, PublisherStep, ForeignSteps DEF Row!Next
<1>2. CASE UNCHANGED Row!vars
  <2>1. RowsSound /\ Row!ContractTypeOK /\ UNCHANGED <<project, now, reading, row, genuine, rows, shown>>
    BY <1>2, SoundRows DEF Row!vars, Row!ContractInvariant
  <2>2. RowsSound'
    BY <2>1, ReadableStays DEF RowsSound
  <2>3. Row!ContractTypeOK'
    BY <2>1 DEF Row!ContractTypeOK, Row!Renderable, Row!Envelope
  <2> QED
    BY <2>1, <2>2, <2>3, RowStep
<1> QED
  BY <1>1, <1>2

(* Whatever this release and others publish, however late, and whatever    *)
(* happens to the row: a page shows only what was published in the terms   *)
(* of this release, calls ready only what is recent, puts no such          *)
(* publication out of sight, and claims no project empty that was not read *)
(* so (ReadContract).                                                      *)
THEOREM PagesStayTrue == Row!Spec => []PagesShowWhatIsPublished
BY ContractInit, ContractStep, PTL DEF Row!Spec, PagesShowWhatIsPublished

-----------------------------------------------------------------------------
(* The readings.  Each reader keeps what it relies on; no step changes the *)
(* project that is read.                                                   *)
ReadingsInv ==
    /\ reader \in {"kuzushiji-v2", "western-art-history-v1", "philosophy-v1"}
    /\ reader = "kuzushiji-v2"           => Kuzushiji!Sound
    /\ reader = "western-art-history-v1" => Art!Sound
    /\ reader = "philosophy-v1"          => Philosophy!Sound

LEMMA ReadingsStart == ReadingInit => ReadingsInv
<1> SUFFICES ASSUME ReadingInit PROVE ReadingsInv
  OBVIOUS
<1>1. CASE reader = "kuzushiji-v2"
  <2>1. Kuzushiji!Init
    BY <1>1 DEF ReadingInit
  <2> QED
    BY <1>1, <2>1, ReadingsAssumption, Kuzushiji!ReadingStarts DEF ReadingsInv
<1>2. CASE reader = "western-art-history-v1"
  <2>1. Art!Init
    BY <1>2 DEF ReadingInit
  <2> QED
    BY <1>2, <2>1, ReadingsAssumption, Art!ReadingStarts DEF ReadingsInv
<1>3. CASE reader = "philosophy-v1"
  <2>1. Philosophy!Init
    BY <1>3 DEF ReadingInit
  <2> QED
    BY <1>3, <2>1, ReadingsAssumption, Philosophy!ReadingStarts DEF ReadingsInv
<1> QED
  BY <1>1, <1>2, <1>3 DEF ReadingInit

LEMMA ReadingsMove == ReadingsInv /\ [ReadingNext]_readingVars => ReadingsInv'
<1> SUFFICES ASSUME ReadingsInv, [ReadingNext]_readingVars PROVE ReadingsInv'
  OBVIOUS
<1>1. reader' = reader /\ reader \in {"kuzushiji-v2", "western-art-history-v1", "philosophy-v1"}
  BY DEF ReadingsInv, ReadingNext, readingVars
<1>2. CASE reader = "kuzushiji-v2"
  <2>1. Kuzushiji!Sound /\ [Kuzushiji!Next]_(Kuzushiji!vars)
    BY <1>2 DEF ReadingsInv, ReadingNext, readingVars, Kuzushiji!vars
  <2>2. Kuzushiji!Sound'
    BY <2>1, ReadingsAssumption, Kuzushiji!ReadingMoves
  <2> QED
    BY <1>1, <1>2, <2>2 DEF ReadingsInv
<1>3. CASE reader = "western-art-history-v1"
  <2>1. Art!Sound /\ [Art!Next]_(Art!vars)
    BY <1>3 DEF ReadingsInv, ReadingNext, readingVars, Art!vars
  <2>2. Art!Sound'
    BY <2>1, ReadingsAssumption, Art!ReadingMoves
  <2> QED
    BY <1>1, <1>3, <2>2 DEF ReadingsInv
<1>4. CASE reader = "philosophy-v1"
  <2>1. Philosophy!Sound /\ [Philosophy!Next]_(Philosophy!vars)
    BY <1>4 DEF ReadingsInv, ReadingNext, readingVars, Philosophy!vars
  <2>2. Philosophy!Sound'
    BY <2>1, ReadingsAssumption, Philosophy!ReadingMoves
  <2> QED
    BY <1>1, <1>4, <2>2 DEF ReadingsInv
<1> QED
  BY <1>1, <1>2, <1>3, <1>4

LEMMA ReadingsSuffice == ReadingsInv => PublishedIsExact
BY ReadingsAssumption, Kuzushiji!SoundSuffices, Art!SoundSuffices, Philosophy!SoundSuffices
DEF ReadingsInv, PublishedIsExact

(* Whatever its owner does to the workspace of a project while it is read, *)
(* the run publishes exactly what the part of it holds that was let alone, *)
(* in an order of its own, with evidence for every declared property of    *)
(* every page, or publishes nothing (queryAllNotionDataSource,             *)
(* collectStrictRelationObservations, normalizeProjection).                *)
THEOREM ReadingsStayExact == ReadingSpec => []PublishedIsExact
<1>1. ReadingInit => ReadingsInv
  BY ReadingsStart
<1>2. ReadingsInv /\ [ReadingNext]_readingVars => ReadingsInv'
  BY ReadingsMove
<1>3. ReadingsInv => PublishedIsExact
  BY ReadingsSuffice
<1> QED
  BY <1>1, <1>2, <1>3, PTL DEF ReadingSpec
=============================================================================
