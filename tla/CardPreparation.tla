-------------------------- MODULE CardPreparation --------------------------
(***************************************************************************)
(* Preparing the cards of a review page, and starting a study unit.  Every *)
(* exercise of the deployment's curriculum that is in scope is prepared by *)
(* the same five calls to the database: archive its revision, define its   *)
(* objective, bind the two, issue an instance, and resolve the instance    *)
(* that was issued.  Up to three exercises are prepared at a time.         *)
(*                                                                         *)
(* A page takes the cards it can get: an exercise that fails is left out.  *)
(* A unit takes all of its cards or none: after a failure no exercise is   *)
(* begun, and the start fails when those under way have ended.             *)
(*                                                                         *)
(* A page's instance is scheduled: while an opportunity of the objective   *)
(* is open the database hands out its instance again, which another        *)
(* deployment may have issued from another revision.  A unit's is new.     *)
(*                                                                         *)
(* Deployments of different ages run side by side.  A revision is known by *)
(* its exercise and version; its content is what its hash covers.          *)
(***************************************************************************)
EXTENDS Integers, FiniteSets, SequencesExt

CONSTANTS
    Request,
    Deployment, RunsOn, \* the deployment that serves each of them
    Ships,              \* its curriculum: a sequence of revisions
    Exercise, ObjectiveOf,
    Content,
    Workers,            \* 3
    MaxFailures,        \* bound on the calls that fail
    MaxInstances,       \* bound on the instances issued
    None

Revision == [exercise : Exercise, version : Nat, content : Content]

PreparationAssumption ==
    /\ RunsOn \in [Request -> Deployment]
    /\ Ships \in [Deployment -> Seq(Revision)]
    /\ \A d \in Deployment : \A i, j \in DOMAIN Ships[d] :
          Ships[d][i].exercise = Ships[d][j].exercise => i = j
    /\ Workers \in Nat \ {0} /\ MaxFailures \in Nat /\ MaxInstances \in Nat
    /\ None \notin Exercise \cup Content \cup Nat

VARIABLES
    archive,    \* exercise_revisions
    defined,    \* objective_definitions
    bound,      \* exercise_objective_bindings: revisions, with their objective
    instances,  \* exercise_instances, in the order they were issued
    open,       \* the instance of every objective's open opportunity, or None
    due,        \* the objectives that have no state, or are due
    failures,   \* calls that failed so far
    unit,       \* the requests that start a unit; the others are for a page
    status,     \* of every request: "idle", "working", "shown" or "failed"
    queue,      \* the revisions it prepares, and how many it has begun
    begun,
    broken,     \* a preparation of a unit has failed
    stage,      \* of every exercise of a request
    issued      \* the instance it was issued

database == <<archive, defined, bound, instances, open, due>>
request  == <<unit, status, queue, begun, broken, stage, issued>>
vars     == <<archive, defined, bound, instances, open, due, failures, unit,
              status, queue, begun, broken, stage, issued>>

-----------------------------------------------------------------------------
Objective == {ObjectiveOf[e] : e \in Exercise}
Instance  == [exercise : Exercise, version : Nat, presentation : Content,
              use : {"srs", "practice-only"}]
UnderWay  == {"archive", "define", "bind", "issue", "resolve"}
Stage     == UnderWay \cup {"waiting", "card", "none"}
Ids       == 1..MaxInstances

Identity(row)  == <<row.exercise, row.version>>
Archived(row)  == {a \in archive : Identity(a) = Identity(row)}
Shipped(r, e)  == CHOOSE rev \in ToSet(Ships[RunsOn[r]]) : rev.exercise = e
Exercises(r)   == {rev.exercise : rev \in ToSet(queue[r])}
Busy(r)        == {e \in Exercise : stage[r][e] \in UnderWay}

Init ==
    /\ archive = {} /\ defined = {} /\ bound = {} /\ instances = <<>>
    /\ open = [o \in Objective |-> None]
    /\ due = Objective
    /\ failures = 0
    /\ unit = {}
    /\ status = [r \in Request |-> "idle"]
    /\ queue = [r \in Request |-> <<>>]
    /\ begun = [r \in Request |-> 0]
    /\ broken = [r \in Request |-> FALSE]
    /\ stage = [r \in Request |-> [e \in Exercise |-> "waiting"]]
    /\ issued = [r \in Request |-> [e \in Exercise |-> None]]

-----------------------------------------------------------------------------
(* The learner answers an open instance, or its opportunity expires; and   *)
(* an objective that was answered becomes due again.                       *)

Answer(o) ==
    /\ open[o] # None
    /\ open' = [open EXCEPT ![o] = None]
    /\ \E d \in {due, due \ {o}} : due' = d
    /\ UNCHANGED <<archive, defined, bound, instances, failures, request>>

FallsDue(o) ==
    /\ o \notin due
    /\ due' = due \cup {o}
    /\ UNCHANGED <<archive, defined, bound, instances, open, failures, request>>

-----------------------------------------------------------------------------
(* A request and its workers.                                              *)

Curriculum(r) == Ships[RunsOn[r]]

(* Some places of a sequence of n, in their order.                         *)
Picks(n) ==
    UNION {{pick \in [1..k -> 1..n] : \A i, j \in 1..k : i < j => pick[i] < pick[j]} : k \in 0..n}

Begins(r, entries) ==
    /\ status' = [status EXCEPT ![r] = "working"]
    /\ queue' = [queue EXCEPT ![r] = entries]

(* The scope is read once.  A page prepares the exercises whose subject is *)
(* eligible; a unit starts only if all of its exercises are.               *)
StartPage(r) ==
    /\ status[r] = "idle"
    /\ \E pick \in Picks(Len(Curriculum(r))) :
          Begins(r, [i \in DOMAIN pick |-> Curriculum(r)[pick[i]]])
    /\ UNCHANGED <<database, failures, unit, begun, broken, stage, issued>>

StartUnit(r) ==
    /\ status[r] = "idle" /\ unit' = unit \cup {r}
    /\ \/ Begins(r, Curriculum(r))
       \/ status' = [status EXCEPT ![r] = "failed"] /\ UNCHANGED queue
    /\ UNCHANGED <<database, failures, begun, broken, stage, issued>>

(* A free worker takes the next exercise, unless one has failed.           *)
Take(r) ==
    /\ status[r] = "working" /\ ~broken[r]
    /\ begun[r] < Len(queue[r]) /\ Cardinality(Busy(r)) < Workers
    /\ begun' = [begun EXCEPT ![r] = @ + 1]
    /\ stage' = [stage EXCEPT ![r][queue[r][begun[r] + 1].exercise] = "archive"]
    /\ UNCHANGED <<database, failures, unit, status, queue, broken, issued>>

Ended(r) ==
    /\ Busy(r) = {}
    /\ broken[r] \/ begun[r] = Len(queue[r])

(* The workers have ended.                                                 *)
Finish(r) ==
    /\ status[r] = "working" /\ Ended(r)
    /\ status' = [status EXCEPT ![r] = IF broken[r] THEN "failed" ELSE "shown"]
    /\ UNCHANGED <<database, failures, unit, queue, begun, broken, stage, issued>>

-----------------------------------------------------------------------------
(* The preparation of one exercise.                                        *)

(* A page catches the failure of an exercise, a unit does not.             *)
Breaks(r) == r \in unit

LeaveOut(r, e) ==
    /\ stage' = [stage EXCEPT ![r][e] = "none"]
    /\ broken' = [broken EXCEPT ![r] = @ \/ Breaks(r)]

Goes(r, e, to) ==
    /\ stage' = [stage EXCEPT ![r][e] = to]
    /\ UNCHANGED broken

(* A call was executed; its answer may be lost.                            *)
Answered(r, e, to) ==
    \/ Goes(r, e, to) /\ UNCHANGED failures
    \/ /\ failures < MaxFailures /\ failures' = failures + 1
       /\ LeaveOut(r, e)

(* A call that does not arrive, times out, or loses a race with the first  *)
(* registration of the same row.                                           *)
CallFails(r, e) ==
    /\ stage[r][e] \in UnderWay /\ failures < MaxFailures
    /\ failures' = failures + 1
    /\ LeaveOut(r, e)
    /\ UNCHANGED <<database, unit, status, queue, begun, issued>>

(* The row of an exercise and version is written once.                     *)
Conflict(rev) == Archived(rev) \ {rev} # {}

RegisterArchive(r, e) ==
    LET rev == Shipped(r, e)
    IN  /\ stage[r][e] = "archive" /\ ~Conflict(rev)
        /\ archive' = (archive \ Archived(rev)) \cup {rev}
        /\ Answered(r, e, "define")
        /\ UNCHANGED <<defined, bound, instances, open, due, unit, status, queue, begun, issued>>

ArchiveConflict(r, e) ==
    /\ stage[r][e] = "archive" /\ Conflict(Shipped(r, e))
    /\ LeaveOut(r, e)
    /\ UNCHANGED <<database, failures, unit, status, queue, begun, issued>>

RegisterDefinition(r, e) ==
    /\ stage[r][e] = "define"
    /\ defined' = defined \cup {ObjectiveOf[e]}
    /\ Answered(r, e, "bind")
    /\ UNCHANGED <<archive, bound, instances, open, due, unit, status, queue, begun, issued>>

(* The revision is found by its hash.                                      *)
RegisterBinding(r, e) ==
    /\ stage[r][e] = "bind"
    /\ Shipped(r, e) \in archive /\ ObjectiveOf[e] \in defined
    /\ bound' = bound \cup {<<Identity(Shipped(r, e)), ObjectiveOf[e]>>}
    /\ Answered(r, e, "issue")
    /\ UNCHANGED <<archive, defined, instances, open, due, unit, status, queue, begun, issued>>

Draft(r, e) ==
    [exercise |-> e, version |-> Shipped(r, e).version,
     presentation |-> Shipped(r, e).content,
     use |-> IF r \in unit THEN "practice-only" ELSE "srs"]

Issuable(r, e) ==
    /\ stage[r][e] = "issue"
    /\ <<Identity(Shipped(r, e)), ObjectiveOf[e]>> \in bound

IssueNew(r, e) ==
    LET o == ObjectiveOf[e]
    IN  /\ Issuable(r, e) /\ Len(instances) < MaxInstances
        /\ r \notin unit => open[o] = None /\ o \in due
        /\ instances' = Append(instances, Draft(r, e))
        /\ open' = IF r \in unit THEN open ELSE [open EXCEPT ![o] = Len(instances')]
        /\ issued' = [issued EXCEPT ![r][e] = Len(instances')]
        /\ Answered(r, e, "resolve")
        /\ UNCHANGED <<archive, defined, bound, due, unit, status, queue, begun>>

Reuse(r, e) ==
    LET o == ObjectiveOf[e]
    IN  /\ Issuable(r, e) /\ r \notin unit /\ open[o] # None
        /\ issued' = [issued EXCEPT ![r][e] = open[o]]
        /\ Answered(r, e, "resolve")
        /\ UNCHANGED <<database, unit, status, queue, begun>>

(* Not due, or nothing is bound.                                           *)
IssueRefused(r, e) ==
    /\ stage[r][e] = "issue"
    /\ \/ ~Issuable(r, e)
       \/ /\ r \notin unit
          /\ open[ObjectiveOf[e]] = None /\ ObjectiveOf[e] \notin due
    /\ LeaveOut(r, e)
    /\ UNCHANGED <<database, failures, unit, status, queue, begun, issued>>

Persisted(r, e) == instances[issued[r][e]]

Accepted_Any(r, e) == TRUE

(* The instance is of the exercise asked for, which this deployment knows, *)
(* and presents the revision archived with it; a unit's, this very one.    *)
Accepted(r, e) ==
    LET i == Persisted(r, e)
    IN  /\ i.exercise = e
        /\ [exercise |-> e, version |-> i.version, content |-> i.presentation] \in archive
        /\ r \in unit => i = Draft(r, e)

Resolve(r, e) ==
    /\ stage[r][e] = "resolve"
    /\ IF Accepted(r, e) THEN Goes(r, e, "card") ELSE LeaveOut(r, e)
    /\ UNCHANGED <<database, failures, unit, status, queue, begun, issued>>

Prepare(r, e) ==
    \/ RegisterArchive(r, e) \/ ArchiveConflict(r, e) \/ RegisterDefinition(r, e)
    \/ RegisterBinding(r, e) \/ IssueNew(r, e) \/ Reuse(r, e) \/ IssueRefused(r, e)
    \/ Resolve(r, e) \/ CallFails(r, e)

Work(r) == Take(r) \/ Finish(r) \/ \E e \in Exercise : Prepare(r, e)

Next ==
    \/ \E o \in Objective : Answer(o) \/ FallsDue(o)
    \/ \E r \in Request : StartPage(r) \/ StartUnit(r) \/ Work(r)

Spec == Init /\ [][Next]_vars

-----------------------------------------------------------------------------
(* Properties.                                                             *)

(* Every variable has its type.                                            *)
PreparationTypeOK ==
    /\ archive \subseteq Revision
    /\ defined \subseteq Objective
    /\ bound \subseteq (Exercise \X Nat) \X Objective
    /\ instances \in Seq(Instance) /\ Len(instances) <= MaxInstances
    /\ open \in [Objective -> Ids \cup {None}]
    /\ due \subseteq Objective
    /\ failures \in 0..MaxFailures
    /\ unit \subseteq Request
    /\ status \in [Request -> {"idle", "working", "shown", "failed"}]
    /\ queue \in [Request -> Seq(Revision)]
    /\ begun \in [Request -> Nat] /\ broken \in [Request -> BOOLEAN]
    /\ stage \in [Request -> [Exercise -> Stage]]
    /\ issued \in [Request -> [Exercise -> Ids \cup {None}]]

(* What an instance shows the learner is what it is graded against: the    *)
(* revision archived for it, although deployments disagree about it.       *)
InstancesKeepTheirContent ==
    \A i \in DOMAIN instances :
        \E rev \in archive :
            Identity(rev) = Identity(instances[i]) /\ rev.content = instances[i].presentation

(* A card is an issued instance of its exercise: a page's a scheduled one, *)
(* a unit's a practice one that no page is ever given.                     *)
CardsAreTheirInstances ==
    \A r \in Request, e \in Exercise : stage[r][e] = "card" =>
        /\ Persisted(r, e).exercise = e
        /\ Persisted(r, e).use = IF r \in unit THEN "practice-only" ELSE "srs"
        /\ r \in unit => \A s \in Request \ {r}, f \in Exercise : issued[s][f] # issued[r][e]

(* A page is always answered, and then has tried all of its exercises,     *)
(* whichever failed; a unit is answered with all of its cards.  Neither is *)
(* answered, nor does a unit fail, while a call is still under way.        *)
FailuresStayLocal ==
    \A r \in Request :
        /\ status[r] = "failed" => r \in unit /\ Busy(r) = {}
        /\ status[r] = "shown" => \A e \in Exercises(r) :
              stage[r][e] \in IF r \in unit THEN {"card"} ELSE {"card", "none"}

(* A request prepares exercises of its curriculum, each once and in order; *)
(* what it has not begun waits.  Only a unit breaks, and one that has not  *)
(* has left nothing out; it ends when no worker is busy.                   *)
IsOrderly(r) ==
    /\ begun[r] <= Len(queue[r])
    /\ \A i \in DOMAIN queue[r] :
          /\ queue[r][i] \in ToSet(Curriculum(r))
          /\ \A j \in DOMAIN queue[r] : queue[r][i].exercise = queue[r][j].exercise => i = j
          /\ stage[r][queue[r][i].exercise] = "waiting" <=> begun[r] < i
    /\ \A e \in Exercise : stage[r][e] # "waiting" =>
          \E i \in 1..begun[r] : queue[r][i].exercise = e
    /\ status[r] = "idle" => queue[r] = <<>>
    /\ status[r] = "shown" => Ended(r) /\ ~broken[r]
    /\ status[r] = "failed" => Busy(r) = {}
    /\ broken[r] \/ status[r] = "failed" => r \in unit
    /\ r \in unit /\ ~broken[r] => \A e \in Exercise : stage[r][e] # "none"

(* What is bound or issued was archived.  An open instance is scheduled; a *)
(* request holds instances that were issued, a page scheduled ones.  An    *)
(* exercise holds an instance when it has got past its issue.              *)
Holds(r, e) ==
    /\ stage[r][e] \in {"define", "bind", "issue"} => Shipped(r, e) \in archive
    /\ stage[r][e] = "waiting" => issued[r][e] = None
    /\ stage[r][e] \in {"resolve", "card"} => issued[r][e] # None
    /\ issued[r][e] # None =>
          /\ issued[r][e] \in DOMAIN instances
          /\ Persisted(r, e).use = IF r \in unit THEN "practice-only" ELSE "srs"
          /\ r \in unit => \A s \in Request \ {r}, f \in Exercise : issued[s][f] # issued[r][e]

OpenIsScheduled ==
    \A o \in Objective : open[o] # None =>
        open[o] \in DOMAIN instances /\ instances[open[o]].use = "srs"

(* The properties together, with what makes them inductive.                *)
PreparationInvariant ==
    /\ PreparationTypeOK /\ OpenIsScheduled
    /\ \A r \in Request : IsOrderly(r) /\ \A e \in Exercise : Holds(r, e)
    /\ InstancesKeepTheirContent /\ CardsAreTheirInstances /\ FailuresStayLocal
=============================================================================
