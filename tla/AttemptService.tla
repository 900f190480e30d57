---------------------------- MODULE AttemptService ----------------------------
(***************************************************************************)
(* The server side of an answer: invocations of the attempt route, each    *)
(* with its own deployment, that look for a stored receipt, find out which *)
(* project and which writer an instance belongs to, read the source for    *)
(* the current scope, and call the database writer.  Any call may fail, or *)
(* be carried out and its answer lost; invocations of one instance, with   *)
(* one attempt or several, overlap; the source and the deployment change   *)
(* under them.                                                             *)
(***************************************************************************)
EXTENDS Integers

CONSTANTS
    Call,           \* invocations
    Attempt,        \* attempt identities
    Body,           \* what an attempt says: answer and self-evaluation
    Instance,
    InstanceOf,     \* of an attempt
    KindOf,         \* of an instance
    ProjectOf,
    StatusOf,       \* of its archived revision, which never changes
    Rubric,         \* instances no grader grades
    Release,        \* deployments: the instances whose exercise they know, and
                    \* those whose epoch they hold active
    None

Kind    == {"legacy", "historical", "pinned", "unit"}
Project == {ProjectOf[i] : i \in Instance}

ASSUME ServiceAssumption ==
    /\ InstanceOf \in [Attempt -> Instance] /\ KindOf \in [Instance -> Kind]
    /\ StatusOf \in [Instance -> {"approved", "quarantined", "retired", "draft"}]
    /\ Rubric \subseteq Instance
    /\ \A r \in Release : r.known \subseteq Instance /\ r.active \subseteq Instance
    /\ \A i \in Instance : KindOf[i] \in {"legacy", "historical"} => ProjectOf[i] = "kuzushiji"

VARIABLES
    rows,       \* exercise_attempts with its receipts, by instance
    eligible,   \* projects whose source is readable and holds the subject eligible
    release,    \* the deployment
    pc,         \* where every invocation is
    request,    \* its six fields
    runs,       \* its deployment
    fresh,      \* the scope it read
    reply,      \* what it answered
    before,     \* history: the row when it began
    was         \* history: projects eligible at some time since

vars == <<rows, eligible, release, pc, request, runs, fresh, reply, before, was>>

NoRow == [attempt |-> None, body |-> None, writer |-> "none", reason |-> "none"]
NoRequest == [attempt |-> None, body |-> None]

Target(c)  == InstanceOf[request[c].attempt]
Row(c)     == rows[Target(c)]
Refused(e) == [kind |-> e, row |-> NoRow]
Saved(row) == [kind |-> "saved", row |-> row]

Init ==
    /\ rows = [i \in Instance |-> NoRow]
    /\ eligible \in SUBSET Project
    /\ release \in Release
    /\ pc = [c \in Call |-> "idle"]
    /\ request = [c \in Call |-> NoRequest]
    /\ runs = [c \in Call |-> release]
    /\ fresh = [c \in Call |-> FALSE]
    /\ reply = [c \in Call |-> Refused("none")]
    /\ before = [c \in Call |-> NoRow]
    /\ was = [c \in Call |-> {}]

-----------------------------------------------------------------------------
(* The world around the route.                                             *)

SourceChanges(p) ==
    /\ eligible' = (eligible \cup {p}) \ (eligible \cap {p})
    /\ was' = [c \in Call |-> IF pc[c] \in {"idle", "done"} THEN {} ELSE was[c] \cup eligible']
    /\ UNCHANGED <<rows, release, pc, request, runs, fresh, reply, before>>

Deploy(r) ==
    /\ r # release /\ release' = r
    /\ UNCHANGED <<rows, eligible, pc, request, runs, fresh, reply, before, was>>

Start(c, a, body) ==
    /\ pc[c] = "idle"
    /\ pc' = [pc EXCEPT ![c] = "recover"]
    /\ request' = [request EXCEPT ![c] = [attempt |-> a, body |-> body]]
    /\ runs' = [runs EXCEPT ![c] = release]
    /\ before' = [before EXCEPT ![c] = rows[InstanceOf[a]]]
    /\ was' = [was EXCEPT ![c] = eligible]
    /\ UNCHANGED <<rows, eligible, release, fresh, reply>>

-----------------------------------------------------------------------------
(* Steps of an invocation.                                                 *)

Goto(c, where) ==
    /\ pc' = [pc EXCEPT ![c] = where]
    /\ UNCHANGED <<rows, eligible, release, request, runs, fresh, reply, before, was>>

Answer(c, answer) ==
    /\ pc' = [pc EXCEPT ![c] = "done"]
    /\ reply' = [reply EXCEPT ![c] = answer]
    /\ UNCHANGED <<eligible, release, request, runs, fresh, before, was>>

FromRow_Unmatched(c) == Saved(Row(c))

(* assertRetryMatches, and the receipt as it is stored.                    *)
FromRow(c) ==
    IF Row(c).attempt # request[c].attempt THEN Refused("instance_already_answered")
    ELSE IF Row(c).body # request[c].body THEN Refused("attempt_conflict")
    ELSE Saved(Row(c))

(* A stored receipt is the answer; without one the invocation goes on.     *)
LookUp(c, where, next) ==
    /\ pc[c] = where
    /\ IF Row(c) # NoRow THEN Answer(c, FromRow(c)) /\ UNCHANGED rows
       ELSE Goto(c, next)

Recover_After(c) == pc[c] = "recover" /\ Goto(c, "route")

(* recoverAcceptedPilotAttempt, before any authority is asked.             *)
Recover(c) == LookUp(c, "recover", "route")

IsUnit(i)      == KindOf[i] = "unit"
IsKuzushiji(i) == ~IsUnit(i) /\ ProjectOf[i] = "kuzushiji"

(* A later project takes the exercises this deployment has registered, in  *)
(* the epoch it runs, from an approved archive; a unit takes its own.      *)
Registered(c) == Target(c) \in runs[c].known

Decodes(c) ==
    /\ Target(c) \in runs[c].active
    /\ StatusOf[Target(c)] = "approved"

DecodesUnit(c) == Registered(c) /\ Decodes(c)

(* submitVersionedPilotAttempt: the archive of the instance names the      *)
(* project, never the request.                                             *)
Route(c) ==
    LET accepted == IF IsUnit(Target(c)) THEN DecodesUnit(c) ELSE Registered(c) /\ Decodes(c) IN
    /\ pc[c] = "route"
    /\ \/ IsKuzushiji(Target(c)) /\ Goto(c, "again")
       \/ ~IsKuzushiji(Target(c)) /\ accepted /\ Goto(c, "lookup")
       \/ ~IsKuzushiji(Target(c)) /\ ~accepted /\ Answer(c, Refused("unsupported")) /\ UNCHANGED rows

Pinned(i) == KindOf[i] \in {"pinned", "unit"}

(* submitKuzushijiPilotAttempt looks again, and chooses the writer by the  *)
(* context pinned on the instance.                                         *)
Again(c) ==
    LET i == Target(c) IN
    /\ pc[c] = "again"
    /\ IF Row(c) = NoRow /\ KindOf[i] # "legacy" /\ StatusOf[i] = "draft"
       THEN Answer(c, Refused("revision_not_allowed")) /\ UNCHANGED rows
       ELSE LookUp(c, "again", IF Pinned(i) THEN "lookup" ELSE "scope")

(* submitObjectiveAttemptV2 looks for itself.                              *)
LookUpV2(c) == LookUp(c, "lookup", "scope")

ReadScope_Issued(c) ==
    /\ pc[c] = "scope"
    /\ pc' = [pc EXCEPT ![c] = "write"]
    /\ fresh' = [fresh EXCEPT ![c] = TRUE]
    /\ UNCHANGED <<rows, eligible, release, request, runs, reply, before, was>>

InScope(c) == ProjectOf[Target(c)] \in eligible

(* The current scope, read from the source of the project.                 *)
ReadScope(c) ==
    /\ pc[c] = "scope"
    /\ pc' = [pc EXCEPT ![c] = "write"]
    /\ fresh' = [fresh EXCEPT ![c] = InScope(c)]
    /\ UNCHANGED <<rows, eligible, release, request, runs, reply, before, was>>

-----------------------------------------------------------------------------
(* The writers.                                                            *)

WriterFor(i) ==
    CASE Pinned(i) -> "v2" [] KindOf[i] = "historical" -> "v1" [] KindOf[i] = "legacy" -> "legacy"

EpochActive(c) == IsUnit(Target(c)) \/ Target(c) \in runs[c].active

(* Why the schedule moves or does not.  standing: what the database finds  *)
(* of the opportunity of a pinned instance (ObjectiveAuthority).           *)
Reason(c, standing) ==
    LET i == Target(c) IN
    CASE StatusOf[i] = "quarantined" -> "revision-quarantined"
      [] StatusOf[i] = "retired" /\ KindOf[i] # "legacy" -> "revision-retired"
      [] IsUnit(i) /\ StatusOf[i] = "approved" -> "practice-only"
      [] OTHER ->
           IF ~fresh[c] \/ StatusOf[i] \in {"retired", "draft"} THEN "scope-not-eligible"
           ELSE IF KindOf[i] # "legacy" /\ ~EpochActive(c) THEN "epoch-inactive"
           ELSE IF i \in Rubric THEN "grader-unavailable"
           ELSE IF KindOf[i] = "pinned" /\ ~standing THEN "stale-opportunity"
           ELSE "applied"

NewRow(c, reason) ==
    [attempt |-> request[c].attempt, body |-> request[c].body,
     writer |-> WriterFor(Target(c)), reason |-> reason]

(* One attempt is accepted for an instance, once; the same attempt again   *)
(* gets what was stored.                                                   *)
Write(c) ==
    /\ pc[c] = "write"
    /\ \/ /\ Row(c) = NoRow
          /\ \E standing \in BOOLEAN :
                LET row == NewRow(c, Reason(c, standing)) IN
                /\ rows' = [rows EXCEPT ![Target(c)] = row]
                /\ Answer(c, Saved(row)) \/ Answer(c, Refused("unavailable"))
       \/ /\ Row(c) # NoRow /\ Row(c).attempt = request[c].attempt
          /\ Answer(c, FromRow(c)) /\ UNCHANGED rows
       \/ /\ Row(c) # NoRow /\ Row(c).attempt # request[c].attempt
          /\ Goto(c, "reread")

(* Another invocation was first: the receipt is looked up once more.       *)
Reread(c) == LookUp(c, "reread", "reread")

(* A call fails before it is carried out, or its answer is lost.           *)
Fails(c) ==
    /\ pc[c] \notin {"idle", "done"}
    /\ Answer(c, Refused("unavailable")) /\ UNCHANGED rows

(* The invocation is over; the bounds let its name be used again.          *)
Over(c) ==
    /\ pc[c] = "done"
    /\ pc' = [pc EXCEPT ![c] = "idle"]
    /\ request' = [request EXCEPT ![c] = NoRequest]
    /\ runs' = [runs EXCEPT ![c] = CHOOSE r \in Release : TRUE]
    /\ fresh' = [fresh EXCEPT ![c] = FALSE]
    /\ reply' = [reply EXCEPT ![c] = Refused("none")]
    /\ before' = [before EXCEPT ![c] = NoRow]
    /\ was' = [was EXCEPT ![c] = {}]
    /\ UNCHANGED <<rows, eligible, release>>

Next ==
    \/ \E p \in Project : SourceChanges(p)
    \/ \E r \in Release : Deploy(r)
    \/ \E c \in Call :
          \/ \E a \in Attempt, body \in Body : Start(c, a, body)
          \/ Recover(c) \/ Route(c) \/ Again(c) \/ LookUpV2(c) \/ ReadScope(c)
          \/ Write(c) \/ Reread(c) \/ Fails(c) \/ Over(c)

Spec == Init /\ [][Next]_vars

-----------------------------------------------------------------------------
(* Type invariant; a row belongs to an attempt of its instance.            *)
ServiceTypeOK ==
    /\ \A i \in Instance : rows[i] = NoRow \/
          (InstanceOf[rows[i].attempt] = i /\ rows[i].body \in Body)
    /\ \A c \in Call : pc[c] \in {"idle", "recover", "route", "again", "lookup", "scope",
                                  "write", "reread", "done"}
    /\ \A c \in Call : fresh[c] \in BOOLEAN /\ was[c] \subseteq Project

(* Every success is the one receipt of the instance, and given only to the *)
(* attempt and the contents that were accepted: invocations that race or   *)
(* come later can neither obtain a second receipt nor that of another      *)
(* attempt.                                                                *)
OneReceipt ==
    \A c \in Call : reply[c].kind = "saved" =>
        /\ reply[c].row = Row(c)
        /\ request[c] = [attempt |-> Row(c).attempt, body |-> Row(c).body]

(* What was accepted before an invocation began is answered from its       *)
(* receipt whatever the deployment and the source have become: no          *)
(* authority is consulted, and nothing but a failed call keeps the         *)
(* learner's own attempt from its receipt.                                 *)
AcceptedIsAnswered ==
    \A c \in Call : before[c] # NoRow =>
        /\ pc[c] \in {"recover", "done"}
        /\ (reply[c].kind \in {"none", "unavailable"} \/ reply[c] = FromRow(c))

(* The schedule moves only for a subject whose source held it eligible     *)
(* while the invocation ran: neither the scope at issuance nor the browser *)
(* decides (docs/PHASE_4E_0).                                              *)
AppliedWasEligible ==
    [][\A i \in Instance : rows[i] = NoRow /\ rows'[i].reason = "applied" =>
          \E c \in Call : /\ pc[c] = "write" /\ pc'[c] # pc[c] /\ Target(c) = i
                          /\ ProjectOf[i] \in was[c]]_vars

(* An instance is accepted by the writer of the contract it was issued     *)
(* under, whatever was deployed since, and practice moves no schedule.     *)
WriterFits ==
    \A i \in Instance : rows[i] # NoRow =>
        /\ (rows[i].writer = "v2") = (KindOf[i] \in {"pinned", "unit"})
        /\ (rows[i].writer = "legacy") = (KindOf[i] = "legacy")
        /\ rows[i].reason = "applied" => KindOf[i] # "unit" /\ StatusOf[i] = "approved"
=============================================================================
