-------------------------- MODULE ObjectiveAuthority --------------------------
(***************************************************************************)
(* The database authority over the spaced-repetition (SRS) state of an     *)
(* objective: the transactions that issue an exercise instance (online or  *)
(* for offline use) and the two that accept an answer, the current (v2)    *)
(* and the historical (v1) one, run by concurrent sessions.                *)
(*                                                                         *)
(* A session runs one transaction at a time.  Its clock is read once, when *)
(* it begins; it then waits for its locks, reads under the objective lock, *)
(* and writes and commits what follows from what it read.  A transaction   *)
(* may fail at any point, and then leaves nothing behind.                  *)
(*                                                                         *)
(* One learner; an objective stands for its (project, objective, epoch)    *)
(* key, and for the one exercise revision the runtime issues for it.       *)
(***************************************************************************)
EXTENDS Integers

CONSTANTS
    Session,        \* database sessions
    Objective,
    Instance,       \* instance identities, drawn at random by the issuer
    Historical,     \* instances issued before opportunities existed
    ObjectiveOf,    \* the objective an instance is, or would be, issued for
    Attempt,        \* attempt identities, drawn by the browser
    InstanceOf,     \* the instance an attempt answers
    Intent,         \* what instances are asked for
    Request,        \* offline issuance requests
    RequestFor,     \* the objective a request asks for
    None,
    Grade,          \* grades a learner's answer leads to
    Lease,          \* an opportunity's time to live, 604800 seconds
    Again,          \* the delay after an Again, 10 minutes
    Day,
    MaxTime         \* bound on the clock

ASSUME AuthorityAssumption ==
    /\ Historical \subseteq Instance
    /\ ObjectiveOf \in [Instance -> Objective]
    /\ InstanceOf \in [Attempt -> Instance]
    /\ RequestFor \in [Request -> Objective]
    /\ Intent \subseteq {"scheduled", "practice"}
    /\ Grade \subseteq {"again", "hard", "good", "easy"}
    /\ None \notin Attempt \cup Instance \cup Request \cup Objective

ASSUME TimeAssumption ==
    Lease \in Nat \ {0} /\ Again \in Nat \ {0} /\ Day \in Nat \ {0} /\ MaxTime \in Nat

VARIABLES
    clock,      \* the database clock
    state,      \* objective_review_state; revision 0 is no row
    issued,     \* exercise_instances with instance_objective_bindings
    slot,       \* objective_srs_opportunities, by instance
    answer,     \* exercise_attempts with objective_srs_applications, by instance
    mapping,    \* offline_instance_issuance_requests
    step, call, \* where each session is, in which call
    now,        \* its v_now
    seen        \* what it read under the objective lock

tables  == <<state, issued, slot, answer, mapping>>
session == <<step, call, now, seen>>
vars    == <<clock, state, issued, slot, answer, mapping, step, call, now, seen>>

-----------------------------------------------------------------------------
(* Rows.                                                                   *)

Reason == {"applied", "stale-opportunity", "not-eligible"}
Use    == {"none", "historical", "srs", "practice-only"}
Slot   == {"none", "active", "accepted", "accepted-no-srs", "expired", "stale"}

State == [revision : Nat, interval : Nat, reviewed : Nat, due : Nat]
Unseen == [revision |-> 0, interval |-> 0, reviewed |-> 0, due |-> 0]

Context == [use : Use, expected : Nat, at : Nat, expires : Nat]
NoContext(use) == [use |-> use, expected |-> 0, at |-> 0, expires |-> 0]

Application == [attempt : Attempt \cup {None}, reason : Reason \cup {"none"},
                revision : Nat]
NoAnswer == [attempt |-> None, reason |-> "none", revision |-> 0]

Answered(i) == answer[i] # NoAnswer
Unissued(i) == issued[i].use = "none"
Active(o)   == {i \in Instance : ObjectiveOf[i] = o /\ slot[i] = "active"}
Applied(o)  == {i \in Instance : ObjectiveOf[i] = o /\ answer[i].reason = "applied"}

-----------------------------------------------------------------------------
(* Calls.                                                                  *)

Kind == {"none", "scheduled", "practice", "prefetch", "accept"}
Call == [kind : Kind, objective : Objective \cup {None},
         attempt : Attempt \cup {None}, request : Request \cup {None}]

NoCall == [kind |-> "none", objective |-> None, attempt |-> None, request |-> None]

Issue(o, intent) == [NoCall EXCEPT !.kind = intent, !.objective = o]
Prefetch(q) == [NoCall EXCEPT !.kind = "prefetch", !.objective = RequestFor[q],
                              !.request = q]
Accept(a)   == [NoCall EXCEPT !.kind = "accept", !.attempt = a,
                              !.objective = ObjectiveOf[InstanceOf[a]]]

(* What a transaction reads under the objective lock.                      *)
View(o) == [state    |-> state[o],
            active   |-> Active(o),
            answered |-> {i \in Instance : ObjectiveOf[i] = o /\ Answered(i)},
            mapped   |-> {q \in Request : RequestFor[q] = o /\ mapping[q] # None}]
Nothing == [state |-> Unseen, active |-> {}, answered |-> {}, mapped |-> {}]

Target(s) == InstanceOf[call[s].attempt]
Locked(s) == step[s] = "locked"

(* The acceptance writer is chosen from the immutable issuance context.    *)
IsHistorical(s) == call[s].kind = "accept" /\ Target(s) \in Historical

(* Past its identity locks an acceptance owns its attempt; a historical    *)
(* one also owns, FOR UPDATE, its instance and the exercise revision all   *)
(* instances of the objective refer to.                                    *)
Identified(s) == call[s].kind = "accept" /\ step[s] \in {"identified", "locked"}

OwnsRevision(s, o) == Identified(s) /\ IsHistorical(s) /\ call[s].objective = o

Init ==
    /\ clock = 0
    /\ state = [o \in Objective |-> Unseen]
    /\ issued = [i \in Instance |-> NoContext(IF i \in Historical THEN "historical" ELSE "none")]
    /\ slot = [i \in Instance |-> "none"]
    /\ answer = [i \in Instance |-> NoAnswer]
    /\ mapping = [q \in Request |-> None]
    /\ step = [s \in Session |-> "idle"]
    /\ call = [s \in Session |-> NoCall]
    /\ now = [s \in Session |-> 0]
    /\ seen = [s \in Session |-> Nothing]

Tick ==
    /\ clock < MaxTime
    /\ clock' = clock + 1
    /\ UNCHANGED <<tables, session>>

-----------------------------------------------------------------------------
(* The life of a transaction.                                              *)

(* An instance can be answered once its issuance is committed and known.   *)
Begin(s, c) ==
    /\ step[s] = "idle"
    /\ c.kind = "accept" => ~Unissued(InstanceOf[c.attempt])
    /\ step' = [step EXCEPT ![s] = "begun"]
    /\ call' = [call EXCEPT ![s] = c]
    /\ now' = [now EXCEPT ![s] = clock]
    /\ UNCHANGED <<clock, tables, seen>>

(* Commit or roll back: the session is free and its locks are released.    *)
End(s) ==
    /\ step' = [step EXCEPT ![s] = "idle"]
    /\ call' = [call EXCEPT ![s] = NoCall]
    /\ now' = [now EXCEPT ![s] = 0]
    /\ seen' = [seen EXCEPT ![s] = Nothing]
    /\ UNCHANGED clock

Fail(s) == step[s] # "idle" /\ End(s) /\ UNCHANGED tables

(* The attempt lock, and the rows a historical acceptance locks before the *)
(* objective.  A retry of a stored attempt returns its receipt; the        *)
(* historical writer refuses an answered instance already here.            *)
Identify(s) ==
    LET i == Target(s) IN
    /\ step[s] = "begun"
    /\ call[s].kind = "accept"
    /\ \A t \in Session \ {s} :
          Identified(t) =>
             /\ call[t].attempt # call[s].attempt
             /\ IsHistorical(s) /\ IsHistorical(t) => call[t].objective # call[s].objective
    /\ \/ /\ answer[i].attempt = call[s].attempt \/ (IsHistorical(s) /\ Answered(i))
          /\ End(s)
       \/ /\ answer[i].attempt # call[s].attempt
          /\ ~(IsHistorical(s) /\ Answered(i))
          /\ step' = [step EXCEPT ![s] = "identified"]
          /\ UNCHANGED <<clock, call, now, seen>>
    /\ UNCHANGED tables

(* Mutant: the transaction goes on without the objective lock.             *)
LockObjective_NoLock(s) ==
    /\ step[s] = IF call[s].kind = "accept" THEN "identified" ELSE "begun"
    /\ step' = [step EXCEPT ![s] = "locked"]
    /\ seen' = [seen EXCEPT ![s] = View(call[s].objective)]
    /\ UNCHANGED <<clock, tables, call, now>>

(* The objective lock, and the reads that follow it.                       *)
LockObjective(s) ==
    /\ step[s] = IF call[s].kind = "accept" THEN "identified" ELSE "begun"
    /\ \A t \in Session : Locked(t) => call[t].objective # call[s].objective
    /\ step' = [step EXCEPT ![s] = "locked"]
    /\ seen' = [seen EXCEPT ![s] = View(call[s].objective)]
    /\ UNCHANGED <<clock, tables, call, now>>

-----------------------------------------------------------------------------
(* The issuer, alone or inside a prefetch.                                 *)

Issuing(s)   == Locked(s) /\ call[s].kind \in {"scheduled", "practice", "prefetch"}
Scheduling(s) == Issuing(s) /\ call[s].kind # "practice"

(* Mutant: the mapping is not read again under the lock.                   *)
Recovering_NotReread(s) == FALSE

Recovering(s) == call[s].kind = "prefetch" /\ call[s].request \in seen[s].mapped

(* A request that is mapped already is answered from its mapping, before   *)
(* the objective lock or, where it was mapped meanwhile, under it.         *)
RecoverMapping(s) ==
    /\ \/ step[s] = "begun" /\ call[s].kind = "prefetch" /\ mapping[call[s].request] # None
       \/ Issuing(s) /\ Recovering(s)
    /\ End(s)
    /\ UNCHANGED tables

Reusable(s, i) ==
    /\ issued[i].expires > now[s]
    /\ issued[i].expected = seen[s].state.revision

(* What a prefetch adds to the issuer's writes, in the same transaction.   *)
MapTo(s, i) ==
    mapping' = IF call[s].kind = "prefetch" THEN [mapping EXCEPT ![call[s].request] = i]
               ELSE mapping

ReuseOpportunity(s, i) ==
    /\ Scheduling(s) /\ ~Recovering(s)
    /\ i \in seen[s].active
    /\ Reusable(s, i)
    /\ MapTo(s, i)
    /\ End(s)
    /\ UNCHANGED <<state, issued, slot, answer>>

MustReplace(s) ==
    Scheduling(s) /\ ~Recovering(s) /\ ~\E i \in seen[s].active : Reusable(s, i)

NotDue(s) == seen[s].state.revision > 0 /\ seen[s].state.due > now[s]

(* objective_not_due: the terminalization of the old opportunity is rolled *)
(* back with everything else.                                              *)
RefuseNotDue(s) ==
    /\ MustReplace(s)
    /\ NotDue(s)
    /\ End(s)
    /\ UNCHANGED tables

(* Inserting an instance locks the exercise revision it refers to.         *)
RevisionFree(o) == ~\E t \in Session : OwnsRevision(t, o)

(* Mutant: the replaced opportunity is left as it is.                      *)
Terminalized_Kept(s) == slot

(* The opportunities the new one replaces.                                 *)
Terminalized(s) ==
    [i \in Instance |-> IF i \notin seen[s].active THEN slot[i]
                        ELSE IF issued[i].expires <= now[s] THEN "expired" ELSE "stale"]

IssueOpportunity(s, i) ==
    /\ MustReplace(s) /\ ~NotDue(s)
    /\ Unissued(i) /\ ObjectiveOf[i] = call[s].objective
    /\ RevisionFree(call[s].objective)
    /\ issued' = [issued EXCEPT ![i] =
          [use |-> "srs", expected |-> seen[s].state.revision,
           at |-> now[s], expires |-> now[s] + Lease]]
    /\ slot' = [Terminalized(s) EXCEPT ![i] = "active"]
    /\ MapTo(s, i)
    /\ End(s)
    /\ UNCHANGED <<state, answer>>

IssuePractice(s, i) ==
    /\ Issuing(s) /\ call[s].kind = "practice"
    /\ Unissued(i) /\ ObjectiveOf[i] = call[s].objective
    /\ RevisionFree(call[s].objective)
    /\ issued' = [issued EXCEPT ![i] = [NoContext("practice-only") EXCEPT !.at = now[s]]]
    /\ End(s)
    /\ UNCHANGED <<state, slot, answer, mapping>>

-----------------------------------------------------------------------------
(* The acceptance.                                                         *)

(* Interval in days after a grade, the first and a later one: 1.2 x rounded *)
(* up, 2.2 x and 3.2 x rounded, and never less than the first.             *)
FirstInterval == [again |-> 0, hard |-> 1, good |-> 2, easy |-> 5]

Grown(x) == [again |-> 0,
             hard  |-> (12 * x + 9) \div 10,
             good  |-> (22 * x + 5) \div 10,
             easy  |-> (32 * x + 5) \div 10]

NextInterval(grade, x) ==
    IF x = 0 \/ Grown(x)[grade] < FirstInterval[grade] THEN FirstInterval[grade]
    ELSE Grown(x)[grade]

NextState(old, grade, time) ==
    LET x == NextInterval(grade, old.interval) IN
    [revision |-> old.revision + 1, interval |-> x, reviewed |-> time,
     due |-> time + (IF grade = "again" THEN Again ELSE x * Day)]

(* Mutant: only the expiry decides whether an opportunity still stands.    *)
Standing_AnyRevision(s) ==
    /\ Target(s) \in seen[s].active
    /\ issued[Target(s)].expires > now[s]

(* The opportunity is active, unexpired, and for the state as it is.       *)
Standing(s) ==
    /\ Target(s) \in seen[s].active
    /\ issued[Target(s)].expires > now[s]
    /\ issued[Target(s)].expected = seen[s].state.revision

(* Mutant: the receipt names the way its opportunity ended.                *)
(* grade is what grading and self-evaluation lead to on an approved        *)
(* revision with an accepted scope and an active epoch; else it is none.   *)
AcceptanceReason(s, grade) ==
    IF issued[Target(s)].use = "practice-only" \/ grade = "none" THEN "not-eligible"
    ELSE IF ~IsHistorical(s) /\ ~Standing(s) THEN "stale-opportunity"
    ELSE "applied"

(* The attempt, its receipt and the objective state, together.             *)
Store(s, reason, grade) ==
    LET i == Target(s)
        o == call[s].objective
        new == NextState(seen[s].state, grade, now[s])
    IN
    /\ state' = IF reason = "applied" THEN [state EXCEPT ![o] = new] ELSE state
    /\ answer' = [answer EXCEPT ![i] =
          [attempt |-> call[s].attempt, reason |-> reason,
           revision |-> IF reason = "applied" THEN new.revision ELSE 0]]

(* Mutant: an acceptance that moves no state leaves its opportunity open.  *)
SlotAfter_AppliedOnly(i, reason) ==
    IF slot[i] = "active" /\ reason = "applied" THEN "accepted" ELSE slot[i]

(* Only this instance's own opportunity is closed.                         *)
SlotAfter(i, reason) ==
    IF slot[i] # "active" THEN slot[i]
    ELSE IF reason = "applied" THEN "accepted"
    ELSE IF reason = "stale-opportunity" THEN "stale"
    ELSE "accepted-no-srs"

Accepting(s) == Locked(s) /\ call[s].kind = "accept"

(* Mutant: the answered instance has no way out.                           *)
RefuseAnswered_Never(s) == FALSE

RefuseAnswered(s) ==
    /\ Accepting(s) /\ ~IsHistorical(s)
    /\ Target(s) \in seen[s].answered
    /\ End(s)
    /\ UNCHANGED tables

(* Mutant: nobody looks whether the instance is answered.                  *)
AcceptAnswer_Unchecked(s, grade) ==
    LET reason == AcceptanceReason(s, grade) IN
    /\ Accepting(s) /\ ~IsHistorical(s)
    /\ Store(s, reason, grade)
    /\ slot' = [slot EXCEPT ![Target(s)] = SlotAfter(Target(s), reason)]
    /\ End(s)
    /\ UNCHANGED <<issued, mapping>>

(* study_graph_record_objective_attempt_v2.                                *)
AcceptAnswer(s, grade) ==
    LET reason == AcceptanceReason(s, grade) IN
    /\ Accepting(s) /\ ~IsHistorical(s)
    /\ Target(s) \notin seen[s].answered
    /\ Store(s, reason, grade)
    /\ slot' = [slot EXCEPT ![Target(s)] = SlotAfter(Target(s), reason)]
    /\ End(s)
    /\ UNCHANGED <<issued, mapping>>

(* study_graph_record_objective_attempt: no opportunity, no due date.      *)
AcceptHistorical(s, grade) ==
    /\ Accepting(s) /\ IsHistorical(s)
    /\ Store(s, AcceptanceReason(s, grade), grade)
    /\ End(s)
    /\ UNCHANGED <<issued, slot, mapping>>

-----------------------------------------------------------------------------
(* An issuer that needs the revision row waits for a historical acceptance *)
(* that waits for the issuer's objective lock; the database ends one.      *)
WaitsForRevision(s) ==
    /\ Issuing(s) /\ ~RevisionFree(call[s].objective)
    /\ call[s].kind = "practice" \/ (MustReplace(s) /\ ~NotDue(s))

Deadlocked(s, t) ==
    /\ WaitsForRevision(s)
    /\ OwnsRevision(t, call[s].objective) /\ step[t] = "identified"

BreakDeadlock(s) ==
    /\ \E t \in Session : Deadlocked(s, t) \/ Deadlocked(t, s)
    /\ End(s)
    /\ UNCHANGED tables

-----------------------------------------------------------------------------
Work(s) ==
    \/ Identify(s)
    \/ LockObjective(s)
    \/ RecoverMapping(s) \/ RefuseNotDue(s) \/ RefuseAnswered(s)
    \/ \E i \in Instance :
          ReuseOpportunity(s, i) \/ IssueOpportunity(s, i) \/ IssuePractice(s, i)
    \/ \E grade \in Grade \cup {"none"} :
          AcceptAnswer(s, grade) \/ AcceptHistorical(s, grade)
    \/ BreakDeadlock(s)

Calls ==
    {Issue(o, intent) : o \in Objective, intent \in Intent}
       \cup {Prefetch(q) : q \in Request} \cup {Accept(a) : a \in Attempt}

Next ==
    \/ Tick
    \/ \E s \in Session :
          \/ \E c \in Calls : Begin(s, c)
          \/ Work(s)
          \/ Fail(s)

Spec == Init /\ [][Next]_vars

-----------------------------------------------------------------------------
(* Properties.                                                             *)

AuthorityTypeOK ==
    /\ clock \in Nat
    /\ state \in [Objective -> State]
    /\ issued \in [Instance -> Context]
    /\ slot \in [Instance -> Slot]
    /\ answer \in [Instance -> Application]
    /\ mapping \in [Request -> Instance \cup {None}]
    /\ step \in [Session -> {"idle", "begun", "identified", "locked"}]
    /\ call \in [Session -> Call]
    /\ now \in [Session -> Nat]
    /\ seen \in [Session -> [state : State, active : SUBSET Instance,
                              answered : SUBSET Instance, mapped : SUBSET Request]]

(* Online and offline issuers on any number of devices share one active    *)
(* opportunity per objective; the unique index that would refuse a second  *)
(* one never has to (PHASE_5A_1 "at most one active SRS-bearing            *)
(* opportunity for that key").                                             *)
OneActiveOpportunity ==
    \A i, j \in Instance :
        slot[i] = "active" /\ slot[j] = "active" /\ ObjectiveOf[i] = ObjectiveOf[j] => i = j

(* An active opportunity is never an answered one, so that the instance    *)
(* the issuer gives out again can still be answered (20260918010500 lines  *)
(* 154-177).                                                               *)
ActiveIsUnanswered ==
    \A i \in Instance : slot[i] = "active" => ~Answered(i)

(* The state of an objective is the outcome of a chain of accepted         *)
(* answers, v1 and v2 together: each revision was made by exactly one      *)
(* answer, and no update was lost (20260917021000 lines 654-703).          *)
AppliedChain ==
    \A o \in Objective :
        /\ \A n \in 1 .. state[o].revision : \E i \in Applied(o) : answer[i].revision = n
        /\ \A i, j \in Applied(o) :
              /\ answer[i].revision \in 1 .. state[o].revision
              /\ answer[i].revision = answer[j].revision => i = j

(* A v2 answer moves the schedule only inside the window it was issued     *)
(* for, whatever waited for whatever: the objective was due when its       *)
(* instance was issued, the answer came before the expiry, and the state   *)
(* had not moved in between (20260918010500 188-193, 20260917021000        *)
(* 612-648).                                                               *)
AppliedInWindow ==
    [][\A i \in Instance \ Historical :
          answer'[i] # answer[i] /\ answer'[i].reason = "applied" =>
             LET old == state[ObjectiveOf[i]]
                 new == state'[ObjectiveOf[i]]
             IN
             /\ old.due <= issued[i].at
             /\ issued[i].at <= new.reviewed
             /\ new.reviewed < issued[i].expires
             /\ issued[i].expected = old.revision]_vars

(* An offline request is mapped once, for good, to an instance of its      *)
(* objective that was issued in the same transaction or before, so a lost  *)
(* reply can be asked for again (PHASE_5A_4A "Transaction and lock order"). *)
MappingsHold ==
    [][\A q \in Request :
          /\ mapping[q] # None => mapping'[q] = mapping[q]
          /\ mapping'[q] # None =>
                /\ ObjectiveOf[mapping'[q]] = RequestFor[q]
                /\ issued'[mapping'[q]].use = "srs"]_vars

(* The acceptance transactions keep the register of receipts the delivery  *)
(* model assumes: one per instance, never rewritten.                       *)
Register == INSTANCE ReceiptRegister WITH
    Answer <- Attempt,
    register <- [i \in Instance |-> [attempt |-> answer[i].attempt,
                                     applied |-> answer[i].reason = "applied"]]

ImplementsReceiptRegister == Register!RegisterSpec

-----------------------------------------------------------------------------
(* Liveness.  The database runs every session, grants locks in the order   *)
(* they were asked for, and breaks deadlocks; BOUND: an issuer for which   *)
(* the model has no instance identity left fails.                          *)
OutOfInstances(s) ==
    Issuing(s) /\ ~\E i \in Instance : Unissued(i) /\ ObjectiveOf[i] = call[s].objective

Fairness(s) ==
    /\ WF_vars(Work(s) \/ (OutOfInstances(s) /\ Fail(s)))
    /\ SF_vars(Identify(s))
    /\ SF_vars(LockObjective(s))

LiveSpec == Spec /\ \A s \in Session : Fairness(s)

(* Every transaction ends, also where an issuer and a historical           *)
(* acceptance wait for each other (20260909100000 lines 148-155 and 248,   *)
(* 20260918010500 lines 105-109 and 209-220).                              *)
EveryCallEnds ==
    \A s \in Session : step[s] # "idle" ~> step[s] = "idle"
=============================================================================
