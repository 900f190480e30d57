--------------------------- MODULE AuthorityProofs ---------------------------
(***************************************************************************)
(* What the transactions of ObjectiveAuthority keep, for any number of     *)
(* sessions, objectives, instances, attempts and requests.                 *)
(*                                                                         *)
(* The argument is that of the code: the objective lock is exclusive, so   *)
(* what a transaction read under it is still so when it commits; the       *)
(* historical acceptance, which refuses an answered instance before it has *)
(* the objective lock, is covered by the rows it locks instead.            *)
(***************************************************************************)
EXTENDS ObjectiveAuthority, TLAPS

CallsSound ==
    \A s \in Session :
        /\ now[s] <= clock
        /\ step[s] # "idle" => call[s] \in Calls
        /\ step[s] # "idle" /\ call[s].kind = "accept" =>
              ~Unissued(Target(s)) /\ issued[Target(s)].at <= now[s]

HasLock(s, o) == Locked(s) /\ call[s].objective = o

LocksHeld ==
    \A s \in Session, o \in Objective : HasLock(s, o) =>
        /\ seen[s] = View(o)
        /\ \A t \in Session : HasLock(t, o) => t = s

HistoricalHeld ==
    \A s \in Session : Identified(s) /\ IsHistorical(s) =>
        /\ ~Answered(Target(s))
        /\ \A t \in Session :
              Identified(t) /\ IsHistorical(t) /\ call[t].objective = call[s].objective => t = s

SlotsSound ==
    \A i \in Instance :
        /\ i \in Historical <=> issued[i].use = "historical"
        /\ issued[i].at <= clock
        /\ Unissued(i) => ~Answered(i)
        /\ Answered(i) => answer[i].attempt # None
        /\ slot[i] # "none" => issued[i].use = "srs"
        /\ slot[i] = "active" =>
              LET current == state[ObjectiveOf[i]] IN
              /\ ~Answered(i)
              /\ issued[i].expected <= current.revision
              /\ issued[i].expected = current.revision => current.due <= issued[i].at

MappingsSound ==
    \A q \in Request : mapping[q] # None =>
        ObjectiveOf[mapping[q]] = RequestFor[q] /\ issued[mapping[q]].use = "srs"

StatesSound == \A o \in Objective : state[o].revision = 0 => state[o].due = 0

AuthorityInv ==
    /\ AuthorityTypeOK
    /\ StatesSound
    /\ CallsSound
    /\ LocksHeld
    /\ HistoricalHeld
    /\ SlotsSound
    /\ OneActiveOpportunity
    /\ AppliedChain
    /\ MappingsSound

-----------------------------------------------------------------------------
(* Calls and what a transaction may do to the tables.                      *)

LEMMA CallFacts ==
    ASSUME NEW c \in Calls
    PROVE  /\ c \in Call /\ c.kind # "none" /\ c.objective \in Objective
           /\ c.kind = "accept" => /\ c.attempt \in Attempt
                                  /\ InstanceOf[c.attempt] \in Instance
                                  /\ c.objective = ObjectiveOf[InstanceOf[c.attempt]]
           /\ c.kind = "prefetch" => /\ c.request \in Request
                                    /\ c.objective = RequestFor[c.request]
<1>1. CASE \E o \in Objective, intent \in Intent : c = Issue(o, intent)
  BY <1>1, AuthorityAssumption DEF Issue, NoCall, Call, Kind
<1>2. CASE \E q \in Request : c = Prefetch(q)
  BY <1>2, AuthorityAssumption DEF Prefetch, NoCall, Call, Kind
<1>3. CASE \E a \in Attempt : c = Accept(a)
  BY <1>3, AuthorityAssumption DEF Accept, NoCall, Call, Kind
<1> QED
  BY <1>1, <1>2, <1>3 DEF Calls

LEMMA NextStateIsState ==
    ASSUME NEW old \in State, NEW grade \in Grade, NEW time \in Nat
    PROVE  /\ NextState(old, grade, time) \in State
           /\ NextState(old, grade, time).revision = old.revision + 1
           /\ NextState(old, grade, time).reviewed = time
<1> DEFINE x == NextInterval(grade, old.interval)
<1>1. old.interval \in Nat /\ old.revision \in Nat
  BY DEF State
<1>2. x \in Nat
  <2> DEFINE y == old.interval
  <2>1. /\ (12 * y + 9) \div 10 \in Nat
        /\ (22 * y + 5) \div 10 \in Nat
        /\ (32 * y + 5) \div 10 \in Nat
    BY <1>1
  <2>2. Grown(y)[grade] \in Nat /\ FirstInterval[grade] \in Nat
    <3>1. grade \in {"again", "hard", "good", "easy"}
      BY AuthorityAssumption
    <3> HIDE DEF y
    <3> QED
      BY <2>1, <3>1 DEF FirstInterval, Grown
  <2> QED
    BY <2>2 DEF NextInterval
<1>3. x * Day \in Nat /\ Again \in Nat
  BY <1>2, TimeAssumption
<1> HIDE DEF x
<1> QED
  BY <1>1, <1>2, <1>3 DEF NextState, State, x

(* The rows of one objective only.                                         *)
Touches(o) ==
    /\ \A p \in Objective \ {o} : state'[p] = state[p]
    /\ \A i \in Instance : ObjectiveOf[i] # o => slot'[i] = slot[i] /\ answer'[i] = answer[i]
    /\ \A q \in Request : RequestFor[q] # o => mapping'[q] = mapping[q]

(* What is issued stays as issued, what is answered as answered.           *)
Keeps ==
    /\ \A i \in Instance : ~Unissued(i) => issued'[i] = issued[i]
    /\ \A i \in Instance : Answered(i) => answer'[i] = answer[i]

Commits(s) ==
    \/ \E i \in Instance :
          ReuseOpportunity(s, i) \/ IssueOpportunity(s, i) \/ IssuePractice(s, i)
    \/ \E grade \in Grade \cup {"none"} :
          AcceptAnswer(s, grade) \/ AcceptHistorical(s, grade)

(* What a transaction that is about to commit knows.                       *)
LEMMA LockedFacts ==
    ASSUME AuthorityInv, NEW s \in Session, Locked(s)
    PROVE  /\ call[s] \in Calls
           /\ seen[s].state = state[call[s].objective]
           /\ seen[s].active = Active(call[s].objective)
           /\ seen[s].answered =
                 {i \in Instance : ObjectiveOf[i] = call[s].objective /\ Answered(i)}
           /\ seen[s].mapped =
                 {q \in Request : RequestFor[q] = call[s].objective /\ mapping[q] # None}
<1>1. call[s] \in Calls
  BY DEF AuthorityInv, CallsSound, Locked
<1>2. seen[s] = View(call[s].objective)
  BY <1>1, CallFacts DEF AuthorityInv, LocksHeld, HasLock
<1> QED
  BY <1>1, <1>2 DEF View

(* The answer an acceptance is about to write is the first.                *)
LEMMA TargetIsUnanswered ==
    ASSUME AuthorityInv, NEW s \in Session, NEW grade \in Grade \cup {"none"},
           AcceptAnswer(s, grade) \/ AcceptHistorical(s, grade)
    PROVE  /\ call[s].attempt \in Attempt /\ Target(s) \in Instance
           /\ ObjectiveOf[Target(s)] = call[s].objective
           /\ call[s].objective \in Objective
           /\ ~Answered(Target(s)) /\ ~Unissued(Target(s))
           /\ issued[Target(s)].at <= now[s]
<1>1. Locked(s) /\ call[s].kind = "accept" /\ step[s] # "idle"
  BY DEF AcceptAnswer, AcceptHistorical, Accepting, Locked
<1>2. call[s] \in Calls
  BY <1>1, LockedFacts
<1>3. call[s].attempt \in Attempt /\ Target(s) \in Instance
      /\ ObjectiveOf[Target(s)] = call[s].objective /\ call[s].objective \in Objective
  BY <1>1, <1>2, CallFacts DEF Target
<1>4. ~Unissued(Target(s)) /\ issued[Target(s)].at <= now[s]
  BY <1>1 DEF AuthorityInv, CallsSound
<1>5. CASE AcceptAnswer(s, grade)
  BY <1>1, <1>3, <1>4, <1>5, LockedFacts DEF AcceptAnswer
<1>6. CASE AcceptHistorical(s, grade)
  <2>1. Identified(s) /\ IsHistorical(s)
    BY <1>1, <1>6 DEF AcceptHistorical, Identified, Locked
  <2> QED
    BY <1>3, <1>4, <2>1 DEF AuthorityInv, HistoricalHeld
<1> QED
  BY <1>5, <1>6

LEMMA CommitTouches ==
    ASSUME AuthorityInv, NEW s \in Session, Commits(s)
    PROVE  Locked(s) /\ End(s) /\ Touches(call[s].objective) /\ Keeps
<1>1. ASSUME NEW i \in Instance,
             ReuseOpportunity(s, i) \/ IssueOpportunity(s, i) \/ IssuePractice(s, i)
      PROVE  Locked(s) /\ End(s) /\ Touches(call[s].objective) /\ Keeps
  <2>1. Locked(s) /\ End(s)
    BY <1>1 DEF ReuseOpportunity, IssueOpportunity, IssuePractice, Scheduling, MustReplace, Issuing
  <2>2. \A q \in Request : RequestFor[q] # call[s].objective => mapping'[q] = mapping[q]
    <3>1. call[s].kind = "prefetch" => call[s].objective = RequestFor[call[s].request]
      BY <2>1, LockedFacts, CallFacts
    <3> QED
      BY <1>1, <3>1 DEF ReuseOpportunity, IssueOpportunity, IssuePractice, MapTo,
                        AuthorityInv, AuthorityTypeOK
  <2>3. state' = state /\ answer' = answer
    BY <1>1 DEF ReuseOpportunity, IssueOpportunity, IssuePractice
  <2>4. \A j \in Instance : ObjectiveOf[j] # call[s].objective => slot'[j] = slot[j]
    <3>1. CASE IssueOpportunity(s, i)
      <4>1. \A j \in seen[s].active : ObjectiveOf[j] = call[s].objective
        BY <2>1, LockedFacts DEF Active
      <4> QED
        BY <3>1, <4>1 DEF IssueOpportunity, Terminalized
    <3> QED
      BY <1>1, <3>1 DEF ReuseOpportunity, IssuePractice
  <2>5. \A j \in Instance : ~Unissued(j) => issued'[j] = issued[j]
    BY <1>1 DEF ReuseOpportunity, IssueOpportunity, IssuePractice, Unissued,
                AuthorityInv, AuthorityTypeOK
  <2> QED
    BY <2>1, <2>2, <2>3, <2>4, <2>5 DEF Touches, Keeps
<1>2. ASSUME NEW grade \in Grade \cup {"none"},
             AcceptAnswer(s, grade) \/ AcceptHistorical(s, grade)
      PROVE  Locked(s) /\ End(s) /\ Touches(call[s].objective) /\ Keeps
  <2>1. Locked(s) /\ End(s) /\ UNCHANGED <<issued, mapping>>
    BY <1>2 DEF AcceptAnswer, AcceptHistorical, Accepting
  <2>2. ObjectiveOf[Target(s)] = call[s].objective /\ ~Answered(Target(s))
    BY <1>2, TargetIsUnanswered
  <2>3. \E reason \in Reason : Store(s, reason, grade)
    BY <1>2 DEF AcceptAnswer, AcceptHistorical, AcceptanceReason, Reason
  <2>4. /\ \A p \in Objective \ {call[s].objective} : state'[p] = state[p]
        /\ \A i \in Instance \ {Target(s)} : answer'[i] = answer[i]
    BY <2>3 DEF Store, AuthorityInv, AuthorityTypeOK
  <2>5. \A i \in Instance \ {Target(s)} : slot'[i] = slot[i]
    BY <1>2 DEF AcceptAnswer, AcceptHistorical, AuthorityInv, AuthorityTypeOK
  <2> QED
    BY <2>1, <2>2, <2>4, <2>5 DEF Touches, Keeps
<1> QED
  BY <1>1, <1>2 DEF Commits
-----------------------------------------------------------------------------
(* The steps: the clock, a step of a session that leaves the tables alone  *)
(* and the session busy, the end of a transaction that wrote nothing, and  *)
(* a commit.                                                               *)

Advances(s) ==
    /\ UNCHANGED tables
    /\ \/ \E c \in Calls : Begin(s, c)
       \/ Identify(s) /\ step'[s] = "identified"
       \/ LockObjective(s)

Gives(s) == UNCHANGED tables /\ End(s)

LEMMA NextSteps ==
    ASSUME AuthorityInv, Next
    PROVE  Tick \/ \E s \in Session : Advances(s) \/ Gives(s) \/ Commits(s)
<1>1. ASSUME NEW s \in Session, NEW c \in Calls, Begin(s, c) PROVE Advances(s)
  BY <1>1 DEF Advances, Begin
<1>2. ASSUME NEW s \in Session, Fail(s) PROVE Gives(s)
  BY <1>2 DEF Gives, Fail
<1>3. ASSUME NEW s \in Session, Work(s) PROVE Advances(s) \/ Gives(s) \/ Commits(s)
  <2>1. CASE Identify(s)
    <3>1. step \in [Session -> {"idle", "begun", "identified", "locked"}]
      BY DEF AuthorityInv, AuthorityTypeOK
    <3>2. UNCHANGED tables /\ (End(s) \/ step'[s] = "identified")
      BY <2>1, <3>1 DEF Identify
    <3> QED
      BY <2>1, <3>2 DEF Advances, Gives
  <2>2. CASE LockObjective(s)
    BY <2>2 DEF LockObjective, Advances, tables
  <2>3. CASE RecoverMapping(s) \/ RefuseNotDue(s) \/ RefuseAnswered(s) \/ BreakDeadlock(s)
    BY <2>3 DEF RecoverMapping, RefuseNotDue, RefuseAnswered, BreakDeadlock, Gives
  <2>4. CASE Commits(s)
    BY <2>4
  <2> QED
    BY <1>3, <2>1, <2>2, <2>3, <2>4 DEF Work, Commits
<1> QED
  BY <1>1, <1>2, <1>3 DEF Next

(* The sessions other than s stay where they are.                          *)
LEMMA OthersStay ==
    ASSUME AuthorityInv, NEW s \in Session, Advances(s) \/ Gives(s) \/ Commits(s)
    PROVE  /\ clock' = clock
           /\ \A t \in Session \ {s} :
                 step'[t] = step[t] /\ call'[t] = call[t] /\ now'[t] = now[t] /\ seen'[t] = seen[t]
<1>1. AuthorityTypeOK
  BY DEF AuthorityInv
<1>2. CASE Advances(s)
  <2>1. CASE \E c \in Calls : Begin(s, c)
    BY <1>1, <2>1 DEF Begin, AuthorityTypeOK
  <2>2. CASE Identify(s) /\ step'[s] = "identified"
    BY <1>1, <2>2 DEF Identify, End, AuthorityTypeOK
  <2>3. CASE LockObjective(s)
    BY <1>1, <2>3 DEF LockObjective, AuthorityTypeOK
  <2> QED
    BY <1>2, <2>1, <2>2, <2>3 DEF Advances
<1>3. CASE Gives(s) \/ Commits(s)
  <2>1. End(s)
    BY <1>3, CommitTouches DEF Gives
  <2> QED
    BY <1>1, <2>1 DEF End, AuthorityTypeOK
<1> QED
  BY <1>2, <1>3

(* A session that ends is idle.                                            *)
LEMMA EndIsIdle ==
    ASSUME AuthorityInv, NEW s \in Session, End(s)
    PROVE  step'[s] = "idle" /\ now'[s] = 0
BY DEF AuthorityInv, AuthorityTypeOK, End

-----------------------------------------------------------------------------
(* The sessions.                                                           *)

LEMMA CallsSoundStep ==
    ASSUME AuthorityInv, NEW s \in Session, Advances(s) \/ Gives(s) \/ Commits(s)
    PROVE  CallsSound'
<1> DEFINE Sound(t) == /\ now[t] <= clock
                       /\ step[t] # "idle" => call[t] \in Calls
                       /\ step[t] # "idle" /\ call[t].kind = "accept" =>
                             ~Unissued(Target(t)) /\ issued[Target(t)].at <= now[t]
<1>1. /\ clock' = clock /\ clock \in Nat
      /\ \A i \in Instance : ~Unissued(i) => issued'[i] = issued[i]
  BY OthersStay, CommitTouches DEF Advances, Gives, Keeps, tables, AuthorityInv, AuthorityTypeOK
<1>2. ASSUME NEW t \in Session, call[t] \in Calls, call[t].kind = "accept", ~Unissued(Target(t)),
             call'[t] = call[t], now'[t] = now[t], issued[Target(t)].at <= now[t]
      PROVE  ~Unissued(Target(t))' /\ (issued[Target(t)].at <= now[t])'
  <2>1. Target(t) \in Instance /\ Target(t)' = Target(t)
    BY <1>2, CallFacts DEF Target
  <2> QED
    BY <1>1, <1>2, <2>1 DEF Unissued
<1>3. ASSUME NEW t \in Session \ {s}
      PROVE  Sound(t)'
  BY <1>1, <1>2, OthersStay DEF AuthorityInv, CallsSound
<1>4. Sound(s)'
  <2>1. CASE Gives(s) \/ Commits(s)
    BY <1>1, <2>1, CommitTouches, EndIsIdle DEF Gives
  <2>2. ASSUME NEW c \in Calls, Begin(s, c), UNCHANGED tables
        PROVE  Sound(s)'
    <3>1. call'[s] = c /\ now'[s] = clock /\ issued' = issued
      BY <2>2 DEF Begin, tables, AuthorityInv, AuthorityTypeOK
    <3>2. c.kind = "accept" => /\ InstanceOf[c.attempt] \in Instance
                             /\ ~Unissued(InstanceOf[c.attempt])
      BY <2>2, CallFacts DEF Begin
    <3>3. c.kind = "accept" => issued[InstanceOf[c.attempt]].at <= clock
      BY <3>2 DEF AuthorityInv, SlotsSound
    <3> QED
      BY <1>1, <3>1, <3>2, <3>3 DEF Target, Unissued
  <2>3. ASSUME UNCHANGED <<call, now>>, step[s] # "idle"
        PROVE  Sound(s)'
    BY <1>1, <1>2, <2>3 DEF AuthorityInv, CallsSound
  <2>4. CASE Identify(s) /\ step'[s] = "identified"
    <3>1. step[s] # "idle" /\ UNCHANGED <<call, now>>
      BY <2>4, EndIsIdle DEF Identify
    <3> QED
      BY <2>3, <3>1
  <2>5. CASE LockObjective(s)
    BY <2>3, <2>5 DEF LockObjective
  <2> QED
    BY <2>1, <2>2, <2>4, <2>5 DEF Advances
<1> QED
  BY <1>3, <1>4 DEF CallsSound

(* What another session holds under the lock is not touched.               *)
LEMMA ViewStays ==
    ASSUME NEW o \in Objective, NEW p \in Objective \ {o}, Touches(o)
    PROVE  View(p)' = View(p)
<1>1. state'[p] = state[p]
  BY DEF Touches
<1>2. Active(p)' = Active(p)
  BY DEF Touches, Active
<1>3. {i \in Instance : ObjectiveOf[i] = p /\ Answered(i)}'
         = {i \in Instance : ObjectiveOf[i] = p /\ Answered(i)}
  BY DEF Touches, Answered
<1>4. {q \in Request : RequestFor[q] = p /\ mapping[q] # None}'
         = {q \in Request : RequestFor[q] = p /\ mapping[q] # None}
  BY DEF Touches
<1> QED
  BY <1>1, <1>2, <1>3, <1>4 DEF View

LEMMA LocksHeldStep ==
    ASSUME AuthorityInv, NEW s \in Session, Advances(s) \/ Gives(s) \/ Commits(s)
    PROVE  LocksHeld'
<1>1. \A t \in Session \ {s}, o \in Objective :
          (HasLock(t, o)' <=> HasLock(t, o)) /\ seen'[t] = seen[t]
  BY OthersStay DEF HasLock, Locked
<1>2. CASE LockObjective(s)
  <2>1. /\ call' = call /\ seen'[s] = View(call[s].objective)
        /\ \A t \in Session : Locked(t) => call[t].objective # call[s].objective
    BY <1>2 DEF LockObjective, AuthorityInv, AuthorityTypeOK
  <2>2. \A o \in Objective : View(o)' = View(o)
    BY <1>2 DEF LockObjective, tables, View, Active, Answered
  <2>3. ASSUME NEW t \in Session, NEW o \in Objective, HasLock(t, o)'
        PROVE  seen'[t] = View(o)' /\ \A u \in Session : HasLock(u, o)' => u = t
    <3>1. CASE t = s
      <4>1. call[s].objective = o
        BY <2>1, <2>3, <3>1 DEF HasLock
      <4> QED
        BY <1>1, <2>1, <2>2, <3>1, <4>1 DEF HasLock
    <3>2. CASE t # s
      <4>1. HasLock(t, o) /\ seen'[t] = seen[t]
        BY <1>1, <2>3, <3>2
      <4>2. call[s].objective # o
        BY <2>1, <4>1 DEF HasLock
      <4>3. ~HasLock(s, o)'
        BY <2>1, <4>2 DEF HasLock
      <4> QED
        BY <1>1, <2>2, <4>1, <4>3 DEF AuthorityInv, LocksHeld
    <3> QED
      BY <3>1, <3>2
  <2> QED
    BY <2>3 DEF LocksHeld
<1>3. CASE ~Locked(s)'
  <2>1. \A o \in Objective : ~HasLock(s, o)'
    BY <1>3 DEF HasLock
  <2>2. ASSUME NEW t \in Session \ {s}, NEW o \in Objective, HasLock(t, o)
        PROVE  View(o)' = View(o)
    <3>1. CASE UNCHANGED tables
      BY <3>1 DEF tables, View, Active, Answered
    <3>2. CASE Commits(s)
      <4>1. Locked(s) /\ Touches(call[s].objective) /\ call[s].objective \in Objective
        BY <3>2, CommitTouches, LockedFacts, CallFacts
      <4>2. call[s].objective # o
        BY <2>2, <4>1 DEF AuthorityInv, LocksHeld, HasLock
      <4> QED
        BY <4>1, <4>2, ViewStays
    <3> QED
      BY <3>1, <3>2 DEF Advances, Gives
  <2> QED
    BY <1>1, <2>1, <2>2 DEF AuthorityInv, LocksHeld
<1>4. Locked(s)' => LockObjective(s)
  <2>1. ASSUME NEW c \in Calls, Begin(s, c) PROVE ~Locked(s)'
    BY <2>1 DEF Begin, Locked, AuthorityInv, AuthorityTypeOK
  <2>2. Gives(s) \/ Commits(s) => ~Locked(s)'
    BY CommitTouches, EndIsIdle DEF Gives, Locked
  <2> QED
    BY <2>1, <2>2 DEF Advances, Locked
<1> QED
  BY <1>2, <1>3, <1>4

LEMMA HistoricalHeldStep ==
    ASSUME AuthorityInv, NEW s \in Session, Advances(s) \/ Gives(s) \/ Commits(s)
    PROVE  HistoricalHeld'
<1> DEFINE Holds(t) == Identified(t) /\ IsHistorical(t)
<1>1. \A t \in Session \ {s} : /\ Holds(t)' <=> Holds(t)
                               /\ call'[t] = call[t] /\ Target(t)' = Target(t)
  BY OthersStay DEF Identified, IsHistorical, Target
<1>2. ASSUME NEW t \in Session, Holds(t)
      PROVE  /\ Target(t) \in Instance /\ Target(t) \in Historical
             /\ ObjectiveOf[Target(t)] = call[t].objective
  <2>1. call[t] \in Calls /\ call[t].kind = "accept"
    BY <1>2 DEF Identified, AuthorityInv, CallsSound
  <2> QED
    BY <1>2, <2>1, CallFacts DEF Target, IsHistorical
<1>3. ASSUME NEW t \in Session \ {s}, Holds(t)
      PROVE  ~Answered(Target(t))'
  <2>1. ~Answered(Target(t)) /\ Target(t)' = Target(t)
    BY <1>1, <1>3 DEF AuthorityInv, HistoricalHeld
  <2>2. CASE UNCHANGED tables
    BY <2>1, <2>2 DEF tables, Answered
  <2>3. ASSUME NEW i \in Instance,
               ReuseOpportunity(s, i) \/ IssueOpportunity(s, i) \/ IssuePractice(s, i)
        PROVE  ~Answered(Target(t))'
    BY <2>1, <2>3 DEF ReuseOpportunity, IssueOpportunity, IssuePractice, Answered
  <2>4. ASSUME NEW grade \in Grade \cup {"none"},
               AcceptAnswer(s, grade) \/ AcceptHistorical(s, grade)
        PROVE  ~Answered(Target(t))'
    <3>1. Target(t) # Target(s)
      <4>1. CASE AcceptAnswer(s, grade)
        BY <1>2, <1>3, <4>1 DEF AcceptAnswer, Accepting, IsHistorical
      <4>2. CASE AcceptHistorical(s, grade)
        <5>1. Holds(s)
          BY <4>2 DEF AcceptHistorical, Accepting, Locked, Identified
        <5> QED
          BY <1>2, <1>3, <5>1 DEF AuthorityInv, HistoricalHeld
      <4> QED
        BY <2>4, <4>1, <4>2
    <3>2. \E reason \in Reason : Store(s, reason, grade)
      BY <2>4 DEF AcceptAnswer, AcceptHistorical, AcceptanceReason, Reason
    <3>3. answer'[Target(t)] = answer[Target(t)]
      BY <1>2, <1>3, <3>1, <3>2 DEF Store, AuthorityInv, AuthorityTypeOK
    <3> QED
      BY <2>1, <3>3 DEF Answered
  <2> QED
    BY <2>2, <2>3, <2>4 DEF Advances, Gives, Commits
<1>4. ASSUME Holds(s)'
      PROVE  /\ ~Answered(Target(s))'
             /\ call' = call /\ (Holds(s) \/ (Identify(s) /\ step'[s] = "identified"))
             /\ UNCHANGED tables
  <2>1. ~(Gives(s) \/ Commits(s))
    BY <1>4, CommitTouches, EndIsIdle DEF Gives, Identified
  <2>2. ASSUME NEW c \in Calls PROVE ~Begin(s, c)
    BY <1>4 DEF Begin, Identified, AuthorityInv, AuthorityTypeOK
  <2>3. CASE LockObjective(s)
    <3>1. call' = call /\ UNCHANGED tables /\ Holds(s)
      BY <1>4, <2>3 DEF LockObjective, tables, Identified, IsHistorical, Target
    <3>2. ~Answered(Target(s)) /\ Target(s)' = Target(s)
      BY <3>1 DEF AuthorityInv, HistoricalHeld, Target
    <3> QED
      BY <3>1, <3>2 DEF tables, Answered
  <2>4. CASE Identify(s) /\ step'[s] = "identified"
    <3>1. ~End(s)
      BY <2>4, EndIsIdle
    <3>2. call' = call /\ ~(IsHistorical(s) /\ Answered(Target(s))) /\ UNCHANGED tables
      BY <2>4, <3>1 DEF Identify
    <3> QED
      BY <1>4, <2>4, <3>2 DEF tables, Answered, IsHistorical, Target
  <2> QED
    BY <2>1, <2>2, <2>3, <2>4 DEF Advances
<1>5. ASSUME NEW t \in Session, NEW u \in Session, Holds(t)', Holds(u)',
             call'[t].objective = call'[u].objective
      PROVE  t = u
  <2>1. CASE t # s /\ u # s
    BY <1>1, <1>5, <2>1 DEF AuthorityInv, HistoricalHeld
  <2>2. ASSUME NEW v \in Session \ {s}, Holds(s)', Holds(v)',
               call'[s].objective = call'[v].objective
        PROVE  FALSE
    <3>1. Holds(v) /\ call[v].objective = call[s].objective
      BY <1>1, <1>4, <2>2
    <3>2. CASE Holds(s)
      BY <3>1, <3>2 DEF AuthorityInv, HistoricalHeld
    <3>3. CASE Identify(s) /\ step'[s] = "identified"
      <4>1. IsHistorical(s)
        BY <1>4, <2>2 DEF IsHistorical, Target
      <4> QED
        BY <3>1, <3>3, <4>1 DEF Identify
    <3> QED
      BY <1>4, <2>2, <3>2, <3>3
  <2> QED
    BY <1>5, <2>1, <2>2
<1> QED
  BY <1>1, <1>3, <1>4, <1>5 DEF HistoricalHeld

-----------------------------------------------------------------------------
(* What a commit does to the tables, in terms of the tables.               *)

(* Instance i is issued for o and takes over its opportunity.              *)
Opens(i, o, time) ==
    /\ UNCHANGED <<state, answer>>
    /\ issued' = [issued EXCEPT ![i] = [use |-> "srs", expected |-> state[o].revision,
                                       at |-> time, expires |-> time + Lease]]
    /\ slot' \in [Instance -> Slot]
    /\ slot'[i] = "active"
    /\ \A j \in Active(o) \ {i} : slot'[j] \in {"expired", "stale"}
    /\ \A j \in Instance \ (Active(o) \cup {i}) : slot'[j] = slot[j]
    /\ state[o].due <= time

LEMMA IssueOpens ==
    ASSUME AuthorityInv, NEW s \in Session, NEW i \in Instance, IssueOpportunity(s, i)
    PROVE  /\ Opens(i, call[s].objective, now[s])
           /\ Unissued(i) /\ ObjectiveOf[i] = call[s].objective
           /\ call[s].objective \in Objective
<1> DEFINE o == call[s].objective
<1>1. Locked(s)
  BY DEF IssueOpportunity, MustReplace, Scheduling, Issuing
<1>2. o \in Objective /\ seen[s].state = state[o] /\ seen[s].active = Active(o)
  BY <1>1, LockedFacts, CallFacts
<1>3. AuthorityTypeOK /\ StatesSound
  BY DEF AuthorityInv
<1>4. state[o].revision \in Nat /\ state[o].due \in Nat /\ now[s] \in Nat
  BY <1>2, <1>3 DEF AuthorityTypeOK, State
<1>5. state[o].due <= now[s]
  BY <1>2, <1>3, <1>4 DEF IssueOpportunity, NotDue, StatesSound
<1>6. Terminalized(s) \in [Instance -> Slot]
  BY <1>3 DEF Terminalized, AuthorityTypeOK, Slot
<1>7. slot' = [Terminalized(s) EXCEPT ![i] = "active"]
  BY DEF IssueOpportunity
<1>8. slot' \in [Instance -> Slot] /\ slot'[i] = "active"
  BY <1>6, <1>7 DEF Slot
<1>9. /\ \A j \in Active(o) \ {i} : slot'[j] \in {"expired", "stale"}
      /\ \A j \in Instance \ (Active(o) \cup {i}) : slot'[j] = slot[j]
  BY <1>2, <1>6, <1>7 DEF Terminalized, Active
<1> HIDE DEF o
<1> QED
  BY <1>2, <1>5, <1>8, <1>9 DEF Opens, IssueOpportunity, o

(* The answer to instance i of o is recorded; if it is applied, the state  *)
(* of o moves on to new.                                                   *)
Answers(s, i, o, reason, new) ==
    /\ UNCHANGED <<issued, mapping>>
    /\ answer' = [answer EXCEPT ![i] =
          [attempt |-> call[s].attempt, reason |-> reason,
           revision |-> IF reason = "applied" THEN new.revision ELSE 0]]
    /\ reason = "applied" => /\ state' = [state EXCEPT ![o] = new]
                             /\ new \in State
                             /\ new.revision = state[o].revision + 1
                             /\ new.reviewed = now[s]
    /\ reason # "applied" => state' = state
    /\ slot' \in [Instance -> Slot]
    /\ slot'[i] # "active" /\ (slot[i] = "none" => slot'[i] = "none")
    /\ \A j \in Instance \ {i} : slot'[j] = slot[j]

LEMMA AcceptAnswers ==
    ASSUME AuthorityInv, NEW s \in Session, NEW grade \in Grade \cup {"none"},
           AcceptAnswer(s, grade) \/ AcceptHistorical(s, grade)
    PROVE  Answers(s, Target(s), call[s].objective, AcceptanceReason(s, grade),
                   NextState(state[call[s].objective], grade, now[s]))
<1> DEFINE i == Target(s)
           o == call[s].objective
           reason == AcceptanceReason(s, grade)
           new == NextState(state[o], grade, now[s])
<1>1. Locked(s) /\ i \in Instance /\ o \in Objective
  BY TargetIsUnanswered DEF AcceptAnswer, AcceptHistorical, Accepting
<1>2. seen[s].state = state[o]
  BY <1>1, LockedFacts
<1>3. AuthorityTypeOK /\ state[o] \in State /\ now[s] \in Nat
  BY <1>1 DEF AuthorityInv, AuthorityTypeOK
<1>4. reason = "applied" => grade \in Grade
  BY DEF AcceptanceReason
<1>5. reason = "applied" => /\ new \in State /\ new.revision = state[o].revision + 1
                            /\ new.reviewed = now[s]
  BY <1>3, <1>4, NextStateIsState
<1>6. Store(s, reason, grade) /\ UNCHANGED <<issued, mapping>>
  BY DEF AcceptAnswer, AcceptHistorical
<1>7. /\ slot' \in [Instance -> Slot] /\ slot'[i] # "active"
      /\ slot[i] = "none" => slot'[i] = "none"
      /\ \A j \in Instance \ {i} : slot'[j] = slot[j]
  <2>1. CASE AcceptAnswer(s, grade)
    <3>1. slot' = [slot EXCEPT ![i] = SlotAfter(i, reason)]
      BY <2>1 DEF AcceptAnswer
    <3>2. SlotAfter(i, reason) \in Slot \ {"active"} /\ (slot[i] = "none" => SlotAfter(i, reason) = "none")
      BY <1>1, <1>3 DEF SlotAfter, Slot, AuthorityTypeOK
    <3> HIDE DEF i, reason
    <3> QED
      BY <1>1, <1>3, <3>1, <3>2 DEF AuthorityTypeOK
  <2>2. CASE AcceptHistorical(s, grade)
    <3>1. slot' = slot /\ i \in Historical
      BY <2>2 DEF AcceptHistorical, IsHistorical
    <3>2. slot[i] # "active"
      BY <1>1, <3>1 DEF AuthorityInv, SlotsSound
    <3> QED
      BY <1>3, <3>1, <3>2 DEF AuthorityTypeOK
  <2> QED
    BY <2>1, <2>2
<1>8. /\ answer' = [answer EXCEPT ![i] =
          [attempt |-> call[s].attempt, reason |-> reason,
           revision |-> IF reason = "applied" THEN new.revision ELSE 0]]
      /\ reason = "applied" => state' = [state EXCEPT ![o] = new]
      /\ reason # "applied" => state' = state
  BY <1>2, <1>6 DEF Store
<1> HIDE DEF i, o, reason, new
<1>9. Answers(s, i, o, reason, new)
  BY <1>5, <1>6, <1>7, <1>8 DEF Answers
<1> QED
  BY <1>9 DEF i, o, reason, new

(* The rest of the commits: nothing of this changes, or an instance is     *)
(* issued for practice.                                                    *)
Practises(i, time) ==
    /\ UNCHANGED <<state, slot, answer, mapping>>
    /\ issued' = [issued EXCEPT ![i] = [NoContext("practice-only") EXCEPT !.at = time]]

TableSteps(s) ==
    \/ UNCHANGED <<state, issued, slot, answer>>
    \/ \E i \in Instance :
          /\ Unissued(i) /\ ObjectiveOf[i] \in Objective
          /\ Opens(i, ObjectiveOf[i], now[s]) \/ Practises(i, now[s])
    \/ \E i \in Instance, reason \in Reason : \E new :
          /\ ~Answered(i) /\ ~Unissued(i) /\ ObjectiveOf[i] \in Objective
          /\ call[s].attempt \in Attempt /\ InstanceOf[call[s].attempt] = i
          /\ Answers(s, i, ObjectiveOf[i], reason, new)

LEMMA StepTables ==
    ASSUME AuthorityInv, NEW s \in Session, Advances(s) \/ Gives(s) \/ Commits(s)
    PROVE  TableSteps(s)
<1>1. CASE Advances(s) \/ Gives(s)
  BY <1>1 DEF Advances, Gives, tables, TableSteps
<1>2. ASSUME NEW i \in Instance, ReuseOpportunity(s, i) PROVE TableSteps(s)
  BY <1>2 DEF ReuseOpportunity, TableSteps
<1>3. ASSUME NEW i \in Instance, IssueOpportunity(s, i) PROVE TableSteps(s)
  BY <1>3, IssueOpens DEF TableSteps
<1>4. ASSUME NEW i \in Instance, IssuePractice(s, i) PROVE TableSteps(s)
  <2>1. Unissued(i) /\ ObjectiveOf[i] = call[s].objective /\ Locked(s) /\ Practises(i, now[s])
    BY <1>4 DEF IssuePractice, Practises, Issuing
  <2>2. call[s].objective \in Objective
    BY <2>1, LockedFacts, CallFacts
  <2> QED
    BY <2>1, <2>2 DEF TableSteps
<1>5. ASSUME NEW grade \in Grade \cup {"none"},
             AcceptAnswer(s, grade) \/ AcceptHistorical(s, grade)
      PROVE  TableSteps(s)
  <2>1. AcceptanceReason(s, grade) \in Reason
    BY DEF AcceptanceReason, Reason
  <2> QED
    BY <1>5, <2>1, AcceptAnswers, TargetIsUnanswered DEF TableSteps, Target
<1> QED
  BY <1>1, <1>2, <1>3, <1>4, <1>5 DEF Commits

-----------------------------------------------------------------------------
(* The tables.                                                             *)

LEMMA StatesSoundStep ==
    ASSUME AuthorityInv, NEW s \in Session, TableSteps(s)
    PROVE  StatesSound'
<1>1. StatesSound /\ AuthorityTypeOK
  BY DEF AuthorityInv
<1>2. CASE state' = state
  BY <1>1, <1>2 DEF StatesSound
<1>3. ASSUME NEW o \in Objective, NEW new \in State, state' = [state EXCEPT ![o] = new],
             new.revision = state[o].revision + 1
      PROVE  StatesSound'
  <2>1. new.revision # 0
    BY <1>1, <1>3 DEF AuthorityTypeOK, State
  <2> QED
    BY <1>1, <1>3, <2>1 DEF StatesSound, AuthorityTypeOK
<1> QED
  BY <1>2, <1>3 DEF TableSteps, Opens, Practises, Answers

LEMMA SlotsSoundStep ==
    ASSUME AuthorityInv, NEW s \in Session, TableSteps(s), clock' = clock
    PROVE  SlotsSound'
<1>1. SlotsSound /\ AuthorityTypeOK /\ now[s] <= clock
  BY DEF AuthorityInv, CallsSound
<1>2. ObjectiveOf \in [Instance -> Objective]
  BY AuthorityAssumption
<1>3. CASE UNCHANGED <<state, issued, slot, answer>>
  BY <1>1, <1>3 DEF SlotsSound, Answered, Unissued
<1>4. ASSUME NEW i \in Instance, Unissued(i), Opens(i, ObjectiveOf[i], now[s])
      PROVE  SlotsSound'
  <2>1. ASSUME NEW j \in Instance \ {i}, slot'[j] = "active"
        PROVE  slot[j] = "active"
    BY <1>4, <2>1 DEF Opens, Active
  <2>2. ASSUME NEW j \in Instance \ {i}, slot'[j] # "none"
        PROVE  slot[j] # "none"
    BY <1>4, <2>2 DEF Opens, Active
  <2>3. UNCHANGED <<state, answer>> /\ \A j \in Instance \ {i} : issued'[j] = issued[j]
    BY <1>1, <1>4 DEF Opens, AuthorityTypeOK
  <2>4. /\ issued'[i].use = "srs" /\ issued'[i].at = now[s]
        /\ issued'[i].expected = state[ObjectiveOf[i]].revision
        /\ state[ObjectiveOf[i]].due <= now[s]
    BY <1>1, <1>4 DEF Opens, AuthorityTypeOK
  <2>5. i \notin Historical /\ ~Answered(i)
    BY <1>1, <1>4 DEF SlotsSound, Unissued
  <2>6. state[ObjectiveOf[i]].revision \in Nat
    BY <1>1, <1>2 DEF AuthorityTypeOK, State
  <2> QED
    BY <1>1, <2>1, <2>2, <2>3, <2>4, <2>5, <2>6 DEF SlotsSound, Answered, Unissued
<1>5. ASSUME NEW i \in Instance, Unissued(i), Practises(i, now[s])
      PROVE  SlotsSound'
  <2>1. UNCHANGED <<state, slot, answer>> /\ \A j \in Instance \ {i} : issued'[j] = issued[j]
    BY <1>1, <1>5 DEF Practises, AuthorityTypeOK
  <2>2. issued'[i].use = "practice-only" /\ issued'[i].at = now[s]
    BY <1>1, <1>5 DEF Practises, AuthorityTypeOK, NoContext
  <2>3. i \notin Historical /\ ~Answered(i) /\ slot[i] = "none"
    BY <1>1, <1>5 DEF SlotsSound, Unissued
  <2> QED
    BY <1>1, <2>1, <2>2, <2>3 DEF SlotsSound, Answered, Unissued
<1>6. ASSUME NEW i \in Instance, NEW reason \in Reason, NEW new,
             ~Unissued(i), call[s].attempt \in Attempt,
             Answers(s, i, ObjectiveOf[i], reason, new)
      PROVE  SlotsSound'
  <2>1. /\ issued' = issued
        /\ \A j \in Instance \ {i} : answer'[j] = answer[j] /\ slot'[j] = slot[j]
        /\ slot'[i] # "active" /\ (slot[i] = "none" => slot'[i] = "none")
        /\ answer'[i].attempt = call[s].attempt
    BY <1>1, <1>6 DEF Answers, AuthorityTypeOK
  <2>2. answer'[i].attempt # None
    BY <1>6, <2>1, AuthorityAssumption
  <2>3. \A o \in Objective :
           \/ state'[o] = state[o]
           \/ state'[o].revision = state[o].revision + 1
    BY <1>1, <1>2, <1>6 DEF Answers, AuthorityTypeOK
  <2>4. \A o \in Objective : state[o].revision \in Nat
    BY <1>1 DEF AuthorityTypeOK, State
  <2>5. \A j \in Instance : issued[j].expected \in Nat
    BY <1>1 DEF AuthorityTypeOK, Context
  <2>6. ASSUME NEW j \in Instance, slot'[j] = "active"
        PROVE  /\ ~Answered(j)'
               /\ issued[j].expected <= state'[ObjectiveOf[j]].revision
               /\ issued[j].expected = state'[ObjectiveOf[j]].revision =>
                     state'[ObjectiveOf[j]].due <= issued[j].at
    BY <1>1, <1>2, <2>1, <2>3, <2>4, <2>5, <2>6 DEF SlotsSound, Answered
  <2>7. ASSUME NEW j \in Instance
        PROVE  /\ Unissued(j)' => ~Answered(j)'
               /\ Answered(j)' => answer'[j].attempt # None
               /\ slot'[j] # "none" => issued'[j].use = "srs"
    BY <1>1, <1>6, <2>1, <2>2 DEF SlotsSound, Answered, Unissued
  <2> QED
    BY <1>1, <2>1, <2>6, <2>7 DEF SlotsSound
<1> QED
  BY <1>3, <1>4, <1>5, <1>6 DEF TableSteps

LEMMA OneActiveStep ==
    ASSUME AuthorityInv, NEW s \in Session, TableSteps(s)
    PROVE  OneActiveOpportunity'
<1>1. OneActiveOpportunity
  BY DEF AuthorityInv
<1>2. ASSUME NEW i \in Instance, Opens(i, ObjectiveOf[i], now[s])
      PROVE  OneActiveOpportunity'
  BY <1>1, <1>2 DEF Opens, Active, OneActiveOpportunity
<1>3. CASE \A i \in Instance : slot'[i] = "active" => slot[i] = "active"
  BY <1>1, <1>3 DEF OneActiveOpportunity
<1> QED
  BY <1>2, <1>3 DEF TableSteps, Practises, Answers

LEMMA MappingsSoundStep ==
    ASSUME AuthorityInv, NEW s \in Session, Advances(s) \/ Gives(s) \/ Commits(s)
    PROVE  /\ MappingsSound'
           /\ \A q \in Request : mapping[q] # None => mapping'[q] = mapping[q]
<1>1. MappingsSound /\ AuthorityTypeOK
  BY DEF AuthorityInv
<1>2. \A i \in Instance : ~Unissued(i) => issued'[i] = issued[i]
  BY CommitTouches DEF Advances, Gives, tables, Keeps
<1>3. ASSUME NEW q \in Request, mapping[q] # None
      PROVE  /\ ObjectiveOf[mapping[q]] = RequestFor[q]
             /\ issued'[mapping[q]].use = "srs"
  BY <1>1, <1>2, <1>3 DEF MappingsSound, AuthorityTypeOK, Unissued
<1>4. CASE mapping' = mapping
  BY <1>3, <1>4 DEF MappingsSound
<1>5. ASSUME NEW i \in Instance, ReuseOpportunity(s, i) \/ IssueOpportunity(s, i),
             mapping' # mapping
      PROVE  /\ MappingsSound'
             /\ \A q \in Request : mapping[q] # None => mapping'[q] = mapping[q]
  <2> DEFINE q == call[s].request
  <2>1. /\ Locked(s) /\ ~Recovering(s) /\ call[s].kind = "prefetch"
        /\ mapping' = [mapping EXCEPT ![q] = i]
    BY <1>5 DEF ReuseOpportunity, IssueOpportunity, MustReplace, Scheduling, Issuing, MapTo
  <2>2. q \in Request /\ call[s].objective = RequestFor[q]
    BY <2>1, LockedFacts, CallFacts
  <2>3. mapping[q] = None
    BY <2>1, <2>2, LockedFacts DEF Recovering
  <2>4. ObjectiveOf[i] = RequestFor[q] /\ issued'[i].use = "srs"
    <3>1. CASE ReuseOpportunity(s, i)
      <4>1. i \in Active(call[s].objective) /\ issued' = issued
        BY <2>1, <3>1, LockedFacts DEF ReuseOpportunity
      <4> QED
        BY <2>2, <4>1 DEF Active, AuthorityInv, SlotsSound
    <3>2. CASE IssueOpportunity(s, i)
      BY <1>1, <2>2, <3>2, IssueOpens DEF Opens, AuthorityTypeOK
    <3> QED
      BY <1>5, <3>1, <3>2
  <2> HIDE DEF q
  <2> QED
    BY <1>1, <1>3, <2>1, <2>2, <2>3, <2>4 DEF MappingsSound, AuthorityTypeOK
<1> QED
  BY <1>4, <1>5 DEF Advances, Gives, Commits, tables, IssuePractice, AcceptAnswer, AcceptHistorical

LEMMA AppliedChainStep ==
    ASSUME AuthorityInv, NEW s \in Session, TableSteps(s)
    PROVE  AppliedChain'
<1>1. AppliedChain /\ AuthorityTypeOK
  BY DEF AuthorityInv
<1>2. CASE UNCHANGED <<state, answer>>
  BY <1>1, <1>2 DEF AppliedChain, Applied
<1>3. ASSUME NEW i \in Instance, NEW reason \in Reason, NEW new, ~Answered(i),
             ObjectiveOf[i] \in Objective, Answers(s, i, ObjectiveOf[i], reason, new)
      PROVE  AppliedChain'
  <2> DEFINE o == ObjectiveOf[i]
  <2>1. /\ \A j \in Instance \ {i} : answer'[j] = answer[j]
        /\ answer'[i].reason = reason
        /\ reason = "applied" => answer'[i].revision = new.revision
    BY <1>1, <1>3 DEF Answers, AuthorityTypeOK
  <2>2. \A p \in Objective : i \notin Applied(p)
    BY <1>3 DEF Applied, Answered, NoAnswer
  <2>3. CASE reason # "applied"
    <3>1. state' = state /\ \A p \in Objective : Applied(p)' = Applied(p)
      BY <1>3, <2>1, <2>2, <2>3 DEF Answers, Applied
    <3>2. \A p \in Objective : \A j \in Applied(p) : answer'[j] = answer[j]
      BY <2>1, <2>2 DEF Applied
    <3> QED
      BY <1>1, <3>1, <3>2 DEF AppliedChain
  <2>4. CASE reason = "applied"
    <3>1. /\ state'[o].revision = state[o].revision + 1
          /\ \A p \in Objective \ {o} : state'[p] = state[p]
          /\ answer'[i].revision = state[o].revision + 1
      BY <1>1, <1>3, <2>1, <2>4 DEF Answers, AuthorityTypeOK
    <3>2. /\ Applied(o)' = Applied(o) \cup {i}
          /\ \A p \in Objective \ {o} : Applied(p)' = Applied(p)
      BY <2>1, <2>4 DEF Applied
    <3>3. \A p \in Objective : \A j \in Applied(p) : answer'[j] = answer[j]
      BY <2>1, <2>2 DEF Applied
    <3>4. state[o].revision \in Nat
      BY <1>1, <1>3 DEF AuthorityTypeOK, State
    <3>5. ASSUME NEW p \in Objective
          PROVE  /\ \A n \in 1 .. state'[p].revision :
                       \E j \in Applied(p)' : answer'[j].revision = n
                 /\ \A j, k \in Applied(p)' :
                       /\ answer'[j].revision \in 1 .. state'[p].revision
                       /\ answer'[j].revision = answer'[k].revision => j = k
      <4>1. CASE p # o
        <5>1. Applied(p)' = Applied(p) /\ state'[p] = state[p]
          BY <3>1, <3>2, <4>1
        <5> QED
          BY <1>1, <3>3, <5>1 DEF AppliedChain
      <4>2. CASE p = o
        <5>1. ASSUME NEW n \in 1 .. state[o].revision + 1
              PROVE  \E j \in Applied(o) \cup {i} : answer'[j].revision = n
          <6>1. CASE n = state[o].revision + 1
            BY <3>1, <6>1
          <6>2. CASE n \in 1 .. state[o].revision
            BY <1>1, <1>3, <3>3, <6>2 DEF AppliedChain
          <6> QED
            BY <3>4, <6>1, <6>2
        <5>2. \A j \in Applied(o) : answer'[j].revision \in 1 .. state[o].revision
          BY <1>1, <1>3, <3>3 DEF AppliedChain
        <5>3. \A j, k \in Applied(o) : answer'[j].revision = answer'[k].revision => j = k
          BY <1>1, <1>3, <3>3 DEF AppliedChain
        <5> HIDE DEF o
        <5> QED
          BY <3>1, <3>2, <3>4, <4>2, <5>1, <5>2, <5>3
      <4> QED
        BY <4>1, <4>2
    <3> QED
      BY <3>5 DEF AppliedChain
  <2> QED
    BY <2>3, <2>4
<1> QED
  BY <1>2, <1>3 DEF TableSteps, Opens, Practises

LEMMA TypeStep ==
    ASSUME AuthorityInv, NEW s \in Session, Advances(s) \/ Gives(s) \/ Commits(s)
    PROVE  AuthorityTypeOK'
<1>1. AuthorityTypeOK
  BY DEF AuthorityInv
<1>2. TableSteps(s) /\ clock' = clock
  BY StepTables, OthersStay
<1>3. state' \in [Objective -> State]
  BY <1>1, <1>2 DEF TableSteps, Opens, Practises, Answers, AuthorityTypeOK
<1>4. slot' \in [Instance -> Slot]
  BY <1>1, <1>2 DEF TableSteps, Opens, Practises, Answers, AuthorityTypeOK
<1>5. issued' \in [Instance -> Context]
  <2>1. ASSUME NEW i \in Instance, ObjectiveOf[i] \in Objective, Opens(i, ObjectiveOf[i], now[s])
        PROVE  issued' \in [Instance -> Context]
    <3>1. /\ state[ObjectiveOf[i]].revision \in Nat /\ now[s] \in Nat
          /\ now[s] + Lease \in Nat
      BY <1>1, <2>1, TimeAssumption DEF AuthorityTypeOK, State
    <3> QED
      BY <1>1, <2>1, <3>1 DEF Opens, AuthorityTypeOK, Context, Use
  <2>2. ASSUME NEW i \in Instance, Practises(i, now[s])
        PROVE  issued' \in [Instance -> Context]
    <3>1. NoContext("practice-only") \in Context
      BY DEF NoContext, Context, Use
    <3>2. [NoContext("practice-only") EXCEPT !.at = now[s]] \in Context
      BY <1>1, <3>1 DEF Context, AuthorityTypeOK
    <3> QED
      BY <1>1, <2>2, <3>2 DEF Practises, AuthorityTypeOK
  <2> QED
    BY <1>1, <1>2, <2>1, <2>2 DEF TableSteps, Answers, AuthorityTypeOK
<1>6. answer' \in [Instance -> Application]
  <2>1. ASSUME NEW i \in Instance, NEW reason \in Reason, NEW new,
               call[s].attempt \in Attempt, Answers(s, i, ObjectiveOf[i], reason, new)
        PROVE  answer' \in [Instance -> Application]
    <3>1. (IF reason = "applied" THEN new.revision ELSE 0) \in Nat
      BY <2>1 DEF Answers, State
    <3> QED
      BY <1>1, <2>1, <3>1 DEF Answers, AuthorityTypeOK, Application
  <2> QED
    BY <1>1, <1>2, <2>1 DEF TableSteps, Opens, Practises, AuthorityTypeOK
<1>7. mapping' \in [Request -> Instance \cup {None}]
  BY <1>1 DEF Advances, Gives, Commits, tables, ReuseOpportunity, IssueOpportunity, IssuePractice,
              AcceptAnswer, AcceptHistorical, MapTo, AuthorityTypeOK
<1> DEFINE Read == [state : State, active : SUBSET Instance,
                    answered : SUBSET Instance, mapped : SUBSET Request]
           SessionsOK == /\ step \in [Session -> {"idle", "begun", "identified", "locked"}]
                         /\ call \in [Session -> Call]
                         /\ now \in [Session -> Nat]
                         /\ seen \in [Session -> Read]
<1>8. SessionsOK'
  <2>1. CASE End(s)
    <3>1. NoCall \in Call /\ Nothing \in Read
      BY DEF NoCall, Call, Kind, Nothing, Unseen, State
    <3> QED
      BY <1>1, <2>1, <3>1 DEF End, AuthorityTypeOK
  <2>2. ASSUME NEW c \in Calls, Begin(s, c)
        PROVE  SessionsOK'
    <3>1. c \in Call
      BY CallFacts
    <3> QED
      BY <1>1, <2>2, <3>1 DEF Begin, AuthorityTypeOK
  <2>3. CASE Identify(s) /\ step'[s] = "identified"
    <3>1. ~End(s)
      BY <2>3, EndIsIdle
    <3> QED
      BY <1>1, <2>3, <3>1 DEF Identify, AuthorityTypeOK
  <2>4. CASE LockObjective(s)
    <3>1. step[s] # "idle"
      BY <2>4 DEF LockObjective
    <3>2. call[s].objective \in Objective
      BY <3>1, CallFacts DEF AuthorityInv, CallsSound
    <3>3. View(call[s].objective) \in Read
      BY <1>1, <3>2 DEF View, Active, AuthorityTypeOK
    <3> QED
      BY <1>1, <2>4, <3>3 DEF LockObjective, AuthorityTypeOK
  <2> QED
    BY <2>1, <2>2, <2>3, <2>4, CommitTouches DEF Advances, Gives
<1> QED
  BY <1>1, <1>2, <1>3, <1>4, <1>5, <1>6, <1>7, <1>8 DEF AuthorityTypeOK

-----------------------------------------------------------------------------
(* The invariant.                                                          *)

LEMMA AuthorityInit == Init => AuthorityInv
<1> SUFFICES ASSUME Init PROVE AuthorityInv
  OBVIOUS
<1>1. /\ Unseen \in State /\ NoAnswer \in Application /\ NoCall \in Call
      /\ \A use \in Use : NoContext(use) \in Context
      /\ Nothing \in [state : State, active : SUBSET Instance,
                      answered : SUBSET Instance, mapped : SUBSET Request]
  BY DEF Unseen, State, NoAnswer, Application, NoCall, Call, Kind, NoContext, Context, Nothing
<1>2. AuthorityTypeOK
  BY <1>1 DEF Init, AuthorityTypeOK, Use, Slot
<1>3. CallsSound /\ LocksHeld /\ HistoricalHeld
  BY DEF Init, CallsSound, LocksHeld, HasLock, HistoricalHeld, Locked, Identified
<1>4. SlotsSound
  BY DEF Init, SlotsSound, Answered, Unissued, NoContext
<1>5. OneActiveOpportunity /\ MappingsSound
  BY DEF Init, OneActiveOpportunity, MappingsSound
<1>6. AppliedChain /\ StatesSound
  BY DEF Init, AppliedChain, Applied, NoAnswer, Unseen, StatesSound
<1> QED
  BY <1>2, <1>3, <1>4, <1>5, <1>6 DEF AuthorityInv

LEMMA TickKeeps == AuthorityInv /\ Tick => AuthorityInv'
<1> SUFFICES ASSUME AuthorityInv, Tick PROVE AuthorityInv'
  OBVIOUS
<1>1. /\ clock \in Nat /\ clock' = clock + 1
      /\ \A s \in Session : now[s] \in Nat
      /\ \A i \in Instance : issued[i].at \in Nat
  BY DEF AuthorityInv, AuthorityTypeOK, Tick, Context
<1>2. UNCHANGED <<tables, session>>
  BY DEF Tick
<1>3. AuthorityTypeOK' /\ StatesSound'
  BY <1>1, <1>2 DEF AuthorityInv, AuthorityTypeOK, StatesSound, tables, session
<1>4. CallsSound'
  BY <1>1, <1>2 DEF AuthorityInv, CallsSound, Target, Unissued, tables, session
<1>5. LocksHeld' /\ HistoricalHeld'
  BY <1>2 DEF AuthorityInv, LocksHeld, HistoricalHeld, HasLock, Locked, View, Active, Answered,
              Identified, IsHistorical, Target, tables, session
<1>6. SlotsSound'
  BY <1>1, <1>2 DEF AuthorityInv, SlotsSound, Answered, Unissued, tables
<1>7. OneActiveOpportunity' /\ AppliedChain' /\ MappingsSound'
  BY <1>2 DEF AuthorityInv, OneActiveOpportunity, AppliedChain, Applied, MappingsSound, tables
<1> QED
  BY <1>3, <1>4, <1>5, <1>6, <1>7 DEF AuthorityInv

LEMMA AuthorityStep == AuthorityInv /\ [Next]_vars => AuthorityInv'
<1> SUFFICES ASSUME AuthorityInv, [Next]_vars PROVE AuthorityInv'
  OBVIOUS
<1>1. CASE Tick
  BY <1>1, TickKeeps
<1>2. ASSUME NEW s \in Session, Advances(s) \/ Gives(s) \/ Commits(s)
      PROVE  AuthorityInv'
  <2>1. TableSteps(s) /\ clock' = clock
    BY <1>2, StepTables, OthersStay
  <2> QED
    BY <1>2, <2>1, TypeStep, StatesSoundStep, CallsSoundStep, LocksHeldStep, HistoricalHeldStep,
       SlotsSoundStep, OneActiveStep, AppliedChainStep, MappingsSoundStep DEF AuthorityInv
<1>3. CASE UNCHANGED vars
  BY <1>3 DEF AuthorityInv, AuthorityTypeOK, StatesSound, CallsSound, LocksHeld, HistoricalHeld,
              SlotsSound, OneActiveOpportunity, AppliedChain, Applied, MappingsSound, HasLock, Locked,
              View, Active, Answered, Unissued, Identified, IsHistorical, Target, vars
<1> QED
  BY <1>1, <1>2, <1>3, NextSteps

(* The locks, the clocks and the rows stand in these relations whatever    *)
(* the sessions do (20260917021000 lines 474-565, 20260918010500 lines     *)
(* 99-223, 20260909100000 lines 121-261).                                  *)
THEOREM AuthorityInvariant == Spec => []AuthorityInv
BY AuthorityInit, AuthorityStep, PTL DEF Spec

(* The rows and the sessions are well typed.                               *)
THEOREM AuthorityTypeCorrect == Spec => []AuthorityTypeOK
<1>1. AuthorityInv => AuthorityTypeOK
  BY DEF AuthorityInv
<1> QED
  BY <1>1, AuthorityInvariant, PTL

(* Online and offline issuers share one active opportunity per objective   *)
(* (20260918010500 lines 115-203).                                         *)
THEOREM OpportunityIsOne == Spec => []OneActiveOpportunity
<1>1. AuthorityInv => OneActiveOpportunity
  BY DEF AuthorityInv
<1> QED
  BY <1>1, AuthorityInvariant, PTL

(* The instance the issuer hands out again can still be answered           *)
(* (20260918010500 lines 154-177, 20260917021000 lines 713-727).           *)
THEOREM OpportunityIsOpen == Spec => []ActiveIsUnanswered
<1>1. AuthorityInv => ActiveIsUnanswered
  BY DEF AuthorityInv, SlotsSound, ActiveIsUnanswered
<1> QED
  BY <1>1, AuthorityInvariant, PTL

(* No update of the state is lost (20260917021000 lines 654-703).          *)
THEOREM NoUpdateIsLost == Spec => []AppliedChain
<1>1. AuthorityInv => AppliedChain
  BY DEF AuthorityInv
<1> QED
  BY <1>1, AuthorityInvariant, PTL

(* An offline request keeps its instance for good (20260925120000 lines    *)
(* 173-190 and 307-355).                                                   *)
THEOREM RequestsKeepTheirInstance == Spec => MappingsHold
<1> DEFINE Hold == \A q \in Request :
          /\ mapping[q] # None => mapping'[q] = mapping[q]
          /\ mapping'[q] # None =>
                /\ ObjectiveOf[mapping'[q]] = RequestFor[q]
                /\ issued'[mapping'[q]].use = "srs"
<1>1. AuthorityInv /\ AuthorityInv' /\ [Next]_vars => [Hold]_vars
  <2> SUFFICES ASSUME AuthorityInv, AuthorityInv', Next PROVE Hold
    OBVIOUS
  <2>1. \A q \in Request : mapping[q] # None => mapping'[q] = mapping[q]
    BY NextSteps, MappingsSoundStep DEF Tick, tables
  <2> QED
    BY <2>1 DEF AuthorityInv, MappingsSound
<1> QED
  BY <1>1, AuthorityInvariant, PTL DEF Spec, MappingsHold

(* A v2 answer moves the schedule only inside the window it was issued for *)
(* (20260917021000 lines 612-703).                                         *)
THEOREM AppliedOnlyInWindow == Spec => AppliedInWindow
<1> DEFINE InWindow(i) ==
      answer'[i] # answer[i] /\ answer'[i].reason = "applied" =>
         LET old == state[ObjectiveOf[i]]
             new == state'[ObjectiveOf[i]]
         IN
         /\ old.due <= issued[i].at
         /\ issued[i].at <= new.reviewed
         /\ new.reviewed < issued[i].expires
         /\ issued[i].expected = old.revision
<1>1. ASSUME AuthorityInv, NEW s \in Session, NEW grade \in Grade \cup {"none"},
             AcceptAnswer(s, grade) \/ AcceptHistorical(s, grade), NEW i \in Instance \ Historical
      PROVE  InWindow(i)
  <2> DEFINE o == call[s].objective
             reason == AcceptanceReason(s, grade)
             new == NextState(state[o], grade, now[s])
  <2>1. Answers(s, Target(s), o, reason, new)
    BY <1>1, AcceptAnswers
  <2>2. /\ ObjectiveOf[Target(s)] = o /\ Target(s) \in Instance /\ o \in Objective
        /\ issued[Target(s)].at <= now[s]
    BY <1>1, TargetIsUnanswered
  <2>3. AuthorityTypeOK
    BY <1>1 DEF AuthorityInv
  <2>4. CASE i # Target(s)
    BY <2>1, <2>3, <2>4 DEF Answers, AuthorityTypeOK
  <2>5. CASE i = Target(s) /\ reason # "applied"
    BY <2>1, <2>3, <2>5 DEF Answers, AuthorityTypeOK
  <2>6. CASE i = Target(s) /\ reason = "applied"
    <3>1. Locked(s) /\ call[s].kind = "accept"
      BY <1>1 DEF AcceptAnswer, AcceptHistorical, Accepting
    <3>2. Standing(s)
      BY <1>1, <2>6, <3>1 DEF AcceptanceReason, IsHistorical
    <3>3. /\ slot[i] = "active" /\ issued[i].expires > now[s]
          /\ issued[i].expected = state[o].revision
      BY <1>1, <2>6, <3>1, <3>2, LockedFacts DEF Standing, Active
    <3>4. state[o].due <= issued[i].at
      BY <1>1, <2>2, <2>6, <3>3 DEF AuthorityInv, SlotsSound
    <3>5. state'[o].reviewed = now[s]
      <4> HIDE DEF reason, new, o
      <4> QED
        BY <2>1, <2>2, <2>3, <2>6 DEF Answers, AuthorityTypeOK
    <3>6. now[s] \in Nat /\ issued[i].expires \in Nat
      BY <2>3 DEF AuthorityTypeOK, Context
    <3> QED
      BY <2>2, <2>6, <3>3, <3>4, <3>5, <3>6
  <2> QED
    BY <2>4, <2>5, <2>6
<1>2. ASSUME AuthorityInv, Next, NEW i \in Instance \ Historical
      PROVE  InWindow(i)
  <2>1. CASE answer' = answer
    BY <2>1
  <2>2. answer' = answer \/
        \E s \in Session, grade \in Grade \cup {"none"} :
            AcceptAnswer(s, grade) \/ AcceptHistorical(s, grade)
    BY <1>2, NextSteps DEF Tick, Advances, Gives, Commits, tables, ReuseOpportunity,
                           IssueOpportunity, IssuePractice
  <2> QED
    BY <1>1, <1>2, <2>1, <2>2
<1>3. AuthorityInv /\ [Next]_vars => [\A i \in Instance \ Historical : InWindow(i)]_vars
  BY <1>2
<1> QED
  BY <1>3, AuthorityInvariant, PTL DEF Spec, AppliedInWindow

LEMMA UnansweredIsNoReceipt ==
    ASSUME NEW r, r = NoAnswer
    PROVE  [attempt |-> r.attempt, applied |-> r.reason = "applied"] = Register!NoReceipt
<1>1. r.attempt = None /\ r.reason # "applied"
  BY DEF NoAnswer
<1>2. (r.reason = "applied") = FALSE
  BY <1>1
<1> QED
  BY <1>1, <1>2, Zenon DEF Register!NoReceipt

(* The acceptance transactions implement the register of receipts: one per *)
(* instance, for an attempt on it, written once (20260917021000 lines      *)
(* 559-565 and 741-785, 20260909100000 lines 189-196 and 389-479).         *)
THEOREM AuthorityImplementsRegister == Spec => ImplementsReceiptRegister
<1> DEFINE receipt(i) == [attempt |-> answer[i].attempt, applied |-> answer[i].reason = "applied"]
           receipts == [i \in Instance |-> receipt(i)]
<1>1. Init => Register!RegisterInit
  BY UnansweredIsNoReceipt DEF Init, Register!RegisterInit
<1>2. ASSUME AuthorityInv, Next
      PROVE  [Register!RegisterNext]_receipts
  <2>1. CASE answer' = answer
    BY <2>1
  <2>2. ASSUME NEW s \in Session, NEW i \in Instance, NEW reason \in Reason, NEW new,
               ~Answered(i), call[s].attempt \in Attempt, InstanceOf[call[s].attempt] = i,
               Answers(s, i, ObjectiveOf[i], reason, new)
        PROVE  Register!RegisterNext
    <3> DEFINE a == call[s].attempt
    <3>1. /\ answer'[i].attempt = a /\ answer'[i].reason = reason
          /\ \A j \in Instance \ {i} : answer'[j] = answer[j]
      BY <1>2, <2>2 DEF Answers, AuthorityInv, AuthorityTypeOK
    <3>2. receipts[i] = Register!NoReceipt
      BY <2>2, UnansweredIsNoReceipt DEF Answered
    <3>3. receipts' = [receipts EXCEPT ![i] = [attempt |-> a, applied |-> reason = "applied"]]
      BY <3>1
    <3>4. Register!Accept(a, reason = "applied")
      BY <2>2, <3>2, <3>3 DEF Register!Accept
    <3> QED
      BY <2>2, <3>4 DEF Register!RegisterNext
  <2> QED
    BY <1>2, <2>1, <2>2, NextSteps, StepTables DEF Tick, tables, TableSteps, Opens, Practises
<1>3. UNCHANGED vars => UNCHANGED receipts
  BY DEF vars
<1>4. AuthorityInv /\ [Next]_vars => [Register!RegisterNext]_receipts
  BY <1>2, <1>3
<1> QED
  BY <1>1, <1>4, AuthorityInvariant, PTL DEF Spec, ImplementsReceiptRegister, Register!RegisterSpec
=============================================================================
