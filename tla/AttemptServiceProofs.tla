------------------------ MODULE AttemptServiceProofs ------------------------
(***************************************************************************)
(* What the attempt service guarantees for any number of overlapping       *)
(* invocations, attempts, instances and deployments.                       *)
(*                                                                         *)
(* The invariant is about one invocation and the stored rows.  Another     *)
(* invocation disturbs it only by storing a row, and rows are stored once; *)
(* the source disturbs it only by what becomes eligible.                   *)
(***************************************************************************)
EXTENDS AttemptService, TLAPS

Pcs     == {"idle", "recover", "route", "again", "lookup", "scope", "write", "reread", "done"}
Under   == Pcs \ {"idle", "done"}
Reasons == {"none", "applied", "revision-quarantined", "revision-retired", "practice-only",
            "scope-not-eligible", "epoch-inactive", "grader-unavailable", "stale-opportunity"}
Stored  == [attempt : Attempt \cup {None}, body : Body \cup {None},
            writer : {"none", "legacy", "v1", "v2"}, reason : Reasons]
Request == [attempt : Attempt \cup {None}, body : Body \cup {None}]
Full    == [attempt : Attempt, body : Body]
Reply   == [kind : {"none", "unavailable", "saved", "instance_already_answered", "attempt_conflict",
                    "unsupported", "revision_not_allowed"}, row : Stored]

TypesOK ==
    /\ rows \in [Instance -> Stored] /\ eligible \subseteq Project
    /\ pc \in [Call -> Pcs] /\ request \in [Call -> Request]
    /\ fresh \in [Call -> BOOLEAN] /\ reply \in [Call -> Reply]
    /\ before \in [Call -> Stored] /\ was \in [Call -> SUBSET Project]
    /\ runs \in [Call -> Release] /\ release \in Release

(* A stored row is whole, and was written by the writer of its contract.   *)
RowOK(i) ==
    rows[i] # NoRow =>
        /\ rows[i].attempt \in Attempt /\ InstanceOf[rows[i].attempt] = i /\ rows[i].body \in Body
        /\ (rows[i].writer = "v2") = (KindOf[i] \in {"pinned", "unit"})
        /\ (rows[i].writer = "legacy") = (KindOf[i] = "legacy")
        /\ rows[i].reason = "applied" => KindOf[i] # "unit" /\ StatusOf[i] = "approved"

CallOK(c) ==
    /\ pc[c] # "idle" => request[c] \in Full
    /\ pc[c] # "done" => reply[c] = Refused("none")
    /\ pc[c] = "idle" => before[c] = NoRow
    /\ pc[c] \in Under => eligible \subseteq was[c]
    /\ pc[c] = "write" /\ fresh[c] => ProjectOf[Target(c)] \in was[c]
    /\ reply[c].kind = "saved" =>
          pc[c] = "done" /\ Row(c) # NoRow /\ reply[c] = FromRow(c)
    /\ before[c] # NoRow =>
          /\ pc[c] \in {"recover", "done"} /\ Row(c) = before[c]
          /\ reply[c].kind \in {"none", "unavailable"} \/ reply[c] = FromRow(c)

ServiceInv == TypesOK /\ (\A i \in Instance : RowOK(i)) /\ (\A c \in Call : CallOK(c))

-----------------------------------------------------------------------------
LEMMA RefusedIsNotSaved == \A e : e # "saved" => Refused(e).kind # "saved"
BY DEF Refused

LEMMA NoRowStored == NoRow \in Stored /\ Refused("none") \in Reply /\ Refused("unavailable") \in Reply
                     /\ Refused("unsupported") \in Reply /\ Refused("revision_not_allowed") \in Reply
                     /\ NoRequest \in Request
BY DEF NoRow, Stored, Refused, Reply, Reasons, NoRequest, Request

LEMMA TargetIsInstance ==
    ASSUME ServiceInv, NEW c \in Call, pc[c] # "idle"
    PROVE  Target(c) \in Instance /\ Row(c) \in Stored /\ request[c] \in Full
BY ServiceAssumption DEF ServiceInv, TypesOK, CallOK, Target, Row, Full

LEMMA FromRowReplies ==
    ASSUME ServiceInv, NEW c \in Call, pc[c] # "idle"
    PROVE  /\ FromRow(c) \in Reply
           /\ FromRow(c).kind = "saved" =>
                 /\ FromRow(c).row = Row(c)
                 /\ request[c] = [attempt |-> Row(c).attempt, body |-> Row(c).body]
<1>1. Row(c) \in Stored /\ request[c] \in Full
  BY TargetIsInstance
<1>2. CASE Row(c).attempt # request[c].attempt
  BY <1>2, NoRowStored DEF FromRow, Refused, Reply
<1>3. CASE Row(c).attempt = request[c].attempt /\ Row(c).body # request[c].body
  BY <1>3, NoRowStored DEF FromRow, Refused, Reply
<1>4. CASE Row(c).attempt = request[c].attempt /\ Row(c).body = request[c].body
  BY <1>1, <1>4 DEF FromRow, Saved, Reply, Full
<1> QED
  BY <1>2, <1>3, <1>4

(* What another invocation does leaves this one as it was.                 *)
LEMMA Undisturbed ==
    ASSUME ServiceInv, NEW c \in Call,
           \A i \in Instance : rows[i] # NoRow => rows'[i] = rows[i],
           eligible' = eligible,
           pc'[c] = pc[c], request'[c] = request[c], fresh'[c] = fresh[c],
           reply'[c] = reply[c], before'[c] = before[c], was'[c] = was[c]
    PROVE  CallOK(c)'
<1>1. CASE pc[c] = "idle"
  BY <1>1 DEF ServiceInv, CallOK, Under, Refused
<1>2. CASE pc[c] # "idle"
  <2>1. Target(c) \in Instance /\ Target(c)' = Target(c)
    BY <1>2, TargetIsInstance DEF Target
  <2>2. Row(c) # NoRow => Row(c)' = Row(c) /\ FromRow(c)' = FromRow(c)
    BY <2>1 DEF Row, FromRow
  <2> QED
    BY <1>2, <2>1, <2>2 DEF ServiceInv, CallOK
<1> QED
  BY <1>1, <1>2

(* An invocation under way moves on without touching anything.             *)
LEMMA GotoStep ==
    ASSUME ServiceInv, NEW c \in Call, pc[c] \in Under, before[c] = NoRow,
           NEW where \in Under \ {"recover", "write"}, Goto(c, where)
    PROVE  ServiceInv'
<1> USE DEF Goto
<1>1. TypesOK'
  BY DEF ServiceInv, TypesOK, Under
<1>2. \A i \in Instance : RowOK(i)'
  BY DEF ServiceInv, RowOK
<1>3. \A d \in Call \ {c} : CallOK(d)'
  BY Undisturbed DEF ServiceInv, TypesOK
<1>4. CallOK(c)'
  <2>1. pc'[c] = where /\ pc[c] # "idle" /\ pc[c] # "done"
    BY DEF ServiceInv, TypesOK, Under
  <2>2. reply[c] = Refused("none") /\ reply[c].kind # "saved"
    BY <2>1 DEF ServiceInv, CallOK, Refused
  <2> QED
    BY <2>1, <2>2 DEF ServiceInv, CallOK, Under
<1> QED
  BY <1>1, <1>2, <1>3, <1>4 DEF ServiceInv

(* An invocation answers; what is stored stays.                            *)
LEMMA AnswerStep ==
    ASSUME ServiceInv, NEW c \in Call, pc[c] \in Under, NEW answer \in Reply,
           Answer(c, answer), rows' = rows,
           answer.kind = "saved" => Row(c) # NoRow /\ answer = FromRow(c),
           before[c] # NoRow => answer.kind = "unavailable" \/ answer = FromRow(c)
    PROVE  ServiceInv'
<1> USE DEF Answer
<1>1. TypesOK'
  BY DEF ServiceInv, TypesOK, Pcs
<1>2. \A i \in Instance : RowOK(i)'
  BY DEF ServiceInv, RowOK
<1>3. \A d \in Call \ {c} : CallOK(d)'
  BY Undisturbed DEF ServiceInv, TypesOK
<1>4. CallOK(c)'
  <2>1. pc'[c] = "done" /\ reply'[c] = answer /\ pc[c] # "idle"
    BY DEF ServiceInv, TypesOK, Under
  <2>2. Row(c)' = Row(c) /\ FromRow(c)' = FromRow(c)
    BY DEF Row, Target, FromRow
  <2> QED
    BY <2>1, <2>2 DEF ServiceInv, CallOK, Under
<1> QED
  BY <1>1, <1>2, <1>3, <1>4 DEF ServiceInv

LEMMA NothingBefore ==
    ASSUME ServiceInv, NEW c \in Call, pc[c] \in Under, pc[c] # "recover" \/ Row(c) = NoRow
    PROVE  before[c] = NoRow
BY DEF ServiceInv, CallOK, Under

LEMMA LookUpStep ==
    ASSUME ServiceInv, NEW c \in Call, NEW where \in Under, NEW next \in Under \ {"recover", "write"},
           LookUp(c, where, next)
    PROVE  ServiceInv'
<1>1. pc[c] = where /\ pc[c] # "idle"
  BY DEF LookUp, Under
<1>2. CASE Row(c) # NoRow
  <2>1. Answer(c, FromRow(c)) /\ rows' = rows
    BY <1>2 DEF LookUp
  <2> QED
    BY <1>1, <1>2, <2>1, FromRowReplies, AnswerStep
<1>3. CASE Row(c) = NoRow
  <2>1. Goto(c, next)
    BY <1>3 DEF LookUp
  <2> QED
    BY <1>1, <1>3, <2>1, NothingBefore, GotoStep
<1> QED
  BY <1>2, <1>3

(* A refusal before anything is written.                                   *)
LEMMA RefusalStep ==
    ASSUME ServiceInv, NEW c \in Call, pc[c] \in Under, rows' = rows,
           \/ Answer(c, Refused("unavailable"))
           \/ /\ before[c] = NoRow
              /\ Answer(c, Refused("unsupported")) \/ Answer(c, Refused("revision_not_allowed"))
    PROVE  ServiceInv'
<1>1. \A e \in {"unavailable", "unsupported", "revision_not_allowed"} :
         Refused(e) \in Reply /\ Refused(e).kind = e
  BY NoRowStored DEF Refused
<1>2. PICK e \in {"unavailable", "unsupported", "revision_not_allowed"} :
         Answer(c, Refused(e)) /\ (e = "unavailable" \/ before[c] = NoRow)
  OBVIOUS
<1>3. Refused(e) \in Reply /\ Refused(e).kind = e
  BY <1>1
<1>4. Refused(e).kind # "saved" /\ (before[c] # NoRow => Refused(e).kind = "unavailable")
  BY <1>2, <1>3
<1> QED
  BY <1>2, <1>3, <1>4, AnswerStep

LEMMA LookingSteps ==
    ASSUME ServiceInv, NEW c \in Call,
           Recover(c) \/ Route(c) \/ Again(c) \/ LookUpV2(c) \/ Reread(c) \/ Fails(c)
    PROVE  ServiceInv'
<1>1. CASE Recover(c) \/ LookUpV2(c) \/ Reread(c)
  BY <1>1, LookUpStep DEF Recover, LookUpV2, Reread, Under, Pcs
<1>2. CASE Route(c)
  <2>1. pc[c] \in Under /\ before[c] = NoRow
    BY <1>2, NothingBefore DEF Route, Under, Pcs
  <2>2. \/ Goto(c, "again") \/ Goto(c, "lookup")
        \/ Answer(c, Refused("unsupported")) /\ rows' = rows
    BY <1>2 DEF Route
  <2>3. {"again", "lookup"} \subseteq Under \ {"recover", "write"}
    BY DEF Under, Pcs
  <2> QED
    BY <2>1, <2>2, <2>3, GotoStep, RefusalStep
<1>3. CASE Again(c)
  <2>1. pc[c] \in Under /\ before[c] = NoRow
    BY <1>3, NothingBefore DEF Again, Under, Pcs
  <2>2. \/ Answer(c, Refused("revision_not_allowed")) /\ rows' = rows
        \/ LookUp(c, "again", "lookup") \/ LookUp(c, "again", "scope")
    BY <1>3 DEF Again
  <2>3. "again" \in Under /\ {"lookup", "scope"} \subseteq Under \ {"recover", "write"}
    BY DEF Under, Pcs
  <2> QED
    BY <2>1, <2>2, <2>3, LookUpStep, RefusalStep
<1>4. CASE Fails(c)
  <2>1. pc[c] \in Under
    BY <1>4 DEF Fails, Under, ServiceInv, TypesOK
  <2> QED
    BY <1>4, <2>1, RefusalStep DEF Fails
<1> QED
  BY <1>1, <1>2, <1>3, <1>4

(* The scope is fresh only if the source held the subject eligible now.    *)
LEMMA ScopeStep ==
    ASSUME ServiceInv, NEW c \in Call, ReadScope(c)
    PROVE  ServiceInv'
<1> USE DEF ReadScope
<1>1. TypesOK'
  BY DEF ServiceInv, TypesOK, Pcs, InScope
<1>2. \A i \in Instance : RowOK(i)'
  BY DEF ServiceInv, RowOK
<1>3. \A d \in Call \ {c} : CallOK(d)'
  BY Undisturbed DEF ServiceInv, TypesOK
<1>4. CallOK(c)'
  <2>1. pc'[c] = "write" /\ pc[c] = "scope" /\ fresh'[c] = InScope(c)
    BY DEF ServiceInv, TypesOK
  <2>2. reply[c] = Refused("none") /\ reply[c].kind # "saved" /\ before[c] = NoRow
    BY <2>1, NothingBefore DEF ServiceInv, CallOK, Refused, Under, Pcs
  <2>3. Target(c)' = Target(c) /\ eligible \subseteq was[c]
    BY <2>1 DEF ServiceInv, CallOK, Under, Pcs, Target
  <2> QED
    BY <2>1, <2>2, <2>3 DEF ServiceInv, CallOK, Under, InScope
<1> QED
  BY <1>1, <1>2, <1>3, <1>4 DEF ServiceInv

LEMMA StartStep ==
    ASSUME ServiceInv, NEW c \in Call, NEW a \in Attempt, NEW body \in Body, Start(c, a, body)
    PROVE  ServiceInv'
<1> USE DEF Start
<1>1. InstanceOf[a] \in Instance /\ rows[InstanceOf[a]] \in Stored
  BY ServiceAssumption DEF ServiceInv, TypesOK
<1>2. TypesOK'
  BY <1>1 DEF ServiceInv, TypesOK, Pcs, Request
<1>3. \A i \in Instance : RowOK(i)'
  BY DEF ServiceInv, RowOK
<1>4. \A d \in Call \ {c} : CallOK(d)'
  BY Undisturbed DEF ServiceInv, TypesOK
<1>5. CallOK(c)'
  <2>1. /\ pc[c] = "idle" /\ pc'[c] = "recover" /\ request'[c] = [attempt |-> a, body |-> body]
        /\ before'[c] = rows[InstanceOf[a]] /\ was'[c] = eligible /\ reply'[c] = reply[c]
    BY DEF ServiceInv, TypesOK
  <2>2. reply[c] = Refused("none") /\ reply[c].kind = "none"
    BY <2>1 DEF ServiceInv, CallOK, Refused
  <2>3. Row(c)' = rows[InstanceOf[a]]
    BY <2>1 DEF Row, Target
  <2> QED
    BY <2>1, <2>2, <2>3 DEF CallOK, Full
<1> QED
  BY <1>2, <1>3, <1>4, <1>5 DEF ServiceInv

LEMMA OverStep ==
    ASSUME ServiceInv, NEW c \in Call, Over(c)
    PROVE  ServiceInv'
<1> USE DEF Over
<1>1. (CHOOSE r \in Release : TRUE) \in Release
  BY DEF ServiceInv, TypesOK
<1>2. TypesOK'
  BY <1>1, NoRowStored DEF ServiceInv, TypesOK, Pcs
<1>3. \A i \in Instance : RowOK(i)'
  BY DEF ServiceInv, RowOK
<1>4. \A d \in Call \ {c} : CallOK(d)'
  BY Undisturbed DEF ServiceInv, TypesOK
<1>5. CallOK(c)'
  <2>1. pc'[c] = "idle" /\ reply'[c] = Refused("none") /\ before'[c] = NoRow
    BY DEF ServiceInv, TypesOK
  <2> QED
    BY <2>1 DEF CallOK, Under, Refused
<1> QED
  BY <1>2, <1>3, <1>4, <1>5 DEF ServiceInv

(* The world around the route.                                             *)
LEMMA WorldSteps ==
    ASSUME ServiceInv, (\E p \in Project : SourceChanges(p)) \/ (\E r \in Release : Deploy(r))
    PROVE  ServiceInv'
<1>1. ASSUME NEW p \in Project, SourceChanges(p) PROVE ServiceInv'
  <2> USE <1>1 DEF SourceChanges
  <2>1. eligible' \subseteq Project
    BY DEF ServiceInv, TypesOK
  <2>2. was' \in [Call -> SUBSET Project]
    BY <2>1 DEF ServiceInv, TypesOK
  <2>3. TypesOK'
    BY <2>1, <2>2 DEF ServiceInv, TypesOK
  <2>4. \A i \in Instance : RowOK(i)'
    BY DEF ServiceInv, RowOK
  <2>5. ASSUME NEW c \in Call PROVE CallOK(c)'
    <3>1. was'[c] = IF pc[c] \in {"idle", "done"} THEN {} ELSE was[c] \cup eligible'
      OBVIOUS
    <3>2. CallOK(c) /\ Row(c)' = Row(c) /\ FromRow(c)' = FromRow(c) /\ Target(c)' = Target(c)
      BY DEF ServiceInv, Row, FromRow, Target
    <3> QED
      BY <3>1, <3>2 DEF CallOK, Under
  <2> QED
    BY <2>3, <2>4, <2>5 DEF ServiceInv
<1>2. ASSUME NEW r \in Release, Deploy(r) PROVE ServiceInv'
  <2> USE <1>2 DEF Deploy
  <2>1. TypesOK'
    BY DEF ServiceInv, TypesOK
  <2>2. \A i \in Instance : RowOK(i)'
    BY DEF ServiceInv, RowOK
  <2>3. \A c \in Call : CallOK(c)'
    BY Undisturbed DEF ServiceInv
  <2> QED
    BY <2>1, <2>2, <2>3 DEF ServiceInv
<1> QED
  BY <1>1, <1>2

(* The schedule moves only for an approved revision of a subject in scope, *)
(* and never for practice.                                                 *)
LEMMA ReasonIsSound ==
    ASSUME NEW c \in Call, NEW standing \in BOOLEAN, Target(c) \in Instance
    PROVE  /\ Reason(c, standing) \in Reasons \ {"none"}
           /\ Reason(c, standing) = "applied" =>
                 fresh[c] /\ StatusOf[Target(c)] = "approved" /\ KindOf[Target(c)] # "unit"
<1> DEFINE i == Target(c)
<1>1. StatusOf[i] \in {"approved", "quarantined", "retired", "draft"} /\ KindOf[i] \in Kind
  BY ServiceAssumption
<1>2. CASE StatusOf[i] = "quarantined"
  BY <1>2 DEF Reason, Reasons
<1>3. CASE StatusOf[i] = "retired" /\ KindOf[i] # "legacy"
  BY <1>3 DEF Reason, Reasons
<1>4. CASE IsUnit(i) /\ StatusOf[i] = "approved"
  BY <1>4 DEF Reason, Reasons
<1>5. CASE /\ StatusOf[i] # "quarantined"
           /\ ~(StatusOf[i] = "retired" /\ KindOf[i] # "legacy")
           /\ ~(IsUnit(i) /\ StatusOf[i] = "approved")
  <2>1. Reason(c, standing) =
           IF ~fresh[c] \/ StatusOf[i] \in {"retired", "draft"} THEN "scope-not-eligible"
           ELSE IF KindOf[i] # "legacy" /\ ~EpochActive(c) THEN "epoch-inactive"
           ELSE IF i \in Rubric THEN "grader-unavailable"
           ELSE IF KindOf[i] = "pinned" /\ ~standing THEN "stale-opportunity"
           ELSE "applied"
    BY <1>5 DEF Reason
  <2> QED
    BY <1>1, <1>5, <2>1 DEF Reasons, IsUnit
<1> QED
  BY <1>2, <1>3, <1>4, <1>5

LEMMA WriterIsSound ==
    ASSUME NEW i \in Instance
    PROVE  /\ WriterFor(i) \in {"legacy", "v1", "v2"}
           /\ (WriterFor(i) = "v2") = (KindOf[i] \in {"pinned", "unit"})
           /\ (WriterFor(i) = "legacy") = (KindOf[i] = "legacy")
<1>1. KindOf[i] \in Kind
  BY ServiceAssumption
<1>2. CASE KindOf[i] \in {"pinned", "unit"}
  BY <1>2 DEF WriterFor, Pinned
<1>3. CASE KindOf[i] = "historical"
  BY <1>3 DEF WriterFor, Pinned
<1>4. CASE KindOf[i] = "legacy"
  BY <1>4 DEF WriterFor, Pinned
<1> QED
  BY <1>1, <1>2, <1>3, <1>4 DEF Kind

(* A write stores one row, where there was none.                           *)
LEMMA WriteStores ==
    ASSUME ServiceInv, NEW c \in Call, Write(c), Row(c) = NoRow
    PROVE  \E standing \in BOOLEAN :
              LET row == NewRow(c, Reason(c, standing))
              IN  /\ rows' = [rows EXCEPT ![Target(c)] = row]
                  /\ Answer(c, Saved(row)) \/ Answer(c, Refused("unavailable"))
BY DEF Write

LEMMA WriteStep ==
    ASSUME ServiceInv, NEW c \in Call, Write(c)
    PROVE  ServiceInv'
<1>1. pc[c] = "write" /\ pc[c] \in Under /\ before[c] = NoRow
  BY NothingBefore DEF Write, Under, Pcs
<1>2. Target(c) \in Instance /\ Row(c) \in Stored /\ request[c] \in Full
  BY <1>1, TargetIsInstance
<1>3. CASE Row(c) # NoRow /\ Row(c).attempt = request[c].attempt
  <2>1. Answer(c, FromRow(c)) /\ rows' = rows
    BY <1>3 DEF Write
  <2> QED
    BY <1>1, <1>3, <2>1, FromRowReplies, AnswerStep
<1>4. CASE Row(c) # NoRow /\ Row(c).attempt # request[c].attempt
  <2>1. Goto(c, "reread") /\ "reread" \in Under \ {"recover", "write"}
    BY <1>4 DEF Write, Under, Pcs
  <2> QED
    BY <1>1, <2>1, GotoStep
<1>5. CASE Row(c) = NoRow
  <2>1. PICK standing \in BOOLEAN :
           LET row == NewRow(c, Reason(c, standing))
           IN  /\ rows' = [rows EXCEPT ![Target(c)] = row]
               /\ Answer(c, Saved(row)) \/ Answer(c, Refused("unavailable"))
    BY <1>5, WriteStores
  <2> DEFINE row == NewRow(c, Reason(c, standing))
  <2>2. /\ row \in Stored /\ row # NoRow
        /\ row.attempt = request[c].attempt /\ row.body = request[c].body
        /\ row.writer = WriterFor(Target(c)) /\ row.reason = Reason(c, standing)
    BY <1>2, ReasonIsSound, WriterIsSound DEF NewRow, Stored, NoRow, Full
  <2>3. PICK answer \in {Saved(row), Refused("unavailable")} : Answer(c, answer)
    BY <2>1
  <2>4. answer \in Reply /\ (answer.kind = "saved" => answer = Saved(row))
    BY <2>2, NoRowStored DEF Saved, Reply, Refused
  <2>5. /\ rows' \in [Instance -> Stored]
        /\ \A i \in Instance : rows'[i] = IF i = Target(c) THEN row ELSE rows[i]
    BY <1>2, <2>1, <2>2 DEF ServiceInv, TypesOK
  <2>6. TypesOK'
    BY <2>3, <2>4, <2>5 DEF ServiceInv, TypesOK, Answer, Pcs
  <2>7. ASSUME NEW i \in Instance PROVE RowOK(i)'
    <3>1. CASE i = Target(c)
      <4>1. InstanceOf[row.attempt] = i /\ row.attempt \in Attempt /\ row.body \in Body
        BY <1>2, <2>2, <3>1 DEF Target, Full
      <4> QED
        BY <1>2, <2>2, <2>5, <3>1, <4>1, ReasonIsSound, WriterIsSound DEF RowOK
    <3>2. CASE i # Target(c)
      BY <2>5, <3>2 DEF ServiceInv, RowOK
    <3> QED
      BY <3>1, <3>2
  <2>8. \A i \in Instance : rows[i] # NoRow => rows'[i] = rows[i]
    BY <1>5, <2>5 DEF Row
  <2>9. \A d \in Call \ {c} : CallOK(d)'
    BY <2>3, <2>8, Undisturbed DEF Answer, ServiceInv, TypesOK
  <2>10. CallOK(c)'
    <3>1. /\ pc'[c] = "done" /\ reply'[c] = answer /\ before'[c] = NoRow /\ request'[c] = request[c]
      BY <1>1, <2>3 DEF Answer, ServiceInv, TypesOK
    <3>2. Row(c)' = row
      BY <1>2, <2>3, <2>5 DEF Row, Target, Answer
    <3>3. FromRow(c)' = Saved(row)
      BY <2>2, <3>1, <3>2 DEF FromRow
    <3> QED
      BY <1>2, <2>2, <2>4, <3>1, <3>2, <3>3 DEF CallOK, Under
  <2> QED
    BY <2>6, <2>7, <2>9, <2>10 DEF ServiceInv
<1> QED
  BY <1>3, <1>4, <1>5

-----------------------------------------------------------------------------
LEMMA ServiceInit == Init => ServiceInv
<1> SUFFICES ASSUME Init PROVE ServiceInv
  OBVIOUS
<1> USE DEF Init
<1>1. TypesOK
  <2>1. runs \in [Call -> Release] /\ was \in [Call -> SUBSET Project]
    OBVIOUS
  <2> QED
    BY <2>1, NoRowStored DEF TypesOK, Pcs
<1>2. \A i \in Instance : RowOK(i)
  BY DEF RowOK
<1>3. \A c \in Call : CallOK(c)
  BY DEF CallOK, Under, Refused
<1> QED
  BY <1>1, <1>2, <1>3 DEF ServiceInv

LEMMA ServiceStep == ServiceInv /\ [Next]_vars => ServiceInv'
<1> SUFFICES ASSUME ServiceInv, [Next]_vars PROVE ServiceInv'
  OBVIOUS
<1>1. CASE UNCHANGED vars
  <2>1. TypesOK' /\ \A i \in Instance : RowOK(i)'
    BY <1>1 DEF vars, ServiceInv, TypesOK, RowOK
  <2>2. \A c \in Call : CallOK(c)'
    BY <1>1, Undisturbed DEF vars, ServiceInv
  <2> QED
    BY <2>1, <2>2 DEF ServiceInv
<1>2. CASE (\E p \in Project : SourceChanges(p)) \/ (\E r \in Release : Deploy(r))
  BY <1>2, WorldSteps
<1>3. ASSUME NEW c \in Call, NEW a \in Attempt, NEW body \in Body, Start(c, a, body) PROVE ServiceInv'
  BY <1>3, StartStep
<1>4. ASSUME NEW c \in Call,
             Recover(c) \/ Route(c) \/ Again(c) \/ LookUpV2(c) \/ Reread(c) \/ Fails(c)
      PROVE  ServiceInv'
  BY <1>4, LookingSteps
<1>5. ASSUME NEW c \in Call, ReadScope(c) PROVE ServiceInv'
  BY <1>5, ScopeStep
<1>6. ASSUME NEW c \in Call, Write(c) PROVE ServiceInv'
  BY <1>6, WriteStep
<1>7. ASSUME NEW c \in Call, Over(c) PROVE ServiceInv'
  BY <1>7, OverStep
<1> QED
  BY <1>1, <1>2, <1>3, <1>4, <1>5, <1>6, <1>7 DEF Next

(* The inductive invariant, for any number of invocations and deployments. *)
THEOREM ServiceInvariant == Spec => []ServiceInv
BY ServiceInit, ServiceStep, PTL DEF Spec

(* A row belongs to an attempt of its instance (objective-runtime.ts and   *)
(* the exact writer).                                                      *)
THEOREM ServiceTypes == Spec => []ServiceTypeOK
<1>1. ServiceInv => ServiceTypeOK
  BY DEF ServiceInv, TypesOK, RowOK, Pcs, ServiceTypeOK
<1> QED
  BY <1>1, ServiceInvariant, PTL

(* However invocations race, a success is the one receipt of the instance, *)
(* given to the attempt and contents that were accepted                    *)
(* (assertRetryMatches and the reread after a lost race).                  *)
THEOREM EverySuccessIsTheReceipt == Spec => []OneReceipt
<1>1. ServiceInv => OneReceipt
  <2> SUFFICES ASSUME ServiceInv, NEW c \in Call, reply[c].kind = "saved"
               PROVE  /\ reply[c].row = Row(c)
                      /\ request[c] = [attempt |-> Row(c).attempt, body |-> Row(c).body]
    BY DEF OneReceipt
  <2>1. pc[c] = "done" /\ reply[c] = FromRow(c)
    BY DEF ServiceInv, CallOK
  <2> QED
    BY <2>1, FromRowReplies
<1> QED
  BY <1>1, ServiceInvariant, PTL

(* An attempt accepted before is answered from its receipt, whatever the   *)
(* deployment and the source have become (recoverAcceptedPilotAttempt).    *)
THEOREM AcceptedIsAlwaysAnswered == Spec => []AcceptedIsAnswered
<1>1. ServiceInv => AcceptedIsAnswered
  BY DEF ServiceInv, CallOK, AcceptedIsAnswered
<1> QED
  BY <1>1, ServiceInvariant, PTL

(* The writer is the one of the contract an instance was issued under, and *)
(* practice moves no schedule (pilot-attempt-dispatch.ts).                 *)
THEOREM WritersFit == Spec => []WriterFits
<1>1. ServiceInv => WriterFits
  BY DEF ServiceInv, RowOK, WriterFits
<1> QED
  BY <1>1, ServiceInvariant, PTL

(* No schedule moves for a subject that was out of scope during the whole  *)
(* invocation (readCurrentScope before the write).                         *)
THEOREM SchedulesNeedScope == Spec => AppliedWasEligible
<1> DEFINE Eligible == \A i \in Instance : rows[i] = NoRow /\ rows'[i].reason = "applied" =>
             \E c \in Call : /\ pc[c] = "write" /\ pc'[c] # pc[c] /\ Target(c) = i
                             /\ ProjectOf[i] \in was[c]
<1>1. ASSUME ServiceInv, [Next]_vars PROVE [Eligible]_vars
  <2>1. ASSUME rows' = rows PROVE Eligible
    BY <2>1 DEF NoRow
  <2>2. ASSUME NEW c \in Call, Write(c), Row(c) = NoRow PROVE Eligible
    <3>1. pc[c] = "write" /\ pc'[c] = "done" /\ Target(c) \in Instance
      BY <1>1, <2>2, TargetIsInstance DEF Write, Answer, ServiceInv, TypesOK
    <3>2. PICK standing \in BOOLEAN :
             rows' = [rows EXCEPT ![Target(c)] = NewRow(c, Reason(c, standing))]
      BY <1>1, <2>2, WriteStores
    <3>3. SUFFICES ASSUME NEW i \in Instance, rows[i] = NoRow, rows'[i].reason = "applied"
                   PROVE  /\ Target(c) = i
                          /\ ProjectOf[i] \in was[c]
      BY <3>1
    <3>4. Target(c) = i
      BY <3>2, <3>3 DEF NoRow, ServiceInv, TypesOK
    <3>5. rows'[i] = NewRow(c, Reason(c, standing))
      BY <1>1, <3>2, <3>4 DEF ServiceInv, TypesOK
    <3>6. Reason(c, standing) = "applied"
      BY <3>3, <3>5 DEF NewRow
    <3>7. fresh[c]
      BY <3>1, <3>6, ReasonIsSound
    <3> QED
      BY <1>1, <3>1, <3>4, <3>7 DEF ServiceInv, CallOK
  <2>3. ASSUME NEW c \in Call, Write(c), Row(c) # NoRow PROVE rows' = rows
    BY <2>3 DEF Write, Goto
  <2>4. rows' = rows \/ \E c \in Call : Write(c)
    BY <1>1 DEF Next, vars, SourceChanges, Deploy, Start, Recover, Route, Again, LookUpV2, Reread,
       LookUp, ReadScope, Fails, Over, Goto
  <2> QED
    BY <2>1, <2>2, <2>3, <2>4
<1> QED
  BY <1>1, ServiceInvariant, PTL DEF Spec, AppliedWasEligible
=============================================================================
