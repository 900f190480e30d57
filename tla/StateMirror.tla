----------------------------- MODULE StateMirror -----------------------------
(***************************************************************************)
(* The browser's replica of the objective state.  Every page that comes    *)
(* online or into view reads the server's state and adopts it in one       *)
(* IndexedDB transaction, ordered by its revision alone; syncs of several  *)
(* pages overlap.  The server may be restored from a backup and reach a    *)
(* revision for the second time with other contents, a deployment may move *)
(* to another epoch, and the stored record may be damaged.                 *)
(***************************************************************************)
EXTENDS Integers, FiniteSets

CONSTANTS
    Sync,           \* syncs that may be under way
    Epoch,          \* SRS epochs; the rest of the key is fixed by the server
    Content,        \* due date, interval, repetitions, grade, ...
    MaxRevision,    \* bound on the revisions of an epoch
    MaxPast         \* bound on the states the server ever has

MirrorAssumption == MaxRevision \in Nat /\ MaxPast \in Nat /\ Epoch # {}

VARIABLES
    server,     \* the state of every epoch; revision 0: none
    past,       \* every state it ever had
    epoch,      \* the epoch the deployment serves
    mirror,     \* the record the browser keeps for every epoch
    pc,         \* of every sync: "idle", "persist"
    answer,     \* what it was told
    result      \* how the last one to end ended

vars == <<server, past, epoch, mirror, pc, answer, result>>

State     == [epoch : Epoch, rev : Nat, content : Content \cup {"none"}]
NoState(e) == [epoch |-> e, rev |-> 0, content |-> "none"]
Unread == NoState(CHOOSE e \in Epoch : TRUE)
Malformed(e) == [NoState(e) EXCEPT !.content = "malformed"]

Init ==
    /\ server = [e \in Epoch |-> NoState(e)] /\ past = {}
    /\ epoch \in Epoch
    /\ mirror = [e \in Epoch |-> NoState(e)]
    /\ pc = [s \in Sync |-> "idle"]
    /\ answer = [s \in Sync |-> Unread]
    /\ result = "none"

-----------------------------------------------------------------------------
(* The server.                                                             *)

Review(c) ==
    /\ server[epoch].rev < MaxRevision
    /\ server' = [server EXCEPT ![epoch].rev = @ + 1, ![epoch].content = c]
    /\ past' = past \cup {server'[epoch]} /\ Cardinality(past') =< MaxPast
    /\ UNCHANGED <<epoch, mirror, pc, answer, result>>

Restore(state) ==
    /\ state.rev < server[state.epoch].rev
    /\ server' = [server EXCEPT ![state.epoch] = state]
    /\ UNCHANGED <<past, epoch, mirror, pc, answer, result>>

Deploy(e) ==
    /\ e # epoch /\ epoch' = e
    /\ UNCHANGED <<server, past, mirror, pc, answer, result>>

-----------------------------------------------------------------------------
(* A sync.                                                                 *)

Fetch(s) ==
    /\ pc[s] = "idle" /\ server[epoch].rev > 0
    /\ pc' = [pc EXCEPT ![s] = "persist"]
    /\ answer' = [answer EXCEPT ![s] = server[epoch]]
    /\ UNCHANGED <<server, past, epoch, mirror, result>>

End(s, outcome) ==
    /\ pc' = [pc EXCEPT ![s] = "idle"]
    /\ result' = outcome
    /\ answer' = [answer EXCEPT ![s] = Unread]

(* No state, no session, no server or no answer that can be read: none of  *)
(* them touches the mirror.                                                *)
FetchFails(s) ==
    /\ pc[s] = "idle"
    /\ \/ server[epoch].rev = 0 /\ End(s, "absent")
       \/ End(s, "unavailable")
    /\ UNCHANGED <<server, past, epoch, mirror>>

Decision_Unequal(current, candidate) ==
    IF candidate.rev > current.rev THEN "adopt" ELSE "ignore"

(* adoptObjectiveStateMirror.                                              *)
Decision(current, candidate) ==
    CASE current = NoState(candidate.epoch) \/ candidate.rev > current.rev -> "adopt"
      [] candidate.rev < current.rev -> "ignore"
      [] candidate.rev = current.rev ->
             IF candidate = current THEN "idempotent" ELSE "conflict"

(* One transaction: the record is read, the rule evaluated, the record     *)
(* written.  A record that cannot be read is never overwritten.            *)
Persist(s) ==
    LET candidate == answer[s]
        current   == mirror[candidate.epoch]
        decision  == IF current = Malformed(candidate.epoch) THEN "unavailable"
                     ELSE Decision(current, candidate)
    IN  /\ pc[s] = "persist" /\ End(s, decision)
        /\ mirror' = IF decision = "adopt" THEN [mirror EXCEPT ![candidate.epoch] = candidate]
                     ELSE mirror
        /\ UNCHANGED <<server, past, epoch>>

StorageFails(s) ==
    /\ pc[s] = "persist" /\ End(s, "unavailable")
    /\ UNCHANGED <<server, past, epoch, mirror>>

(* The storage loses or damages the record.                                *)
Damage(e) ==
    /\ mirror[e].rev > 0
    /\ \E record \in {NoState(e), Malformed(e)} : mirror' = [mirror EXCEPT ![e] = record]
    /\ UNCHANGED <<server, past, epoch, pc, answer, result>>

Next ==
    \/ \E c \in Content : Review(c)
    \/ \E state \in past \cup {NoState(e) : e \in Epoch} : Restore(state)
    \/ \E e \in Epoch : Deploy(e) \/ Damage(e)
    \/ \E s \in Sync : Fetch(s) \/ FetchFails(s) \/ Persist(s) \/ StorageFails(s)

Spec == Init /\ [][Next]_vars

-----------------------------------------------------------------------------
(* Type invariant: every record is kept under its own epoch, and is a      *)
(* state the server once had.                                              *)
MirrorTypeOK ==
    /\ \A e \in Epoch :
          mirror[e] \in {state \in past : state.epoch = e} \cup {NoState(e), Malformed(e)}
    /\ \A s \in Sync : answer[s] \in State /\ pc[s] \in {"idle", "persist"}

(* A sync never takes the mirror back, removes it or replaces a record it  *)
(* cannot read: only the storage does (docs/PHASE_4E_1: lower revisions    *)
(* never roll a mirror back).                                              *)
NeverRewinds ==
    \A e \in Epoch : mirror'[e] # mirror[e] =>
       \/ mirror'[e].rev > mirror[e].rev /\ mirror[e] # Malformed(e)
       \/ Damage(e)

(* A sync that reports success leaves a mirror at least as new as the      *)
(* state it was told, and no other contents under that revision: two       *)
(* histories of one revision are reported, never merged.                   *)
SuccessIsReflected ==
    \A s \in Sync :
       pc[s] = "persist" /\ pc'[s] = "idle" /\ result' \in {"adopt", "ignore", "idempotent"} =>
          LET now == mirror'[answer[s].epoch] IN
          now.rev > answer[s].rev \/ now = answer[s]

(* What every step of the mirror keeps.                                    *)
MirrorStep == MirrorTypeOK /\ NeverRewinds /\ SuccessIsReflected
=============================================================================
