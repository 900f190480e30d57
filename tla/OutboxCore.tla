----------------------------- MODULE OutboxCore -----------------------------
(***************************************************************************)
(* The pure part of the durable attempt outbox: the values an outbox row   *)
(* takes, how a server answer is classified, and which row a classified    *)
(* answer leads to.  Nothing here has state.                               *)
(*                                                                         *)
(* Data is abstracted to what the classification tells apart.  An answer   *)
(* (submission) is its attempt; a receipt is the attempt it belongs to and *)
(* whether it moved the spaced-repetition state; the SHA-256 request hash  *)
(* is a function of the attempt that no two attempts share (the hashed     *)
(* tuple contains the attempt ID).                                         *)
(***************************************************************************)
CONSTANTS
    Attempt,        \* answers committed by this browser profile
    Foreign,        \* answers another device gives to the same instances
    Instance,       \* server-issued exercise instances
    InstanceOf,     \* the instance an attempt answers
    RequestHash,    \* the immutable request hash of an attempt
    None            \* no attempt

AnyAttempt == Attempt \cup Foreign

ASSUME AttemptAssumption ==
    /\ Attempt \cap Foreign = {}
    /\ None \notin AnyAttempt
    /\ InstanceOf \in [AnyAttempt -> Instance]

ASSUME HashAssumption ==
    \A a, b \in AnyAttempt : RequestHash[a] = RequestHash[b] => a = b

Receipt   == [attempt : AnyAttempt, applied : BOOLEAN]
NoReceipt == [attempt |-> None, applied |-> FALSE]

-----------------------------------------------------------------------------
(* Outbox rows.                                                            *)

AcceptedStatus == {"accepted-applied", "accepted-no-srs"}
TerminalStatus == AcceptedStatus \cup {"blocked"}
Status         == {"pending", "sending", "auth-required"} \cup TerminalStatus

(* The reasons an answer of this server leads to: it never sends the code  *)
(* behind the fifth, unsupported-submission-version.                       *)
BlockedReason == {"attempt-conflict", "instance-already-answered",
                  "incomplete-authoritative-receipt", "malformed-response"}

Row == [status : Status \cup {"absent"}, receipt : Receipt \cup {NoReceipt},
        reason : BlockedReason \cup {"none"}]

Absent  == [status |-> "absent", receipt |-> NoReceipt, reason |-> "none"]
Pending == [status |-> "pending", receipt |-> NoReceipt, reason |-> "none"]

-----------------------------------------------------------------------------
(* Delivery classifications.                                               *)

Verdict == [kind : {"retryable", "auth-required", "receipt-lookup-required",
                    "reauthenticated", "accepted", "blocked"},
            receipt : Receipt \cup {NoReceipt},
            reason : BlockedReason \cup {"none"}]

Plain(kind)      == [kind |-> kind, receipt |-> NoReceipt, reason |-> "none"]
Blocked(reason)  == [kind |-> "blocked", receipt |-> NoReceipt, reason |-> reason]
Accepted(r)      == [kind |-> "accepted", receipt |-> r, reason |-> "none"]

(***************************************************************************)
(* What comes back over the wire, by what the classifiers distinguish:     *)
(* "receipt" a complete stored receipt; "already" the 409                  *)
(* instance_already_answered error; "missing" the 404 of the receipt       *)
(* route; "unauthorized" 401; "transient" 429 or 5xx; "rejected" any other *)
(* error status; "garbled" a 2xx whose body cannot be read; "network" a    *)
(* failed fetch.                                                           *)
(***************************************************************************)
ReplyKind == {"receipt", "already", "missing", "unauthorized", "transient",
              "rejected", "garbled", "network"}
Reply == [kind : ReplyKind, receipt : Receipt \cup {NoReceipt}]

Bare(kind) == [kind |-> kind, receipt |-> NoReceipt]

(* The stored receipt must carry this attempt's hash, then its identity.   *)
ClassifyStoredReceiptLookup(r, a) ==
    IF RequestHash[r.attempt] # RequestHash[a] THEN Blocked("attempt-conflict")
    ELSE IF r.attempt # a THEN Blocked("instance-already-answered")
    ELSE Accepted(r)

(* Mutant: any final error status is taken to mean the instance is lost.   *)
ClassifyOfflineServerOutcome_AnyErrorIsConflict(reply, a) ==
    CASE reply.kind \in {"network", "transient"} -> Plain("retryable")
      [] reply.kind = "unauthorized" -> Plain("auth-required")
      [] reply.kind = "already"      -> Plain("receipt-lookup-required")
      [] reply.kind = "garbled"      -> Blocked("incomplete-authoritative-receipt")
      [] reply.kind \in {"missing", "rejected"} -> Blocked("attempt-conflict")
      [] reply.kind = "receipt" ->
            IF reply.receipt.attempt = a THEN Accepted(reply.receipt)
            ELSE Blocked("incomplete-authoritative-receipt")

(* The answer to a submission POST.                                        *)
ClassifyOfflineServerOutcome(reply, a) ==
    CASE reply.kind \in {"network", "transient"} -> Plain("retryable")
      [] reply.kind = "unauthorized" -> Plain("auth-required")
      [] reply.kind = "already"      -> Plain("receipt-lookup-required")
      [] reply.kind = "garbled"      -> Blocked("incomplete-authoritative-receipt")
      [] reply.kind \in {"missing", "rejected"} -> Blocked("malformed-response")
      [] reply.kind = "receipt" ->
            IF reply.receipt.attempt = a THEN Accepted(reply.receipt)
            ELSE Blocked("incomplete-authoritative-receipt")

(* The answer to the receipt GET that follows an "already" answer.         *)
LookupStoredReceipt(reply, a) ==
    CASE reply.kind \in {"network", "transient"} -> Plain("retryable")
      [] reply.kind = "unauthorized" -> Plain("auth-required")
      [] reply.kind \in {"missing", "garbled"} ->
            Blocked("incomplete-authoritative-receipt")
      [] reply.kind \in {"already", "rejected"} -> Blocked("malformed-response")
      [] reply.kind = "receipt" -> ClassifyStoredReceiptLookup(reply.receipt, a)

(* The same GET used to find out whether the session is signed in again.   *)
ProbeAuthentication(reply, a) ==
    IF reply.kind \in {"network", "transient"} THEN Plain("auth-required")
    ELSE IF reply.kind = "missing" THEN Plain("reauthenticated")
    ELSE LookupStoredReceipt(reply, a)

-----------------------------------------------------------------------------
(* The transition table.  A pair outside MayTransition throws.             *)

MayTransition(a, row, v) ==
    /\ \/ /\ row.status = "sending"
          /\ v.kind \in {"retryable", "auth-required", "accepted", "blocked"}
       \/ /\ row.status = "auth-required"
          /\ v.kind \in {"reauthenticated", "accepted", "blocked"}
    /\ v.kind = "accepted" => v.receipt.attempt = a

(* Mutant: every accepted answer is recorded as having moved the schedule. *)
AcceptReceipt(r) ==
    [status  |-> IF r.applied THEN "accepted-applied" ELSE "accepted-no-srs",
     receipt |-> r, reason |-> "none"]

(* Mutant: the classification's kind is stored as the row's status.        *)
TransitionOfflineAttempt(row, v) ==
    CASE v.kind \in {"retryable", "reauthenticated"} -> [row EXCEPT !.status = "pending"]
      [] v.kind = "auth-required" -> [row EXCEPT !.status = "auth-required"]
      [] v.kind = "blocked"  -> [row EXCEPT !.status = "blocked", !.reason = v.reason]
      [] v.kind = "accepted" -> AcceptReceipt(v.receipt)
=============================================================================
