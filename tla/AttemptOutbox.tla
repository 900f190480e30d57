---------------------------- MODULE AttemptOutbox ----------------------------
(***************************************************************************)
(* The IndexedDB storage of the durable outbox: the outbox store, the      *)
(* receipt store, and one operator per storage operation.  Each operation  *)
(* is one readwrite transaction, so each is one step; an exception inside  *)
(* a transaction aborts it and leaves both stores as they were.            *)
(*                                                                         *)
(* Spec is the storage under any callers at all: any operation, on any     *)
(* attempt, with any classification.  Transport metadata (retry count,     *)
(* last error, timestamps) decides nothing and is left out.                *)
(***************************************************************************)
EXTENDS OutboxCore

VARIABLES
    outbox,     \* the attempt-outbox store
    receipts    \* the attempt-receipts store

storeVars == <<outbox, receipts>>

StoreInit ==
    /\ outbox = [a \in Attempt |-> Absent]
    /\ receipts = [a \in Attempt |-> NoReceipt]

Stored(a) == outbox[a].status # "absent"

(* findOfflineAttemptByInstanceId, through the unique instance index.      *)
RowsOf(i) == {a \in Attempt : Stored(a) /\ InstanceOf[a] = i}

-----------------------------------------------------------------------------
(* Mutant: only a stored row of the same attempt prevents the insertion.   *)
CommitOfflineAttempt_ByIdOnly(a) ==
    /\ outbox' = IF Stored(a) THEN outbox ELSE [outbox EXCEPT ![a] = Pending]
    /\ UNCHANGED receipts

(* commitOfflineAttempt: a stored row of the same attempt is reused, one   *)
(* of another attempt on the instance is an error.                         *)
CommitOfflineAttempt(a) ==
    /\ outbox' = IF RowsOf(InstanceOf[a]) = {} THEN [outbox EXCEPT ![a] = Pending]
                 ELSE outbox
    /\ UNCHANGED receipts

(* markOfflineAttemptSending: a row in any other state is returned as is.  *)
MarkedSending(a) ==
    IF outbox[a].status = "pending" THEN [outbox[a] EXCEPT !.status = "sending"]
    ELSE outbox[a]

MarkOfflineAttemptSending(a) ==
    /\ outbox' = [outbox EXCEPT ![a] = MarkedSending(a)]
    /\ UNCHANGED receipts

(* Mutant: whatever is not accepted is put back in the queue.              *)
RecoverSendingOfflineAttempts_EveryUnfinished ==
    /\ outbox' = [a \in Attempt |->
                    IF Stored(a) /\ outbox[a].status \notin AcceptedStatus
                    THEN Pending ELSE outbox[a]]
    /\ UNCHANGED receipts

(* recoverSendingOfflineAttempts: every sending row, whoever is sending it. *)
RecoverSendingOfflineAttempts ==
    /\ outbox' = [a \in Attempt |->
                    IF outbox[a].status = "sending"
                    THEN [outbox[a] EXCEPT !.status = "pending"] ELSE outbox[a]]
    /\ UNCHANGED receipts

(* markOfflineAttemptReauthenticated.                                      *)
Reauthenticated(a) ==
    IF outbox[a].status = "auth-required"
    THEN TransitionOfflineAttempt(outbox[a], Plain("reauthenticated"))
    ELSE outbox[a]

MarkOfflineAttemptReauthenticated(a) ==
    /\ outbox' = [outbox EXCEPT ![a] = Reauthenticated(a)]
    /\ UNCHANGED receipts

-----------------------------------------------------------------------------
(* applyOfflineDelivery.                                                   *)

(* Only an in-flight row consumes a classification; others are returned.   *)
CanConsume(a) == outbox[a].status \in {"sending", "auth-required"}

ReceiptConflict(a, r) == receipts[a] \notin {NoReceipt, r}

ApplyThrows(a, v) ==
    /\ CanConsume(a)
    /\ \/ ~MayTransition(a, outbox[a], v)
       \/ v.kind = "accepted" /\ ReceiptConflict(a, v.receipt)

(* The row the transaction leaves behind.                                  *)
Delivered(a, v) ==
    IF CanConsume(a) /\ ~ApplyThrows(a, v) THEN TransitionOfflineAttempt(outbox[a], v)
    ELSE outbox[a]

ApplyOfflineDelivery(a, v) ==
    /\ outbox' = [outbox EXCEPT ![a] = Delivered(a, v)]
    /\ receipts' = IF CanConsume(a) /\ ~ApplyThrows(a, v) /\ v.kind = "accepted"
                   THEN [receipts EXCEPT ![a] = v.receipt] ELSE receipts

(* reconcileBlockedAttemptWithAuthoritativeReceipt: the only way out of    *)
(* blocked; a row that is no longer blocked, a receipt of another attempt  *)
(* or a different stored receipt leave everything alone.                   *)
Reconciles(a, r) ==
    outbox[a].status = "blocked" /\ r.attempt = a /\ ~ReceiptConflict(a, r)

ReconcileBlockedAttempt(a, r) ==
    /\ outbox' = IF Reconciles(a, r) THEN [outbox EXCEPT ![a] = AcceptReceipt(r)]
                 ELSE outbox
    /\ receipts' = IF Reconciles(a, r) THEN [receipts EXCEPT ![a] = r] ELSE receipts

-----------------------------------------------------------------------------
(* The storage under arbitrary callers.                                    *)

Deliverable == {v \in Verdict :
                   /\ v.kind \in {"retryable", "auth-required", "accepted", "blocked"}
                   /\ v.kind = "accepted" <=> v.receipt # NoReceipt
                   /\ v.kind = "blocked" <=> v.reason # "none"}

StoreNext ==
    \/ RecoverSendingOfflineAttempts
    \/ \E a \in Attempt :
          \/ CommitOfflineAttempt(a)
          \/ MarkOfflineAttemptSending(a)
          \/ MarkOfflineAttemptReauthenticated(a)
          \/ \E v \in Deliverable : ApplyOfflineDelivery(a, v)
          \/ \E r \in Receipt : ReconcileBlockedAttempt(a, r)

StoreSpec == StoreInit /\ [][StoreNext]_storeVars

-----------------------------------------------------------------------------
(* Properties.                                                             *)

(* Every row and every stored receipt is one the decoders accept.          *)
StoreTypeOK ==
    /\ outbox \in [Attempt -> Row]
    /\ receipts \in [Attempt -> Receipt \cup {NoReceipt}]

(* The two stores never disagree: an attempt has a stored receipt exactly  *)
(* when its row is accepted, the row carries that receipt, the receipt is  *)
(* the attempt's own, and the two accepted states tell the receipts that   *)
(* moved the schedule from those that did not (attempt-outbox.ts 417-439). *)
StoresAgree ==
    \A a \in Attempt :
        /\ receipts[a] = outbox[a].receipt
        /\ outbox[a].status \in AcceptedStatus <=> receipts[a] # NoReceipt
        /\ receipts[a] # NoReceipt =>
              /\ receipts[a].attempt = a
              /\ receipts[a].applied <=> outbox[a].status = "accepted-applied"

(* Two pages that answer the same instance at once never both commit: the  *)
(* unique instance index keeps one row (attempt-outbox.ts 220-229).        *)
OneRowPerInstance ==
    \A a, b \in Attempt :
        Stored(a) /\ Stored(b) /\ InstanceOf[a] = InstanceOf[b] => a = b

(* A late answer, a recovery or a retry never rewinds a terminal row: an   *)
(* accepted row never changes again and a blocked row can only become      *)
(* accepted (outbox-core.ts 180-183, attempt-outbox.ts 526-532).           *)
TerminalNeverRewound ==
    [][\A a \in Attempt :
          /\ outbox[a].status \in AcceptedStatus => outbox'[a] = outbox[a]
          /\ outbox[a].status = "blocked" =>
                outbox'[a] = outbox[a] \/ outbox'[a].status \in AcceptedStatus]_storeVars
=============================================================================
