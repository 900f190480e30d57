------------------------ MODULE PilotTransportProofs ------------------------
(***************************************************************************)
(* Proofs about the outbox storage under arbitrary callers, and about the  *)
(* delivery of durable answers, for any number of pages, threads, attempts *)
(* and instances.                                                          *)
(*                                                                         *)
(* Storage: whatever operations are called in whatever order with whatever *)
(* classification, the two stores agree, an instance has one row, and a    *)
(* terminal row is never rewound.                                          *)
(*                                                                         *)
(* Delivery: every step of the transport is one storage operation or       *)
(* leaves the stores alone (TransportUsesStore), so what is proved of the  *)
(* storage holds here; what the wire carries is what the server stores,    *)
(* and the server writes a receipt once (DeliveryInv), so what a row is    *)
(* told is still true when it is told.                                     *)
(***************************************************************************)
EXTENDS PilotTransport, TLAPS

-----------------------------------------------------------------------------
(* The storage.                                                            *)

StoreInv == StoreTypeOK /\ StoresAgree /\ OneRowPerInstance

(* No receipt is the absence of one.                                       *)
LEMMA NoReceiptIsNone == NoReceipt \notin Receipt
BY AttemptAssumption DEF NoReceipt, Receipt, AnyAttempt

(* One delivered row: what applyOfflineDelivery puts for an attempt whose  *)
(* row and stored receipt agree is again a row, agrees with the receipt    *)
(* stored with it, is stored only if the old one was, and is the old row   *)
(* or terminal whenever the old one was terminal.                          *)
LEMMA DeliveredRow ==
    ASSUME StoreTypeOK, StoresAgree, NEW a \in Attempt, NEW v \in Deliverable,
           ApplyOfflineDelivery(a, v)
    PROVE  /\ outbox'[a] \in Row
           /\ receipts' \in [Attempt -> Receipt \cup {NoReceipt}]
           /\ \A b \in Attempt \ {a} : receipts'[b] = receipts[b]
           /\ receipts'[a] = outbox'[a].receipt
           /\ outbox'[a].status \in AcceptedStatus <=> receipts'[a] # NoReceipt
           /\ receipts'[a] # NoReceipt =>
                 /\ receipts'[a].attempt = a
                 /\ receipts'[a].applied <=> outbox'[a].status = "accepted-applied"
           /\ outbox'[a].status = "absent" <=> outbox[a].status = "absent"
           /\ outbox[a].status \in TerminalStatus => outbox'[a] = outbox[a]
<1> DEFINE consumed == CanConsume(a) /\ ~ApplyThrows(a, v)
<1>1. /\ outbox[a] \in Row
      /\ outbox'[a] = Delivered(a, v)
      /\ receipts[a] = outbox[a].receipt
      /\ outbox[a].status \in AcceptedStatus <=> receipts[a] # NoReceipt
      /\ v \in Verdict
  BY DEF StoreTypeOK, StoresAgree, ApplyOfflineDelivery, Deliverable
<1>2. CASE ~consumed
  <2>1. outbox'[a] = outbox[a] /\ receipts' = receipts
    BY <1>1, <1>2 DEF Delivered, ApplyOfflineDelivery
  <2> QED
    BY <1>1, <2>1 DEF StoreTypeOK, StoresAgree
<1>3. CASE consumed
  <2>1. /\ outbox'[a] = TransitionOfflineAttempt(outbox[a], v)
        /\ MayTransition(a, outbox[a], v)
        /\ outbox[a].status \in {"sending", "auth-required"}
    BY <1>1, <1>3 DEF Delivered, ApplyThrows, CanConsume
  <2>2. CASE v.kind = "accepted"
    <3>1. /\ outbox'[a] = AcceptReceipt(v.receipt)
          /\ v.receipt \in Receipt
          /\ v.receipt.attempt = a
          /\ receipts' = [receipts EXCEPT ![a] = v.receipt]
      BY <1>3, <2>1, <2>2
      DEF TransitionOfflineAttempt, MayTransition, ApplyOfflineDelivery, Deliverable, Verdict
    <3> QED
      BY <1>1, <2>1, <3>1, NoReceiptIsNone
      DEF AcceptReceipt, Row, Receipt, AcceptedStatus, TerminalStatus, Status, StoreTypeOK
  <2>3. CASE v.kind # "accepted"
    <3>1. receipts' = receipts
      BY <2>3 DEF ApplyOfflineDelivery
    <3>2. \/ v.kind \in {"retryable", "auth-required"}
          \/ v.kind = "blocked" /\ v.reason \in BlockedReason
      BY <2>3 DEF Deliverable, Verdict
    <3>3. CASE v.kind \in {"retryable", "auth-required"}
      <4>1. \E s \in {"pending", "auth-required"} : outbox'[a] = [outbox[a] EXCEPT !.status = s]
        BY <2>1, <3>3 DEF TransitionOfflineAttempt
      <4> QED
        BY <1>1, <2>1, <3>1, <4>1 DEF Row, Status, AcceptedStatus, TerminalStatus, StoreTypeOK
    <3>4. CASE v.kind = "blocked" /\ v.reason \in BlockedReason
      <4>1. outbox'[a] = [outbox[a] EXCEPT !.status = "blocked", !.reason = v.reason]
        BY <2>1, <3>4 DEF TransitionOfflineAttempt
      <4> QED
        BY <1>1, <2>1, <3>1, <3>4, <4>1
        DEF Row, Status, AcceptedStatus, TerminalStatus, StoreTypeOK
    <3> QED
      BY <3>2, <3>3, <3>4
  <2> QED
    BY <2>2, <2>3
<1> QED
  BY <1>2, <1>3

(* The operations that leave the receipt store alone only move a row among *)
(* the states that have no receipt.                                        *)
LEMMA UnansweredRow ==
    ASSUME StoreTypeOK, StoresAgree, NEW a \in Attempt,
           NEW row \in {MarkedSending(a), Reauthenticated(a),
                        IF outbox[a].status = "sending"
                        THEN [outbox[a] EXCEPT !.status = "pending"] ELSE outbox[a]}
    PROVE  /\ row \in Row
           /\ row.receipt = receipts[a]
           /\ row.status \in AcceptedStatus <=> outbox[a].status \in AcceptedStatus
           /\ row.status = "accepted-applied" <=> outbox[a].status = "accepted-applied"
           /\ row.status = "absent" <=> outbox[a].status = "absent"
           /\ outbox[a].status \in TerminalStatus => row = outbox[a]
<1>1. outbox[a] \in Row /\ receipts[a] = outbox[a].receipt
  BY DEF StoreTypeOK, StoresAgree
<1>2. \/ row = outbox[a]
      \/ /\ outbox[a].status \in {"pending", "sending", "auth-required"}
         /\ \E s \in {"pending", "sending"} : row = [outbox[a] EXCEPT !.status = s]
  BY DEF MarkedSending, Reauthenticated, TransitionOfflineAttempt, Plain
<1> QED
  BY <1>1, <1>2 DEF Row, Status, AcceptedStatus, TerminalStatus

(* What one storage operation may do to a row, in the words the properties *)
(* are stated in.                                                          *)
RowStep(a) ==
    /\ outbox'[a] \in Row
    /\ receipts'[a] \in Receipt \cup {NoReceipt}
    /\ receipts'[a] = outbox'[a].receipt
    /\ outbox'[a].status \in AcceptedStatus <=> receipts'[a] # NoReceipt
    /\ receipts'[a] # NoReceipt =>
          /\ receipts'[a].attempt = a
          /\ receipts'[a].applied <=> outbox'[a].status = "accepted-applied"
    /\ Stored(a) => Stored(a)'
    /\ Stored(a)' => \/ Stored(a)
                     \/ /\ RowsOf(InstanceOf[a]) = {}
                        /\ \A b \in Attempt \ {a} : outbox'[b] = outbox[b]
    /\ outbox[a].status \in AcceptedStatus => outbox'[a] = outbox[a]
    /\ outbox[a].status = "blocked" =>
          outbox'[a] = outbox[a] \/ outbox'[a].status \in AcceptedStatus

LEMMA UnchangedRow ==
    ASSUME StoreTypeOK, StoresAgree, NEW a \in Attempt,
           outbox'[a] = outbox[a], receipts'[a] = receipts[a]
    PROVE  RowStep(a)
BY DEF RowStep, StoreTypeOK, StoresAgree, Stored

(* Every storage operation takes every row along such a step.              *)
LEMMA StoreStep ==
    ASSUME StoreTypeOK, StoresAgree, StoreNext
    PROVE  /\ outbox' = [a \in Attempt |-> outbox'[a]]
           /\ receipts' = [a \in Attempt |-> receipts'[a]]
           /\ \A a \in Attempt : RowStep(a)
<1>1. CASE RecoverSendingOfflineAttempts
  <2>1. ASSUME NEW a \in Attempt PROVE RowStep(a)
    <3>1. outbox'[a] = (IF outbox[a].status = "sending"
                        THEN [outbox[a] EXCEPT !.status = "pending"] ELSE outbox[a])
          /\ receipts' = receipts
      BY <1>1 DEF RecoverSendingOfflineAttempts
    <3>2. /\ outbox'[a] \in Row
          /\ outbox'[a].receipt = receipts[a]
          /\ outbox'[a].status \in AcceptedStatus <=> outbox[a].status \in AcceptedStatus
          /\ outbox'[a].status = "accepted-applied" <=> outbox[a].status = "accepted-applied"
          /\ outbox'[a].status = "absent" <=> outbox[a].status = "absent"
          /\ outbox[a].status \in TerminalStatus => outbox'[a] = outbox[a]
      BY <3>1, UnansweredRow
    <3> QED
      BY <3>1, <3>2 DEF RowStep, Stored, StoreTypeOK, StoresAgree, TerminalStatus
  <2> QED
    BY <1>1, <2>1 DEF RecoverSendingOfflineAttempts, StoreTypeOK
<1>2. ASSUME NEW c \in Attempt, CommitOfflineAttempt(c)
      PROVE  /\ outbox' = [a \in Attempt |-> outbox'[a]]
             /\ receipts' = receipts
             /\ \A a \in Attempt : RowStep(a)
  <2>1. \A a \in Attempt \ {c} : outbox'[a] = outbox[a]
    BY <1>2 DEF CommitOfflineAttempt, StoreTypeOK
  <2>2. CASE RowsOf(InstanceOf[c]) = {}
    <3>1. outbox'[c] = Pending /\ ~Stored(c) /\ receipts' = receipts
      BY <1>2, <2>2 DEF CommitOfflineAttempt, RowsOf, StoreTypeOK
    <3>2. RowStep(c)
      BY <2>1, <2>2, <3>1
      DEF RowStep, Pending, Row, Status, Stored, AcceptedStatus, TerminalStatus,
          StoreTypeOK, StoresAgree
    <3> QED
      BY <1>2, <2>1, <3>1, <3>2, UnchangedRow DEF CommitOfflineAttempt, StoreTypeOK
  <2>3. CASE RowsOf(InstanceOf[c]) # {}
    BY <1>2, <2>3, UnchangedRow DEF CommitOfflineAttempt, StoreTypeOK
  <2> QED
    BY <2>2, <2>3
<1>3. ASSUME NEW c \in Attempt, MarkOfflineAttemptSending(c) \/ MarkOfflineAttemptReauthenticated(c)
      PROVE  /\ outbox' = [a \in Attempt |-> outbox'[a]]
             /\ receipts' = receipts
             /\ \A a \in Attempt : RowStep(a)
  <2>1. /\ outbox'[c] \in {MarkedSending(c), Reauthenticated(c)}
        /\ \A a \in Attempt \ {c} : outbox'[a] = outbox[a]
        /\ outbox' = [a \in Attempt |-> outbox'[a]]
        /\ receipts' = receipts
    BY <1>3 DEF MarkOfflineAttemptSending, MarkOfflineAttemptReauthenticated, StoreTypeOK
  <2>2. /\ outbox'[c] \in Row
        /\ outbox'[c].receipt = receipts[c]
        /\ outbox'[c].status \in AcceptedStatus <=> outbox[c].status \in AcceptedStatus
        /\ outbox'[c].status = "accepted-applied" <=> outbox[c].status = "accepted-applied"
        /\ outbox'[c].status = "absent" <=> outbox[c].status = "absent"
        /\ outbox[c].status \in TerminalStatus => outbox'[c] = outbox[c]
    BY <2>1, UnansweredRow
  <2>3. RowStep(c)
    BY <2>1, <2>2 DEF RowStep, Stored, StoreTypeOK, StoresAgree, TerminalStatus
  <2> QED
    BY <2>1, <2>3, UnchangedRow
<1>4. ASSUME NEW c \in Attempt, NEW v \in Deliverable, ApplyOfflineDelivery(c, v)
      PROVE  /\ outbox' = [a \in Attempt |-> outbox'[a]]
             /\ receipts' = [a \in Attempt |-> receipts'[a]]
             /\ \A a \in Attempt : RowStep(a)
  <2>1. /\ \A a \in Attempt \ {c} : outbox'[a] = outbox[a]
        /\ outbox' = [a \in Attempt |-> outbox'[a]]
    BY <1>4 DEF ApplyOfflineDelivery, StoreTypeOK
  <2>2. /\ receipts' \in [Attempt -> Receipt \cup {NoReceipt}]
        /\ \A a \in Attempt \ {c} : receipts'[a] = receipts[a]
    BY <1>4, DeliveredRow
  <2>3. RowStep(c)
    BY <1>4, <2>2, DeliveredRow DEF RowStep, Stored, TerminalStatus
  <2> QED
    BY <2>1, <2>2, <2>3, UnchangedRow
<1>5. ASSUME NEW c \in Attempt, NEW r \in Receipt, ReconcileBlockedAttempt(c, r)
      PROVE  /\ outbox' = [a \in Attempt |-> outbox'[a]]
             /\ receipts' = [a \in Attempt |-> receipts'[a]]
             /\ \A a \in Attempt : RowStep(a)
  <2>1. CASE Reconciles(c, r)
    <3>1. /\ outbox' = [outbox EXCEPT ![c] = AcceptReceipt(r)]
          /\ receipts' = [receipts EXCEPT ![c] = r]
          /\ outbox[c].status = "blocked"
          /\ r.attempt = c
      BY <1>5, <2>1 DEF ReconcileBlockedAttempt, Reconciles
    <3>2. RowStep(c)
      BY <3>1, NoReceiptIsNone
      DEF RowStep, AcceptReceipt, Row, Receipt, AcceptedStatus, TerminalStatus, Status,
          Stored, StoreTypeOK
    <3> QED
      BY <3>1, <3>2, UnchangedRow DEF StoreTypeOK
  <2>2. CASE ~Reconciles(c, r)
    BY <1>5, <2>2, UnchangedRow DEF ReconcileBlockedAttempt, StoreTypeOK
  <2> QED
    BY <2>1, <2>2
<1> QED
  BY <1>1, <1>2, <1>3, <1>4, <1>5 DEF StoreNext, StoreTypeOK

-----------------------------------------------------------------------------
LEMMA StoreInvInit == StoreInit => StoreInv
BY NoReceiptIsNone
DEF StoreInit, StoreInv, StoreTypeOK, StoresAgree, OneRowPerInstance, Absent, Row, Stored,
    Status, AcceptedStatus, TerminalStatus

LEMMA StoreInvStep == StoreInv /\ [StoreNext]_storeVars => StoreInv'
<1> SUFFICES ASSUME StoreInv, [StoreNext]_storeVars PROVE StoreInv'
  OBVIOUS
<1>1. CASE StoreNext
  <2>1. /\ outbox' = [a \in Attempt |-> outbox'[a]]
        /\ receipts' = [a \in Attempt |-> receipts'[a]]
        /\ \A a \in Attempt : RowStep(a)
    BY <1>1, StoreStep DEF StoreInv
  <2>2. StoreTypeOK' /\ StoresAgree'
    BY <2>1 DEF StoreTypeOK, StoresAgree, RowStep
  <2>3. OneRowPerInstance'
    <3> SUFFICES ASSUME NEW a \in Attempt, NEW b \in Attempt,
                        Stored(a)', Stored(b)', InstanceOf[a] = InstanceOf[b], a # b
                 PROVE  FALSE
      BY DEF OneRowPerInstance
    <3>1. Stored(a) /\ Stored(b) => FALSE
      BY DEF StoreInv, OneRowPerInstance
    <3>2. ~Stored(a) => FALSE
      BY <2>1 DEF RowStep, RowsOf, Stored
    <3>3. ~Stored(b) => FALSE
      BY <2>1 DEF RowStep, RowsOf, Stored
    <3> QED
      BY <3>1, <3>2, <3>3
  <2> QED
    BY <2>2, <2>3 DEF StoreInv
<1>2. CASE UNCHANGED storeVars
  BY <1>2 DEF StoreInv, StoreTypeOK, StoresAgree, OneRowPerInstance, Stored, storeVars
<1> QED
  BY <1>1, <1>2

(* Whatever the callers do, the stores are well formed, agree with each    *)
(* other and hold one row per instance.                                    *)
THEOREM StoreInvariant == StoreSpec => [](StoreTypeOK /\ StoresAgree /\ OneRowPerInstance)
BY StoreInvInit, StoreInvStep, PTL DEF StoreSpec, StoreInv

(* Every row is well formed.                                               *)
THEOREM StoreTypeCorrect == StoreSpec => []StoreTypeOK
BY StoreInvariant, PTL

(* A receipt is stored exactly with the accepted row it belongs to.        *)
THEOREM StoresStayInAgreement == StoreSpec => []StoresAgree
BY StoreInvariant, PTL

(* Two attempts on one instance are never both stored.                     *)
THEOREM InstancesHaveOneRow == StoreSpec => []OneRowPerInstance
BY StoreInvariant, PTL

(* Whatever the callers do, an accepted row never changes and a blocked    *)
(* one can only become accepted.                                           *)
THEOREM StoreNeverRewinds == StoreSpec => TerminalNeverRewound
<1>1. StoreInv /\ [StoreNext]_storeVars =>
        [\A a \in Attempt :
          /\ outbox[a].status \in AcceptedStatus => outbox'[a] = outbox[a]
          /\ outbox[a].status = "blocked" =>
                outbox'[a] = outbox[a] \/ outbox'[a].status \in AcceptedStatus]_storeVars
  BY StoreStep DEF StoreInv, RowStep
<1> QED
  BY <1>1, StoreInvInit, StoreInvStep, PTL DEF StoreSpec, TerminalNeverRewound

-----------------------------------------------------------------------------
(* The delivery.                                                           *)

(* The server never replaces a stored receipt.                             *)
ServerKeeps ==
    \A i \in Instance : server[i] # NoReceipt => server'[i] = server[i]

(* A classification that says only what the server's receipt warrants.     *)
Warranted(a, v) ==
    /\ v.kind = "accepted" => v.receipt = server[InstanceOf[a]]
    /\ v.reason \in {"attempt-conflict", "instance-already-answered"} =>
          server[InstanceOf[a]].attempt \in AnyAttempt \ {a}

(* A row that says only what the server's receipt warrants.                *)
Backed(row, a) ==
    /\ row.status \in AcceptedStatus => row.receipt = server[InstanceOf[a]]
    /\ row.reason \in {"attempt-conflict", "instance-already-answered"} =>
          server[InstanceOf[a]].attempt \in AnyAttempt \ {a}

(* The classifiers: from an honest answer they make a warranted            *)
(* classification, one the storage takes unless a lookup must follow.      *)
LEMMA ClassifiersWarranted ==
    ASSUME NEW a \in Attempt, NEW m \in Message, m.kind \in ReplyKind,
           m.kind = "receipt" => m.receipt \in Receipt /\ m.receipt = server[InstanceOf[a]]
    PROVE  /\ LET v == ClassifyOfflineServerOutcome(m, a) IN
              Warranted(a, v) /\ (v.kind # "receipt-lookup-required" => v \in Deliverable)
           /\ LET v == LookupStoredReceipt(m, a) IN Warranted(a, v) /\ v \in Deliverable
           /\ LET v == ProbeAuthentication(m, a) IN
              /\ Warranted(a, v)
              /\ v.kind \in {"auth-required", "reauthenticated"} \/ v \in Deliverable
<1> DEFINE Ok(v) == Warranted(a, v) /\ v \in Deliverable
<1>1. Ok(Plain("retryable")) /\ Ok(Plain("auth-required"))
  BY DEF Plain, Warranted, Deliverable, Verdict
<1>2. /\ Ok(Blocked("malformed-response"))
      /\ Ok(Blocked("incomplete-authoritative-receipt"))
  BY DEF Blocked, Warranted, Deliverable, Verdict, BlockedReason
<1>3. ASSUME m.kind = "receipt" PROVE Ok(Accepted(m.receipt))
  BY <1>3, NoReceiptIsNone DEF Accepted, Warranted, Deliverable, Verdict
<1>4. ASSUME m.kind = "receipt" PROVE Ok(ClassifyStoredReceiptLookup(m.receipt, a))
  <2>1. m.receipt.attempt \in AnyAttempt /\ a \in AnyAttempt
    BY <1>4 DEF Receipt, AnyAttempt
  <2>2. CASE m.receipt.attempt = a
    BY <1>3, <1>4, <2>2 DEF ClassifyStoredReceiptLookup
  <2>3. CASE m.receipt.attempt # a
    <3>1. \E reason \in {"attempt-conflict", "instance-already-answered"} :
            ClassifyStoredReceiptLookup(m.receipt, a) = Blocked(reason)
      BY <2>3 DEF ClassifyStoredReceiptLookup
    <3> QED
      BY <1>4, <2>1, <2>3, <3>1 DEF Blocked, Warranted, Deliverable, Verdict, BlockedReason
  <2> QED
    BY <2>2, <2>3
<1>5. LET v == ClassifyOfflineServerOutcome(m, a) IN
      v = Plain("receipt-lookup-required") \/ Ok(v)
  <2> HIDE DEF Ok
  <2> QED
    BY <1>1, <1>2, <1>3 DEF ClassifyOfflineServerOutcome, ReplyKind
<1>6. Ok(LookupStoredReceipt(m, a))
  <2> HIDE DEF Ok
  <2> QED
    BY <1>1, <1>2, <1>4 DEF LookupStoredReceipt, ReplyKind
<1>7. LET v == ProbeAuthentication(m, a) IN
      v \in {Plain("auth-required"), Plain("reauthenticated")} \/ Ok(v)
  <2> HIDE DEF Ok
  <2> QED
    BY <1>6 DEF ProbeAuthentication
<1> QED
  BY <1>5, <1>6, <1>7 DEF Plain, Warranted

(* Every row is backed, before and after.                                  *)
AllBacked == \A a \in Attempt : Backed(outbox[a], a)
StayBacked == \A a \in Attempt : Backed(outbox'[a], a)

LEMMA InvBacked == DeliveryInv => AllBacked
BY DEF DeliveryInv, AllBacked, Backed, AcceptedIsAuthoritative, BeatenIsFinal

(* The operations that carry no receipt keep every row backed.             *)
LEMMA PlainBacked ==
    ASSUME StoreTypeOK, AllBacked,
           \/ RecoverSendingOfflineAttempts
           \/ UNCHANGED storeVars
           \/ \E a \in Attempt : \/ CommitOfflineAttempt(a)
                                 \/ MarkOfflineAttemptSending(a)
                                 \/ MarkOfflineAttemptReauthenticated(a)
    PROVE  StayBacked
<1> SUFFICES ASSUME NEW b \in Attempt PROVE Backed(outbox'[b], b)
  BY DEF StayBacked
<1>1. outbox[b] \in Row /\ Backed(outbox[b], b)
  BY DEF StoreTypeOK, AllBacked
<1>2. \/ outbox'[b] = outbox[b]
      \/ outbox'[b] = Pending
      \/ \E s \in {"pending", "sending"} : outbox'[b] = [outbox[b] EXCEPT !.status = s]
  BY DEF StoreTypeOK, RecoverSendingOfflineAttempts, storeVars, CommitOfflineAttempt,
         MarkOfflineAttemptSending, MarkedSending, MarkOfflineAttemptReauthenticated,
         Reauthenticated, TransitionOfflineAttempt, Plain
<1> QED
  BY <1>1, <1>2 DEF Backed, Pending, Row, AcceptedStatus

(* Delivering a warranted classification keeps every row backed.           *)
LEMMA DeliveryBacked ==
    ASSUME StoreTypeOK, AllBacked, NEW a \in Attempt, NEW v \in Deliverable,
           Warranted(a, v), ApplyOfflineDelivery(a, v)
    PROVE  StayBacked
<1> SUFFICES ASSUME NEW b \in Attempt PROVE Backed(outbox'[b], b)
  BY DEF StayBacked
<1>1. outbox[b] \in Row /\ Backed(outbox[b], b)
  BY DEF StoreTypeOK, AllBacked
<1>2. CASE outbox'[b] = outbox[b]
  BY <1>1, <1>2
<1>3. CASE outbox'[b] # outbox[b]
  <2>1. b = a /\ outbox'[a] = TransitionOfflineAttempt(outbox[a], v)
    BY <1>3 DEF ApplyOfflineDelivery, Delivered, StoreTypeOK
  <2>2. v.kind \in {"retryable", "auth-required", "accepted", "blocked"}
    BY DEF Deliverable
  <2>3. CASE v.kind \in {"retryable", "auth-required"}
    <3>1. \E s \in {"pending", "auth-required"} : outbox'[a] = [outbox[a] EXCEPT !.status = s]
      BY <2>1, <2>3 DEF TransitionOfflineAttempt
    <3> QED
      BY <1>1, <2>1, <3>1 DEF Backed, Row, AcceptedStatus
  <2>4. CASE v.kind = "blocked"
    <3>1. outbox'[a] = [outbox[a] EXCEPT !.status = "blocked", !.reason = v.reason]
      BY <2>1, <2>4 DEF TransitionOfflineAttempt
    <3> QED
      BY <1>1, <2>1, <3>1 DEF Backed, Warranted, Row, AcceptedStatus
  <2>5. CASE v.kind = "accepted"
    BY <2>1, <2>5 DEF TransitionOfflineAttempt, AcceptReceipt, Backed, Warranted
  <2> QED
    BY <2>2, <2>3, <2>4, <2>5
<1> QED
  BY <1>2, <1>3

LEMMA ReconcileBacked ==
    ASSUME StoreTypeOK, AllBacked, NEW a \in Attempt,
           ReconcileBlockedAttempt(a, server[InstanceOf[a]])
    PROVE  StayBacked
<1> SUFFICES ASSUME NEW b \in Attempt PROVE Backed(outbox'[b], b)
  BY DEF StayBacked
<1>1. \/ outbox'[b] = outbox[b]
      \/ b = a /\ outbox'[b] = AcceptReceipt(server[InstanceOf[a]])
  BY DEF ReconcileBlockedAttempt, StoreTypeOK
<1> QED
  BY <1>1 DEF AllBacked, Backed, AcceptReceipt

-----------------------------------------------------------------------------
(* What a step does to the stores and to the server, in three cases.       *)
StoreMove  == StoreNext /\ StayBacked /\ UNCHANGED server
ServerMove == /\ UNCHANGED storeVars
              /\ \E a \in AnyAttempt, applied \in BOOLEAN :
                    /\ a \in Attempt => Stored(a)
                    /\ server' = Recorded(a, applied)
Neither    == UNCHANGED <<storeVars, server>>

(* The answer a thread has in hand.                                        *)
LEMMA AnswerInHand ==
    ASSUME DeliveryInv, NEW t \in Thread, Answered(t),
           pc[t] \in SendStep \cup RecoverStep
    PROVE  /\ target[t] \in Attempt
           /\ wire[t] \in Message
           /\ wire[t].kind = "receipt" =>
                 /\ wire[t].receipt \in Receipt
                 /\ wire[t].receipt = server[InstanceOf[target[t]]]
BY DEF DeliveryInv, ThreadsSound, WireHonest, TypeOK

LEMMA DeliverMoves ==
    ASSUME DeliveryInv, NEW t \in Thread, NEW v \in Deliverable,
           target[t] \in Attempt, Warranted(target[t], v),
           ApplyOfflineDelivery(target[t], v), UNCHANGED server
    PROVE  StoreMove
BY DeliveryBacked, InvBacked DEF StoreMove, StoreNext, DeliveryInv, TypeOK

LEMMA PlainMoves ==
    ASSUME DeliveryInv, UNCHANGED server,
           \/ RecoverSendingOfflineAttempts
           \/ \E a \in Attempt : \/ CommitOfflineAttempt(a)
                                 \/ MarkOfflineAttemptSending(a)
                                 \/ MarkOfflineAttemptReauthenticated(a)
    PROVE  StoreMove
BY PlainBacked, InvBacked DEF StoreMove, StoreNext, DeliveryInv, TypeOK

LEMMA SenderMoves ==
    ASSUME DeliveryInv, NEW t \in Sender, SenderStep(t)
    PROVE  StoreMove \/ Neither
<1>1. t \in Thread
  BY DEF Thread
<1>2. CASE ProbeAnswered(t)
  <2>1. target[t] \in Attempt
    BY <1>1, <1>2, AnswerInHand DEF ProbeAnswered, SendStep
  <2>2. LET v == ProbeAuthentication(wire[t], target[t]) IN
        /\ Warranted(target[t], v)
        /\ v.kind \in {"auth-required", "reauthenticated"} \/ v \in Deliverable
    BY <1>1, <1>2, AnswerInHand, ClassifiersWarranted DEF ProbeAnswered, SendStep, Answered
  <2>3. CASE UNCHANGED <<storeVars, server>>
    BY <2>3 DEF Neither
  <2>4. CASE MarkOfflineAttemptReauthenticated(target[t])
    BY <1>2, <2>1, <2>4, PlainMoves DEF ProbeAnswered
  <2>5. ASSUME ApplyOfflineDelivery(target[t], ProbeAuthentication(wire[t], target[t])),
               ProbeAuthentication(wire[t], target[t]).kind \in {"accepted", "blocked"}
        PROVE  StoreMove
    <3>1. UNCHANGED server
      BY <1>2 DEF ProbeAnswered
    <3>2. ProbeAuthentication(wire[t], target[t]) \in Deliverable
      BY <2>2, <2>5
    <3> QED
      BY <1>1, <2>1, <2>2, <2>5, <3>1, <3>2, DeliverMoves
  <2> QED
    BY <1>2, <2>3, <2>4, <2>5 DEF ProbeAnswered
<1>3. CASE MarkAndPost(t)
  <2>1. target[t] \in Attempt
    BY <1>1, <1>3 DEF MarkAndPost, DeliveryInv, ThreadsSound, SendStep
  <2> QED
    BY <1>3, <2>1, PlainMoves DEF MarkAndPost
<1>4. CASE PostAnswered(t)
  <2> DEFINE v == ClassifyOfflineServerOutcome(wire[t], target[t])
  <2>1. target[t] \in Attempt
    BY <1>1, <1>4, AnswerInHand DEF PostAnswered, SendStep
  <2>2. Warranted(target[t], v) /\ (v.kind # "receipt-lookup-required" => v \in Deliverable)
    BY <1>1, <1>4, AnswerInHand, ClassifiersWarranted DEF PostAnswered, SendStep, Answered
  <2>3. CASE v.kind = "receipt-lookup-required"
    BY <1>4, <2>3 DEF PostAnswered, Neither
  <2>4. CASE v.kind # "receipt-lookup-required"
    <3>1. ApplyOfflineDelivery(target[t], v) /\ UNCHANGED server
      BY <1>4, <2>4 DEF PostAnswered, Deliver
    <3> HIDE DEF v
    <3> QED
      BY <1>1, <2>1, <2>2, <2>4, <3>1, DeliverMoves
  <2> QED
    BY <2>3, <2>4
<1>5. CASE LookupAnswered(t)
  <2> DEFINE v == LookupStoredReceipt(wire[t], target[t])
  <2>1. target[t] \in Attempt
    BY <1>1, <1>5, AnswerInHand DEF LookupAnswered, SendStep
  <2>2. Warranted(target[t], v) /\ v \in Deliverable
    BY <1>1, <1>5, AnswerInHand, ClassifiersWarranted DEF LookupAnswered, SendStep, Answered
  <2>3. ApplyOfflineDelivery(target[t], v) /\ UNCHANGED server
    BY <1>5 DEF LookupAnswered, Deliver
  <2> HIDE DEF v
  <2> QED
    BY <1>1, <2>1, <2>2, <2>3, DeliverMoves
<1> QED
  BY <1>2, <1>3, <1>4, <1>5 DEF SenderStep

LEMMA RecovererMoves ==
    ASSUME DeliveryInv, NEW m \in Recoverer, RecovererStep(m)
    PROVE  StoreMove \/ Neither
<1>1. m \in Thread
  BY DEF Thread
<1>2. CASE \E a \in Attempt : StartRecovery(m, a)
  BY <1>2 DEF StartRecovery, Neither
<1>3. CASE RecoveryValidated(m)
  BY <1>3 DEF RecoveryValidated, Neither
<1>4. ASSUME NEW v, Warranted(target[m], v), v \in Deliverable, target[m] \in Attempt,
             Reconcile(m, v)
      PROVE  StoreMove \/ Neither
  <2>1. CASE v.kind = "accepted"
    <3>1. /\ v.receipt \in Receipt
          /\ v.receipt = server[InstanceOf[target[m]]]
      BY <1>4, <2>1 DEF Warranted, Deliverable, Verdict
    <3>2. ReconcileBlockedAttempt(target[m], server[InstanceOf[target[m]]]) /\ UNCHANGED server
      BY <1>4, <2>1, <3>1 DEF Reconcile
    <3> QED
      BY <1>4, <3>1, <3>2, ReconcileBacked, InvBacked
      DEF StoreMove, StoreNext, DeliveryInv, TypeOK
  <2>2. CASE v.kind # "accepted"
    BY <1>4, <2>2 DEF Reconcile, Neither
  <2> QED
    BY <2>1, <2>2
<1>5. CASE RecoveryAnswered(m)
  <2> DEFINE v == ClassifyOfflineServerOutcome(wire[m], target[m])
  <2>1. target[m] \in Attempt
    BY <1>1, <1>5, AnswerInHand DEF RecoveryAnswered, RecoverStep
  <2>2. Warranted(target[m], v) /\ (v.kind # "receipt-lookup-required" => v \in Deliverable)
    BY <1>1, <1>5, AnswerInHand, ClassifiersWarranted DEF RecoveryAnswered, RecoverStep, Answered
  <2>3. CASE v.kind = "receipt-lookup-required"
    BY <1>5, <2>3 DEF RecoveryAnswered, Neither
  <2>4. CASE v.kind # "receipt-lookup-required"
    <3>1. Reconcile(m, v)
      BY <1>5, <2>4 DEF RecoveryAnswered
    <3> HIDE DEF v
    <3> QED
      BY <1>4, <2>1, <2>2, <2>4, <3>1
  <2> QED
    BY <2>3, <2>4
<1>6. CASE RecoveryLookedUp(m)
  <2> DEFINE v == LookupStoredReceipt(wire[m], target[m])
  <2>1. target[m] \in Attempt
    BY <1>1, <1>6, AnswerInHand DEF RecoveryLookedUp, RecoverStep
  <2>2. Warranted(target[m], v) /\ v \in Deliverable
    BY <1>1, <1>6, AnswerInHand, ClassifiersWarranted DEF RecoveryLookedUp, RecoverStep, Answered
  <2>3. Reconcile(m, v)
    BY <1>6 DEF RecoveryLookedUp
  <2> HIDE DEF v
  <2> QED
    BY <1>4, <2>1, <2>2, <2>3
<1> QED
  BY <1>2, <1>3, <1>5, <1>6 DEF RecovererStep

LEMMA FlushMoves ==
    ASSUME DeliveryInv, NEW f \in Flusher, FlushStep(f)
    PROVE  StoreMove \/ Neither
BY PlainMoves DEF FlushStep, StartFlush, ListOfflineAttempts, FlushOver, FlushNext, Begin, Neither

LEMMA SubmitMoves ==
    ASSUME DeliveryInv, NEW u \in Submitter, SubmitStep(u)
    PROVE  StoreMove \/ Neither
<1>1. CASE CommitPilotOfflineAttempt(u)
  <2>1. target[u] \in Attempt
    BY <1>1 DEF CommitPilotOfflineAttempt, DeliveryInv, ThreadsSound, Thread, Sender
  <2> QED
    BY <1>1, <2>1, PlainMoves DEF CommitPilotOfflineAttempt
<1> QED
  BY <1>1 DEF SubmitStep, AnswerCard, SendCommitted, Begin, Neither

LEMMA EnvironmentMoves ==
    ASSUME DeliveryInv, Environment
    PROVE  ServerMove \/ Neither
<1>1. ASSUME NEW t \in Thread, AttemptRoute(t) PROVE ServerMove \/ Neither
  <2>1. target[t] \in Attempt /\ Stored(target[t])
    BY <1>1 DEF AttemptRoute, Unserved, Posting, DeliveryInv, ThreadsSound, SendStep, RecoverStep
  <2> QED
    BY <1>1, <2>1 DEF AttemptRoute, ServerMove, Neither, AnyAttempt
<1>2. ASSUME NEW a \in Attempt, StrayArrives(a) PROVE ServerMove
  BY <1>2 DEF StrayArrives, ServerMove, AnyAttempt, DeliveryInv, SentIsDurable
<1>3. ASSUME NEW b \in Foreign, ForeignAnswer(b) PROVE ServerMove
  BY <1>3, AttemptAssumption DEF ForeignAnswer, ServerMove, AnyAttempt
<1>4. ASSUME NEW t \in Thread, ReceiptRoute(t) \/ NetworkFails(t) \/ Reload(t) PROVE Neither
  BY <1>4 DEF ReceiptRoute, NetworkFails, Reload, Neither
<1> QED
  BY <1>1, <1>2, <1>3, <1>4 DEF Environment

LEMMA NextMoves ==
    ASSUME DeliveryInv, Next
    PROVE  StoreMove \/ ServerMove \/ Neither
BY SenderMoves, RecovererMoves, FlushMoves, SubmitMoves, EnvironmentMoves DEF Next

-----------------------------------------------------------------------------
(* What no step takes back, whichever of the three it is.                  *)
LEMMA StepKeeps ==
    ASSUME DeliveryInv, Next
    PROVE  /\ [StoreNext]_storeVars
           /\ StayBacked
           /\ ServerKeeps
           /\ server' \in [Instance -> Receipt \cup {NoReceipt}]
           /\ ServerSound'
           /\ \A a \in Attempt : Stored(a) => Stored(a)'
           /\ \A i \in Instance : server'[i].attempt \in Attempt => Stored(server'[i].attempt)
           /\ \A a \in Attempt : outbox[a].status \in AcceptedStatus => outbox'[a] = outbox[a]
<1>1. CASE StoreMove
  <2>1. \A a \in Attempt : RowStep(a)
    BY <1>1, StoreStep DEF StoreMove, DeliveryInv, TypeOK
  <2> QED
    BY <1>1, <2>1
    DEF StoreMove, ServerKeeps, ServerSound, RowStep, DeliveryInv, TypeOK, SentIsDurable
<1>2. CASE ServerMove
  <2>1. PICK a \in AnyAttempt, applied \in BOOLEAN :
          (a \in Attempt => Stored(a)) /\ server' = Recorded(a, applied)
    BY <1>2 DEF ServerMove
  <2>2. InstanceOf[a] \in Instance
    BY AttemptAssumption
  <2>3. [attempt |-> a, applied |-> applied] \in Receipt
    BY DEF Receipt
  <2>4. server \in [Instance -> Receipt \cup {NoReceipt}] /\ ServerSound
    BY DEF DeliveryInv, TypeOK
  <2>5. \A i \in Instance : \/ server'[i] = server[i]
                            \/ /\ i = InstanceOf[a] /\ server[i] = NoReceipt
                               /\ server'[i] = [attempt |-> a, applied |-> applied]
    BY <2>1, <2>2, <2>4 DEF Recorded
  <2>6. ServerKeeps /\ ServerSound'
    BY <2>4, <2>5 DEF ServerKeeps, ServerSound
  <2>7. server' \in [Instance -> Receipt \cup {NoReceipt}]
    BY <2>1, <2>2, <2>3, <2>4 DEF Recorded
  <2>8. \A i \in Instance : server'[i].attempt \in Attempt => Stored(server'[i].attempt)
    BY <2>1, <2>5 DEF DeliveryInv, SentIsDurable
  <2> QED
    BY <1>2, <2>6, <2>7, <2>8, PlainBacked, InvBacked
    DEF ServerMove, Stored, storeVars, DeliveryInv, TypeOK
<1>3. CASE Neither
  BY <1>3, PlainBacked, InvBacked
  DEF Neither, Stored, storeVars, ServerKeeps, ServerSound, DeliveryInv, TypeOK, SentIsDurable
<1> QED
  BY <1>1, <1>2, <1>3, NextMoves

-----------------------------------------------------------------------------
(* The threads.  Everything the invariant says of one of them.             *)
ThreadOK(t) ==
    /\ pc[t] \in Location
    /\ target[t] \in Attempt \cup {None}
    /\ queue[t] \in SUBSET Attempt
    /\ wire[t] \in Message
    /\ pc[t] \in SendStep \cup RecoverStep \cup {"committed", "accepted"} =>
          target[t] \in Attempt /\ Stored(target[t])
    /\ pc[t] = "committing" => target[t] \in Attempt
    /\ pc[t] \in RecoverStep => t \in Recoverer
    /\ pc[t] \in SendStep => t \in Sender
    /\ pc[t] \in Report \ {"threw"} => t \in Submitter
    /\ \A a \in queue[t] : Stored(a)
    /\ wire[t].kind # "quiet" =>
          pc[t] \in {"probing", "posted", "lookup", "reposted", "relookup"}
    /\ wire[t].kind = "receipt" =>
          wire[t].receipt \in Receipt /\ wire[t].receipt = server[InstanceOf[target[t]]]
    /\ t \in Submitter /\ pc[t] = "accepted" => outbox[target[t]].status \in AcceptedStatus

StrayOK == stray \in SUBSET Attempt /\ \A a \in stray : Stored(a)

Parts ==
    /\ StoreInv
    /\ server \in [Instance -> Receipt \cup {NoReceipt}]
    /\ pc = [t \in Thread |-> pc[t]] /\ target = [t \in Thread |-> target[t]]
    /\ queue = [t \in Thread |-> queue[t]] /\ wire = [t \in Thread |-> wire[t]]
    /\ \A t \in Thread : ThreadOK(t)
    /\ StrayOK /\ ServerSound /\ AllBacked
    /\ \A i \in Instance : server[i].attempt \in Attempt => Stored(server[i].attempt)

LEMMA InvParts == DeliveryInv <=> Parts
<1>1. Submitter \subseteq Thread
  BY DEF Thread, Sender
<1>2. {"posted", "reposted"} \subseteq SendStep \cup RecoverStep
  BY DEF SendStep, RecoverStep
<1> QED
  BY <1>1, <1>2
  DEF Parts, DeliveryInv, StoreInv, TypeOK, ThreadsSound, WireHonest, ThreadOK, StrayOK, AllBacked,
      Backed, AcceptedIsAuthoritative, BeatenIsFinal, SentIsDurable, ReportedIsDurable,
      Posting

(* A thread that takes no part in a step is as sound after it as before:   *)
(* rows stay, accepted rows and stored receipts stay as they are.          *)
LEMMA Bystander ==
    ASSUME DeliveryInv, Next, NEW t \in Thread,
           pc'[t] = pc[t], target'[t] = target[t], queue'[t] = queue[t], wire'[t] = wire[t]
    PROVE  ThreadOK(t)'
<1>1. ThreadOK(t)
  BY InvParts DEF Parts
<1>2. CASE wire[t].kind = "receipt"
  <2>1. pc[t] \in SendStep \cup RecoverStep /\ target[t] \in Attempt
    BY <1>1, <1>2 DEF ThreadOK, SendStep, RecoverStep
  <2>2. InstanceOf[target[t]] \in Instance
    BY <2>1, AttemptAssumption DEF AnyAttempt
  <2>3. server'[InstanceOf[target[t]]] = server[InstanceOf[target[t]]]
    BY <1>1, <1>2, <2>2, StepKeeps, NoReceiptIsNone DEF ThreadOK, ServerKeeps
  <2> QED
    BY <1>1, <2>3, StepKeeps DEF ThreadOK
<1>3. CASE wire[t].kind # "receipt"
  BY <1>1, <1>3, StepKeeps DEF ThreadOK
<1> QED
  BY <1>2, <1>3

(* A step of thread t touches no other thread and leaves t sound.          *)
OthersKeep(t) ==
    /\ pc' = [pc EXCEPT ![t] = pc'[t]]
    /\ target' = [target EXCEPT ![t] = target'[t]]
    /\ queue' = [queue EXCEPT ![t] = queue'[t]]
    /\ wire' = [wire EXCEPT ![t] = wire'[t]]
    /\ stray' \subseteq stray \cup {a \in {target[t]} : Unserved(t)}

LEMMA FlushThread ==
    ASSUME DeliveryInv, Next, NEW f \in Flusher, FlushStep(f)
    PROVE  OthersKeep(f) /\ ThreadOK(f)'
<1>1. f \in Thread /\ f \notin Submitter /\ f \in Sender /\ f \notin Recoverer
  BY ThreadAssumption DEF Thread, Sender
<1>2. /\ ThreadOK(f)
      /\ pc = [t \in Thread |-> pc[t]] /\ target = [t \in Thread |-> target[t]]
      /\ queue = [t \in Thread |-> queue[t]] /\ wire = [t \in Thread |-> wire[t]]
  BY <1>1, InvParts DEF Parts
<1>3. \A a \in Attempt : Stored(a) => Stored(a)'
  BY StepKeeps
<1>4. CASE StartFlush(f)
  BY <1>1, <1>2, <1>3, <1>4 DEF StartFlush, Goto, OthersKeep, ThreadOK, Location, Report, SendStep, RecoverStep
<1>5. CASE ListOfflineAttempts(f)
  BY <1>1, <1>2, <1>3, <1>5
  DEF ListOfflineAttempts, Goto, OthersKeep, ThreadOK, Location, Report, SendStep, RecoverStep, Stored, storeVars
<1>6. CASE FlushOver(f)
  BY <1>1, <1>2, <1>3, <1>6 DEF FlushOver, Goto, OthersKeep, ThreadOK, Location, Report, SendStep, RecoverStep
<1>7. ASSUME NEW a \in Attempt, FlushNext(f, a) PROVE OthersKeep(f) /\ ThreadOK(f)'
  BY <1>1, <1>2, <1>3, <1>7
  DEF FlushNext, Begin, After, Goto, Fetch, Request, Bare, Message, OthersKeep, ThreadOK, Location, Report, SendStep,
      RecoverStep, Stored
<1> QED
  BY <1>4, <1>5, <1>6, <1>7 DEF FlushStep

LEMMA SubmitThread ==
    ASSUME DeliveryInv, Next, NEW u \in Submitter, SubmitStep(u)
    PROVE  OthersKeep(u) /\ ThreadOK(u)'
<1>1. u \in Thread /\ u \in Sender /\ u \notin Recoverer
  BY ThreadAssumption DEF Thread, Sender
<1>2. /\ ThreadOK(u)
      /\ pc = [t \in Thread |-> pc[t]] /\ target = [t \in Thread |-> target[t]]
      /\ queue = [t \in Thread |-> queue[t]] /\ wire = [t \in Thread |-> wire[t]]
  BY <1>1, InvParts DEF Parts
<1>3. \A a \in Attempt : Stored(a) => Stored(a)'
  BY StepKeeps
<1>4. ASSUME NEW a \in Attempt, AnswerCard(u, a) PROVE OthersKeep(u) /\ ThreadOK(u)'
  BY <1>1, <1>2, <1>3, <1>4
  DEF AnswerCard, Resting, RowsOf, Goto, OthersKeep, ThreadOK, Location, Report, SendStep,
      RecoverStep, Stored
<1>5. CASE CommitPilotOfflineAttempt(u)
  <2>1. target[u] \in Attempt
    BY <1>2, <1>5 DEF CommitPilotOfflineAttempt, ThreadOK
  <2>2. RowsOf(InstanceOf[target[u]]) \subseteq {target[u]} => Stored(target[u])'
    BY <1>5, <2>1 DEF CommitPilotOfflineAttempt, CommitOfflineAttempt, RowsOf, Stored, Pending,
       DeliveryInv, TypeOK, StoreTypeOK
  <2> QED
    BY <1>1, <1>2, <1>3, <1>5, <2>1, <2>2
    DEF CommitPilotOfflineAttempt, Goto, OthersKeep, ThreadOK, Location, Report, SendStep,
        RecoverStep, Stored
<1>6. CASE SendCommitted(u)
  <2>1. /\ target' = [target EXCEPT ![u] = target[u]] /\ UNCHANGED <<queue, stray>>
        /\ target[u] \in Attempt /\ Stored(target[u])
        /\ wire[u].kind = "quiet"
    BY <1>2, <1>6 DEF SendCommitted, Begin, ThreadOK
  <2>2. \/ pc' = [pc EXCEPT ![u] = "marking"] /\ UNCHANGED wire
        \/ pc' = [pc EXCEPT ![u] = "probing"] /\ wire' = [wire EXCEPT ![u] = Request]
        \/ pc' = [pc EXCEPT ![u] = "terminal"] /\ UNCHANGED wire
    BY <1>6 DEF SendCommitted, Begin, After, Goto, Fetch
  <2>3. OthersKeep(u)
    BY <1>1, <1>2, <2>1, <2>2 DEF OthersKeep
  <2> QED
    BY <1>1, <1>2, <1>3, <2>1, <2>2, <2>3
    DEF Request, Bare, Message, ThreadOK, Location, Report, SendStep, RecoverStep, Stored
<1> QED
  BY <1>4, <1>5, <1>6 DEF SubmitStep

(* Where a send goes when it is over.                                      *)
LEMMA SendOver ==
    ASSUME DeliveryInv, Next, NEW t \in Sender, pc[t] \in SendStep,
           NEW report \in Report,
           pc' = [pc EXCEPT ![t] = After(t, report)],
           UNCHANGED <<target, queue, stray>>,
           wire' = [wire EXCEPT ![t] = Quiet],
           report = "accepted" => outbox'[target[t]].status \in AcceptedStatus
    PROVE  OthersKeep(t) /\ ThreadOK(t)'
<1>1. t \in Thread /\ t \notin Recoverer
  BY ThreadAssumption DEF Thread, Sender
<1>2. /\ ThreadOK(t)
      /\ pc = [u \in Thread |-> pc[u]] /\ target = [u \in Thread |-> target[u]]
      /\ queue = [u \in Thread |-> queue[u]] /\ wire = [u \in Thread |-> wire[u]]
  BY <1>1, InvParts DEF Parts
<1>3. \A a \in Attempt : Stored(a) => Stored(a)'
  BY StepKeeps
<1>4. wire'[t].kind = "quiet" /\ wire'[t] \in Message
  BY <1>1, <1>2 DEF Quiet, Bare, Message
<1>5. pc'[t] = After(t, report) /\ target'[t] = target[t] /\ queue'[t] = queue[t]
  BY <1>1, <1>2
<1>6. OthersKeep(t)
  BY <1>1, <1>2, <1>4, <1>5 DEF OthersKeep
<1>7. After(t, report) \in Report \cup {"looping"}
      /\ (After(t, report) \in Report \ {"threw"} => t \in Submitter /\ After(t, report) = report)
  BY DEF After, Report
<1>8. target[t] \in Attempt /\ Stored(target[t])
  BY <1>2 DEF ThreadOK
<1> QED
  BY <1>1, <1>2, <1>3, <1>4, <1>5, <1>6, <1>7, <1>8
  DEF ThreadOK, Location, Report, SendStep, RecoverStep, Stored

(* A thread that goes on with another fetch.                               *)
LEMMA FetchNext ==
    ASSUME DeliveryInv, Next, NEW t \in Thread, NEW place \in SendStep \cup RecoverStep,
           place # "validating",
           place \in SendStep => t \in Sender, place \in RecoverStep => t \in Recoverer,
           place # "marking" => wire' = [wire EXCEPT ![t] = Request],
           place = "marking" => wire' = [wire EXCEPT ![t] = Quiet],
           target[t] \in Attempt, Stored(target[t]),
           pc' = [pc EXCEPT ![t] = place], UNCHANGED <<target, queue, stray>>
    PROVE  OthersKeep(t) /\ ThreadOK(t)'
<1>1. /\ ThreadOK(t)
      /\ pc = [u \in Thread |-> pc[u]] /\ target = [u \in Thread |-> target[u]]
      /\ queue = [u \in Thread |-> queue[u]] /\ wire = [u \in Thread |-> wire[u]]
  BY InvParts DEF Parts
<1>2. \A a \in Attempt : Stored(a) => Stored(a)'
  BY StepKeeps
<1>3. OthersKeep(t)
  BY <1>1 DEF OthersKeep
<1>4. /\ pc'[t] = place /\ target'[t] = target[t] /\ queue'[t] = queue[t]
      /\ wire'[t] \in {Quiet, Request}
      /\ wire'[t] = Quiet \/ place # "marking"
  BY <1>1
<1> QED
  BY <1>1, <1>2, <1>3, <1>4
  DEF ThreadOK, Quiet, Request, Bare, Message, Location, Report, SendStep, RecoverStep, Stored

LEMMA SenderThread ==
    ASSUME DeliveryInv, Next, NEW t \in Sender, SenderStep(t)
    PROVE  OthersKeep(t) /\ ThreadOK(t)'
<1>1. t \in Thread /\ t \notin Recoverer
  BY ThreadAssumption DEF Thread, Sender
<1>2. pc[t] \in SendStep /\ target[t] \in Attempt /\ Stored(target[t]) /\ outbox[target[t]] \in Row
  BY <1>1, InvParts DEF Parts, SenderStep, ProbeAnswered, MarkAndPost, PostAnswered, LookupAnswered,
     SendStep, ThreadOK, StoreInv, StoreTypeOK
<1>3. \A v : ApplyOfflineDelivery(target[t], v) => outbox'[target[t]] = Delivered(target[t], v)
  BY <1>2 DEF ApplyOfflineDelivery, DeliveryInv, TypeOK, StoreTypeOK
<1>4. CASE ProbeAnswered(t)
  <2> DEFINE v == ProbeAuthentication(wire[t], target[t])
  <2>1. CASE pc' = [pc EXCEPT ![t] = After(t, "auth-required")]
    BY <1>1, <1>2, <1>4, <2>1, SendOver DEF ProbeAnswered, Settle, Report
  <2>2. CASE ApplyOfflineDelivery(target[t], v) /\ v.kind \in {"accepted", "blocked"}
    <3> DEFINE row == Delivered(target[t], v)
               report == IF ApplyThrows(target[t], v) THEN "threw"
                         ELSE IF row.status \in AcceptedStatus THEN "accepted"
                         ELSE IF row.status = "blocked" THEN "blocked"
                         ELSE "auth-required"
    <3>1. pc' = [pc EXCEPT ![t] = After(t, report)]
      BY <1>4, <2>2 DEF ProbeAnswered, Goto
    <3>2. report \in Report /\ (report = "accepted" => row.status \in AcceptedStatus)
      BY DEF Report
    <3>3. outbox'[target[t]] = row
      BY <1>3, <2>2
    <3>4. wire' = [wire EXCEPT ![t] = Quiet] /\ UNCHANGED <<target, queue, stray>>
      BY <1>4 DEF ProbeAnswered, Settle
    <3> HIDE DEF report, row
    <3> QED
      BY <1>1, <1>2, <3>1, <3>2, <3>3, <3>4, SendOver
  <2>3. CASE v.kind = "reauthenticated"
    <3>1. wire' = [wire EXCEPT ![t] = Quiet] /\ UNCHANGED <<target, queue, stray>>
      BY <1>4 DEF ProbeAnswered, Settle
    <3>2. CASE pc' = [pc EXCEPT ![t] = "marking"]
      BY <1>1, <1>2, <3>1, <3>2, FetchNext DEF SendStep, RecoverStep
    <3>3. CASE pc' = [pc EXCEPT ![t] = After(t, "terminal")]
      BY <1>1, <1>2, <3>1, <3>3, SendOver DEF Report
    <3> QED
      BY <1>4, <2>3, <3>2, <3>3 DEF ProbeAnswered, Goto
  <2> QED
    BY <1>4, <2>1, <2>2, <2>3 DEF ProbeAnswered, Goto
<1>5. CASE MarkAndPost(t)
  <2>1. CASE MarkedSending(target[t]).status = "sending"
    BY <1>1, <1>2, <1>5, <2>1, FetchNext DEF MarkAndPost, Goto, Fetch, SendStep, RecoverStep
  <2>2. CASE MarkedSending(target[t]).status # "sending"
    <3>1. wire' = [wire EXCEPT ![t] = Quiet]
      <4>1. wire[t].kind = "quiet" /\ wire[t] \in Message
        BY <1>1, <1>5, InvParts DEF Parts, MarkAndPost, ThreadOK
      <4>2. wire[t] = Quiet
        BY <4>1 DEF Message, Reply, ReplyKind, Quiet, Request, Bare
      <4>3. wire = [u \in Thread |-> wire[u]] /\ wire' = wire
        BY <1>1, <1>5, <2>2, InvParts DEF Parts, MarkAndPost
      <4> QED
        BY <1>1, <4>2, <4>3
    <3>2. \E report \in {"terminal", "pending"} : pc' = [pc EXCEPT ![t] = After(t, report)]
      BY <1>5, <2>2 DEF MarkAndPost, Goto
    <3> QED
      BY <1>1, <1>2, <1>5, <2>2, <3>1, <3>2, SendOver DEF MarkAndPost, Report
  <2> QED
    BY <2>1, <2>2
<1>6. ASSUME NEW v, Deliver(t, v),
             v.kind \in {"retryable", "auth-required", "accepted", "blocked"}
      PROVE  OthersKeep(t) /\ ThreadOK(t)'
  <2> DEFINE report == IF ApplyThrows(target[t], v) THEN "threw"
                       ELSE SendResult(Delivered(target[t], v), v)
  <2>1. pc' = [pc EXCEPT ![t] = After(t, report)]
    BY <1>6 DEF Deliver, Goto
  <2>2. /\ report \in Report
        /\ report = "accepted" => Delivered(target[t], v).status \in AcceptedStatus
    BY <1>6 DEF SendResult, Report
  <2>3. outbox'[target[t]] = Delivered(target[t], v)
    BY <1>3, <1>6 DEF Deliver
  <2>4. wire' = [wire EXCEPT ![t] = Quiet] /\ UNCHANGED <<target, queue, stray>>
    BY <1>6 DEF Deliver, Settle
  <2> HIDE DEF report
  <2> QED
    BY <1>1, <1>2, <2>1, <2>2, <2>3, <2>4, SendOver
<1>7. CASE PostAnswered(t)
  <2> DEFINE v == ClassifyOfflineServerOutcome(wire[t], target[t])
  <2>1. CASE v.kind = "receipt-lookup-required"
    BY <1>1, <1>2, <1>7, <2>1, FetchNext DEF PostAnswered, Goto, Fetch, SendStep, RecoverStep
  <2>2. CASE v.kind # "receipt-lookup-required"
    <3>1. v \in Deliverable
      BY <1>1, <1>2, <1>7, <2>2, AnswerInHand, ClassifiersWarranted DEF PostAnswered, Answered
    <3>2. Deliver(t, v)
      BY <1>7, <2>2 DEF PostAnswered
    <3> HIDE DEF v
    <3> QED
      BY <1>6, <3>1, <3>2 DEF Deliverable
  <2> QED
    BY <2>1, <2>2
<1>8. CASE LookupAnswered(t)
  <2> DEFINE v == LookupStoredReceipt(wire[t], target[t])
  <2>1. v \in Deliverable
    BY <1>1, <1>2, <1>8, AnswerInHand, ClassifiersWarranted DEF LookupAnswered, Answered
  <2>2. Deliver(t, v)
    BY <1>8 DEF LookupAnswered
  <2> HIDE DEF v
  <2> QED
    BY <1>6, <2>1, <2>2 DEF Deliverable
<1> QED
  BY <1>4, <1>5, <1>7, <1>8 DEF SenderStep

LEMMA RecovererThread ==
    ASSUME DeliveryInv, Next, NEW m \in Recoverer, RecovererStep(m)
    PROVE  OthersKeep(m) /\ ThreadOK(m)'
<1>1. m \in Thread /\ m \notin Sender /\ m \notin Submitter
  BY ThreadAssumption DEF Thread, Sender
<1>2. /\ ThreadOK(m)
      /\ pc = [t \in Thread |-> pc[t]] /\ target = [t \in Thread |-> target[t]]
      /\ queue = [t \in Thread |-> queue[t]] /\ wire = [t \in Thread |-> wire[t]]
  BY <1>1, InvParts DEF Parts
<1>3. \A a \in Attempt : Stored(a) => Stored(a)'
  BY StepKeeps
<1>4. ASSUME NEW a \in Attempt, StartRecovery(m, a) PROVE OthersKeep(m) /\ ThreadOK(m)'
  BY <1>1, <1>2, <1>3, <1>4
  DEF StartRecovery, Goto, OthersKeep, ThreadOK, Location, Report, SendStep, RecoverStep, Stored
<1>5. ASSUME pc' = [pc EXCEPT ![m] = "idle"], target' = [target EXCEPT ![m] = None],
             UNCHANGED <<queue, stray>>, wire' = [wire EXCEPT ![m] = Quiet]
      PROVE  OthersKeep(m) /\ ThreadOK(m)'
  <2>1. OthersKeep(m)
    BY <1>1, <1>2, <1>5 DEF OthersKeep
  <2>2. /\ pc'[m] = "idle" /\ target'[m] = None /\ queue'[m] = queue[m]
        /\ wire'[m].kind = "quiet" /\ wire'[m] \in Message
    BY <1>1, <1>2, <1>5 DEF Quiet, Bare, Message, ThreadOK
  <2> QED
    BY <1>1, <1>2, <1>3, <2>1, <2>2 DEF ThreadOK, Location, Report, SendStep, RecoverStep
<1>6. CASE RecoveryValidated(m)
  <2>1. target[m] \in Attempt /\ Stored(target[m]) /\ wire[m].kind = "quiet"
    BY <1>2, <1>6 DEF RecoveryValidated, ThreadOK, RecoverStep
  <2>2. CASE pc' = [pc EXCEPT ![m] = "reposted"] /\ wire' = [wire EXCEPT ![m] = Request]
             /\ UNCHANGED target
    BY <1>1, <1>6, <2>1, <2>2, FetchNext DEF RecoveryValidated, SendStep, RecoverStep
  <2>3. CASE EndRecovery(m) /\ UNCHANGED wire
    <3>1. wire[m] = Quiet
      BY <1>2, <2>1 DEF ThreadOK, Message, Reply, ReplyKind, Quiet, Request, Bare
    <3>2. wire' = [wire EXCEPT ![m] = Quiet]
      BY <1>1, <1>2, <2>3, <3>1
    <3> QED
      BY <1>5, <1>6, <2>3, <3>2 DEF RecoveryValidated, EndRecovery, Goto
  <2> QED
    BY <1>6, <2>2, <2>3 DEF RecoveryValidated, Goto, Fetch
<1>7. CASE RecoveryAnswered(m)
  <2>1. target[m] \in Attempt /\ Stored(target[m])
    BY <1>2, <1>7 DEF RecoveryAnswered, ThreadOK, RecoverStep
  <2>2. \/ /\ pc' = [pc EXCEPT ![m] = "relookup"] /\ wire' = [wire EXCEPT ![m] = Request]
           /\ UNCHANGED <<target, queue, stray>>
        \/ /\ pc' = [pc EXCEPT ![m] = "idle"] /\ target' = [target EXCEPT ![m] = None]
           /\ wire' = [wire EXCEPT ![m] = Quiet] /\ UNCHANGED <<queue, stray>>
    BY <1>7 DEF RecoveryAnswered, Goto, Fetch, Reconcile, EndRecovery, Settle
  <2> QED
    BY <1>1, <1>5, <2>1, <2>2, FetchNext DEF SendStep, RecoverStep
<1>8. CASE RecoveryLookedUp(m)
  BY <1>5, <1>8 DEF RecoveryLookedUp, Reconcile, EndRecovery, Settle, Goto
<1> QED
  BY <1>4, <1>6, <1>7, <1>8 DEF RecovererStep

(* The server's and the network's part in a thread.                        *)
EnvironmentStep(t) == AttemptRoute(t) \/ ReceiptRoute(t) \/ NetworkFails(t) \/ Reload(t)

LEMMA EnvironmentThread ==
    ASSUME DeliveryInv, Next, NEW t \in Thread, EnvironmentStep(t)
    PROVE  OthersKeep(t) /\ ThreadOK(t)'
<1>1. /\ ThreadOK(t)
      /\ pc = [u \in Thread |-> pc[u]] /\ target = [u \in Thread |-> target[u]]
      /\ queue = [u \in Thread |-> queue[u]] /\ wire = [u \in Thread |-> wire[u]]
  BY InvParts DEF Parts
<1>2. /\ \A a \in Attempt : Stored(a) => Stored(a)'
      /\ \A a \in Attempt : outbox[a].status \in AcceptedStatus => outbox'[a] = outbox[a]
      /\ server' \in [Instance -> Receipt \cup {NoReceipt}]
  BY StepKeeps
(* A reply put on the wire of a thread that awaits one.                    *)
<1>3. ASSUME NEW reply \in Reply, wire' = [wire EXCEPT ![t] = reply],
             reply.kind = "receipt" => /\ reply.receipt \in Receipt
                                       /\ reply.receipt = server'[InstanceOf[target[t]]],
             wire[t].kind # "quiet", UNCHANGED <<pc, target, queue>>,
             stray' \subseteq stray \cup {a \in {target[t]} : Unserved(t)}
      PROVE  OthersKeep(t) /\ ThreadOK(t)'
  <2>1. OthersKeep(t) /\ wire'[t] = reply
    BY <1>1, <1>3 DEF OthersKeep
  <2>2. /\ pc[t] \in {"probing", "posted", "lookup", "reposted", "relookup"}
        /\ pc'[t] = pc[t] /\ target'[t] = target[t] /\ queue'[t] = queue[t]
    BY <1>1, <1>3 DEF ThreadOK
  <2> QED
    BY <1>1, <1>2, <1>3, <2>1, <2>2 DEF ThreadOK, Message, Stored, SendStep, RecoverStep
<1>4. \A k \in {"unauthorized", "transient", "rejected", "missing", "garbled", "network", "already"} :
        Bare(k) \in Reply /\ Bare(k).kind = k
  BY DEF Bare, Reply, ReplyKind
<1>5. CASE AttemptRoute(t)
  <2>1. target[t] \in Attempt /\ wire[t].kind # "quiet" /\ InstanceOf[target[t]] \in Instance
    BY <1>1, <1>5, AttemptAssumption
    DEF AttemptRoute, Unserved, Posting, ThreadOK, SendStep, RecoverStep, AnyAttempt
  <2>2. CASE \E k \in {"unauthorized", "transient", "rejected", "garbled"} :
                wire' = [wire EXCEPT ![t] = Bare(k)]
    BY <1>3, <1>4, <1>5, <2>1, <2>2 DEF AttemptRoute
  <2>3. ASSUME NEW applied \in BOOLEAN, server' = Recorded(target[t], applied),
               wire' = [wire EXCEPT ![t] =
                          ReceiptOrAlready(target[t], server'[InstanceOf[target[t]]])]
        PROVE  OthersKeep(t) /\ ThreadOK(t)'
    <3> DEFINE r == server'[InstanceOf[target[t]]]
    <3>1. r \in Receipt \cup {NoReceipt}
      BY <1>2, <2>1
    <3>2. CASE r.attempt = target[t]
      <4>1. r \in Receipt
        BY <2>1, <3>1, <3>2, AttemptAssumption DEF NoReceipt, AnyAttempt
      <4>2. /\ ReceiptOrAlready(target[t], r) = [kind |-> "receipt", receipt |-> r]
            /\ [kind |-> "receipt", receipt |-> r] \in Reply
        BY <3>2, <4>1 DEF ReceiptOrAlready, Reply, ReplyKind
      <4> QED
        BY <1>3, <1>5, <2>1, <2>3, <4>1, <4>2 DEF AttemptRoute
    <3>3. CASE r.attempt # target[t]
      BY <1>3, <1>4, <1>5, <2>1, <2>3, <3>3 DEF AttemptRoute, ReceiptOrAlready
    <3> QED
      BY <3>2, <3>3
  <2> QED
    BY <1>5, <2>2, <2>3 DEF AttemptRoute
<1>6. CASE ReceiptRoute(t)
  <2> DEFINE r == server[InstanceOf[target[t]]]
  <2>1. target[t] \in Attempt /\ wire[t].kind # "quiet" /\ InstanceOf[target[t]] \in Instance
    BY <1>1, <1>6, AttemptAssumption DEF ReceiptRoute, ThreadOK, SendStep, RecoverStep, AnyAttempt
  <2>2. CASE \E k \in {"unauthorized", "transient", "rejected", "missing", "garbled"} :
                wire' = [wire EXCEPT ![t] = Bare(k)]
    BY <1>3, <1>4, <1>6, <2>1, <2>2 DEF ReceiptRoute
  <2>3. CASE r # NoReceipt /\ wire' = [wire EXCEPT ![t] = [kind |-> "receipt", receipt |-> r]]
    <3>1. r \in Receipt /\ server' = server
      BY <1>6, <2>1, <2>3 DEF ReceiptRoute, DeliveryInv, TypeOK
    <3>2. [kind |-> "receipt", receipt |-> r] \in Reply
      BY <3>1 DEF Reply, ReplyKind
    <3> QED
      BY <1>3, <1>6, <2>1, <2>3, <3>1, <3>2 DEF ReceiptRoute
  <2> QED
    BY <1>6, <2>2, <2>3 DEF ReceiptRoute
<1>7. CASE NetworkFails(t)
  BY <1>3, <1>4, <1>7 DEF NetworkFails
<1>8. CASE Reload(t)
  <2>1. OthersKeep(t)
    BY <1>1, <1>8 DEF Reload, OthersKeep, Goto, Settle
  <2>2. pc'[t] = "idle" /\ target'[t] = None /\ queue'[t] = {} /\ wire'[t] = Quiet
    BY <1>1, <1>8 DEF Reload, Goto, Settle
  <2> QED
    BY <2>1, <2>2 DEF ThreadOK, Quiet, Bare, Message, Location, Report, SendStep, RecoverStep
<1> QED
  BY <1>5, <1>6, <1>7, <1>8 DEF EnvironmentStep

(* Every thread is sound after every step, and every abandoned POST is of  *)
(* a stored row.                                                           *)
LEMMA AllThreads ==
    ASSUME DeliveryInv, Next
    PROVE  /\ pc' = [t \in Thread |-> pc'[t]] /\ target' = [t \in Thread |-> target'[t]]
           /\ queue' = [t \in Thread |-> queue'[t]] /\ wire' = [t \in Thread |-> wire'[t]]
           /\ \A t \in Thread : ThreadOK(t)'
           /\ StrayOK'
<1>1. /\ pc = [u \in Thread |-> pc[u]] /\ target = [u \in Thread |-> target[u]]
      /\ queue = [u \in Thread |-> queue[u]] /\ wire = [u \in Thread |-> wire[u]]
      /\ StrayOK
      /\ \A t \in Thread : ThreadOK(t)
  BY InvParts DEF Parts
<1>2. \A a \in Attempt : Stored(a) => Stored(a)'
  BY StepKeeps
<1>3. ASSUME NEW t \in Thread, OthersKeep(t), ThreadOK(t)'
      PROVE  /\ pc' = [u \in Thread |-> pc'[u]] /\ target' = [u \in Thread |-> target'[u]]
             /\ queue' = [u \in Thread |-> queue'[u]] /\ wire' = [u \in Thread |-> wire'[u]]
             /\ \A u \in Thread : ThreadOK(u)'
             /\ StrayOK'
  <2>1. ASSUME NEW u \in Thread \ {t} PROVE ThreadOK(u)'
    <3>1. pc'[u] = pc[u] /\ target'[u] = target[u] /\ queue'[u] = queue[u] /\ wire'[u] = wire[u]
      BY <1>1, <1>3 DEF OthersKeep
    <3> QED
      BY <3>1, Bystander
  <2>2. Unserved(t) => target[t] \in Attempt /\ Stored(target[t])
    BY <1>1 DEF Unserved, Posting, ThreadOK, SendStep, RecoverStep
  <2>3. StrayOK'
    BY <1>1, <1>2, <1>3, <2>2 DEF OthersKeep, StrayOK
  <2> QED
    BY <1>1, <1>3, <2>1, <2>3 DEF OthersKeep
<1>4. ASSUME UNCHANGED <<pc, target, queue, wire>>, stray' \subseteq stray
      PROVE  /\ \A u \in Thread : ThreadOK(u)'
             /\ StrayOK'
  BY <1>1, <1>2, <1>4, Bystander DEF StrayOK
<1>5. ASSUME NEW f \in Flusher, FlushStep(f) PROVE OthersKeep(f) /\ ThreadOK(f)' /\ f \in Thread
  BY <1>5, FlushThread DEF Thread, Sender
<1>6. ASSUME NEW u \in Submitter, SubmitStep(u) PROVE OthersKeep(u) /\ ThreadOK(u)' /\ u \in Thread
  BY <1>6, SubmitThread DEF Thread, Sender
<1>7. ASSUME NEW t \in Sender, SenderStep(t) PROVE OthersKeep(t) /\ ThreadOK(t)' /\ t \in Thread
  BY <1>7, SenderThread DEF Thread
<1>8. ASSUME NEW m \in Recoverer, RecovererStep(m)
      PROVE OthersKeep(m) /\ ThreadOK(m)' /\ m \in Thread
  BY <1>8, RecovererThread DEF Thread
<1>9. CASE Environment
  <2>1. \/ \E t \in Thread : EnvironmentStep(t)
        \/ UNCHANGED <<pc, target, queue, wire>> /\ stray' \subseteq stray
    BY <1>9 DEF Environment, EnvironmentStep, StrayArrives, ForeignAnswer
  <2> QED
    BY <1>1, <1>3, <1>4, <2>1, EnvironmentThread
<1> QED
  BY <1>3, <1>5, <1>6, <1>7, <1>8, <1>9 DEF Next

-----------------------------------------------------------------------------
LEMMA DeliveryInvInit == Init => DeliveryInv
<1> SUFFICES ASSUME Init PROVE DeliveryInv
  OBVIOUS
<1>1. StoreInv /\ outbox = [a \in Attempt |-> Absent] /\ server = [i \in Instance |-> NoReceipt]
  BY StoreInvInit DEF Init, StoreInit
<1>2. \A t \in Thread : ThreadOK(t)
  BY DEF Init, ThreadOK, Quiet, Bare, Message, Location, Report, SendStep, RecoverStep
<1>3. StrayOK /\ ServerSound /\ AllBacked
  BY <1>1 DEF Init, StrayOK, ServerSound, AllBacked, Backed, Absent, AcceptedStatus
<1>4. \A i \in Instance : server[i].attempt \notin Attempt
  BY <1>1, AttemptAssumption DEF NoReceipt, AnyAttempt
<1> QED
  BY <1>1, <1>2, <1>3, <1>4, InvParts DEF Parts, Init

LEMMA DeliveryInvStep == DeliveryInv /\ [Next]_vars => DeliveryInv'
<1>1. ASSUME DeliveryInv, Next PROVE DeliveryInv'
  <2>1. StoreInv'
    BY <1>1, StepKeeps, StoreInvStep, InvParts DEF Parts
  <2>2. AllBacked'
    <3> SUFFICES ASSUME NEW a \in Attempt PROVE Backed(outbox[a], a)'
      BY DEF AllBacked
    <3>1. InstanceOf[a] \in Instance
      BY AttemptAssumption DEF AnyAttempt
    <3>2. Backed(outbox'[a], a) /\ ServerKeeps
      BY <1>1, StepKeeps DEF StayBacked
    <3>3. outbox'[a].status \in AcceptedStatus => outbox'[a].receipt # NoReceipt
      BY <2>1 DEF StoreInv, StoresAgree
    <3>4. server[InstanceOf[a]].attempt \in AnyAttempt => server[InstanceOf[a]] # NoReceipt
      BY AttemptAssumption DEF NoReceipt
    <3> QED
      BY <3>1, <3>2, <3>3, <3>4 DEF Backed, ServerKeeps
  <2>3. \A i \in Instance : server'[i].attempt \in Attempt => Stored(server[i].attempt)'
    BY <1>1, StepKeeps DEF Stored
  <2>4. Parts'
    BY <1>1, <2>1, <2>2, <2>3, AllThreads, StepKeeps DEF Parts
  <2> QED
    BY <2>4, InvParts, PTL
<1>2. ASSUME DeliveryInv, UNCHANGED vars PROVE DeliveryInv'
  BY <1>2 DEF vars, DeliveryInv, TypeOK, StoreTypeOK, StoresAgree, OneRowPerInstance,
     ThreadsSound, WireHonest, ServerSound, AcceptedIsAuthoritative, BeatenIsFinal,
     SentIsDurable, ReportedIsDurable, Posting, Stored
<1> QED
  BY <1>1, <1>2

(* The invariant of the delivery holds in every reachable state.           *)
THEOREM DeliveryInvariant == Spec => []DeliveryInv
BY DeliveryInvInit, DeliveryInvStep, PTL DEF Spec

(* Type correctness.                                                       *)
THEOREM DeliveryTypeCorrect == Spec => []TypeOK
BY DeliveryInvariant, PTL DEF DeliveryInv

(* An answer the browser calls accepted is the one the server stored, with *)
(* the same effect on the schedule.                                        *)
THEOREM AcceptanceIsAuthoritative == Spec => []AcceptedIsAuthoritative
BY DeliveryInvariant, PTL DEF DeliveryInv

(* An answer blocked as beaten really lost its instance to another one.    *)
THEOREM BeatenAnswersAreBeaten == Spec => []BeatenIsFinal
BY DeliveryInvariant, PTL DEF DeliveryInv

(* Whatever the server took from this browser has a durable row here.      *)
THEOREM AnswersSurvive == Spec => []SentIsDurable
BY DeliveryInvariant, PTL DEF DeliveryInv

(* The card reports acceptance only on a durably accepted row.             *)
THEOREM ReportsAreDurable == Spec => []ReportedIsDurable
BY DeliveryInvariant, PTL DEF DeliveryInv

(* The transport only ever touches the stores through their operations.    *)
THEOREM TransportUsesStore == Spec => StoreSpec
<1>1. Init => StoreInit
  BY DEF Init
<1>2. DeliveryInv /\ [Next]_vars => [StoreNext]_storeVars
  BY StepKeeps DEF vars, storeVars
<1> QED
  BY <1>1, <1>2, DeliveryInvariant, PTL DEF Spec, StoreSpec

(* No step of any page rewinds a terminal row.                             *)
THEOREM DeliveryNeverRewinds == Spec => TerminalNeverRewound
BY TransportUsesStore, StoreNeverRewinds, PTL

-----------------------------------------------------------------------------
(* Blocked rows: which steps move one, and which move any other row.       *)

(* The last step of the recovery of answer a by m.                         *)
LastRecoveryStep(m, a) ==
    /\ target[m] = a
    /\ pc[m] \in {"reposted", "relookup"}
    /\ pc'[m] = "idle"

(* The operations the automatic steps make leave every blocked row alone.  *)
LEMMA AutomaticKeepsBlocked ==
    ASSUME StoreTypeOK, NEW a \in Attempt, outbox[a].status = "blocked",
           \/ UNCHANGED outbox
           \/ RecoverSendingOfflineAttempts
           \/ \E b : \/ CommitOfflineAttempt(b)
                    \/ MarkOfflineAttemptSending(b)
                    \/ MarkOfflineAttemptReauthenticated(b)
                    \/ \E v : ApplyOfflineDelivery(b, v)
    PROVE  outbox'[a] = outbox[a]
<1>1. CASE RecoverSendingOfflineAttempts
  BY <1>1 DEF RecoverSendingOfflineAttempts
<1>2. ASSUME NEW b, CommitOfflineAttempt(b) PROVE outbox'[a] = outbox[a]
  <2>1. CASE a = b
    <3>1. RowsOf(InstanceOf[b]) # {}
      BY <2>1 DEF RowsOf, Stored
    <3> QED
      BY <1>2, <3>1 DEF CommitOfflineAttempt
  <2> QED
    BY <1>2, <2>1 DEF CommitOfflineAttempt, StoreTypeOK
<1>3. ASSUME NEW b, MarkOfflineAttemptSending(b) PROVE outbox'[a] = outbox[a]
  BY <1>3 DEF MarkOfflineAttemptSending, MarkedSending, StoreTypeOK
<1>4. ASSUME NEW b, MarkOfflineAttemptReauthenticated(b) PROVE outbox'[a] = outbox[a]
  BY <1>4 DEF MarkOfflineAttemptReauthenticated, Reauthenticated, StoreTypeOK
<1>5. ASSUME NEW b, NEW v, ApplyOfflineDelivery(b, v) PROVE outbox'[a] = outbox[a]
  BY <1>5 DEF ApplyOfflineDelivery, Delivered, CanConsume, StoreTypeOK
<1> QED
  BY <1>1, <1>2, <1>3, <1>4, <1>5

(* A step of a sender, and of the server and the network, is automatic.    *)
LEMMA AutomaticSteps ==
    ASSUME \/ \E f \in Flusher : FlushStep(f)
           \/ \E u \in Submitter : SubmitStep(u)
           \/ \E t \in Sender : SenderStep(t)
           \/ Environment
    PROVE  \/ UNCHANGED outbox
           \/ RecoverSendingOfflineAttempts
           \/ \E b : \/ CommitOfflineAttempt(b)
                    \/ MarkOfflineAttemptSending(b)
                    \/ MarkOfflineAttemptReauthenticated(b)
                    \/ \E v : ApplyOfflineDelivery(b, v)
<1>1. ASSUME NEW f \in Flusher, FlushStep(f)
      PROVE  UNCHANGED outbox \/ RecoverSendingOfflineAttempts
  BY <1>1 DEF FlushStep, StartFlush, ListOfflineAttempts, FlushOver, FlushNext, Begin, storeVars
<1>2. ASSUME NEW u \in Submitter, SubmitStep(u)
      PROVE  UNCHANGED outbox \/ CommitOfflineAttempt(target[u])
  BY <1>2 DEF SubmitStep, AnswerCard, CommitPilotOfflineAttempt, SendCommitted, Begin, storeVars
<1>3. ASSUME NEW t \in Sender, SenderStep(t)
      PROVE  \/ UNCHANGED outbox
             \/ MarkOfflineAttemptSending(target[t])
             \/ MarkOfflineAttemptReauthenticated(target[t])
             \/ \E v : ApplyOfflineDelivery(target[t], v)
  <2>1. CASE ProbeAnswered(t)
    BY <2>1 DEF ProbeAnswered, storeVars
  <2>2. CASE MarkAndPost(t)
    BY <2>2 DEF MarkAndPost
  <2>3. CASE PostAnswered(t)
    BY <2>3 DEF PostAnswered, Deliver, storeVars
  <2>4. CASE LookupAnswered(t)
    BY <2>4 DEF LookupAnswered, Deliver
  <2> QED
    BY <1>3, <2>1, <2>2, <2>3, <2>4 DEF SenderStep
<1>4. CASE Environment
  BY <1>4 DEF Environment, AttemptRoute, ReceiptRoute, NetworkFails, Reload, StrayArrives,
              ForeignAnswer, storeVars
<1> QED
  BY <1>1, <1>2, <1>3, <1>4

(* A step that moves a row ends no recovery, unless it is that recovery's. *)
LEMMA MovedByOthers ==
    ASSUME DeliveryInv, Next, outbox' # outbox, NEW m \in Recoverer, pc[m] # "idle",
           \/ \E f \in Flusher : FlushStep(f)
           \/ \E u \in Submitter : SubmitStep(u)
           \/ \E t \in Sender : SenderStep(t)
           \/ Environment
    PROVE  pc'[m] # "idle"
<1>1. m \in Thread /\ m \notin Sender
  BY ThreadAssumption DEF Thread
<1>2. pc = [t \in Thread |-> pc[t]]
  BY DEF DeliveryInv, TypeOK
<1>3. ASSUME NEW t \in Sender, OthersKeep(t) PROVE pc'[m] = pc[m]
  BY <1>1, <1>2, <1>3 DEF OthersKeep
<1>4. ASSUME Environment PROVE FALSE
  BY <1>4 DEF Environment, AttemptRoute, ReceiptRoute, NetworkFails, Reload, StrayArrives,
              ForeignAnswer, storeVars
<1>5. ASSUME NEW f \in Flusher, FlushStep(f) PROVE pc'[m] = pc[m]
  BY <1>3, <1>5, FlushThread DEF Sender
<1>6. ASSUME NEW u \in Submitter, SubmitStep(u) PROVE pc'[m] = pc[m]
  BY <1>3, <1>6, SubmitThread DEF Sender
<1>7. ASSUME NEW t \in Sender, SenderStep(t) PROVE pc'[m] = pc[m]
  BY <1>3, <1>7, SenderThread
<1> QED
  BY <1>4, <1>5, <1>6, <1>7

(* A step of a manual recovery moves at most its own blocked row, and then *)
(* it is the last one.                                                     *)
LEMMA RecoveryMoves ==
    ASSUME DeliveryInv, NEW m \in Recoverer, RecovererStep(m),
           NEW a \in Attempt, outbox'[a] # outbox[a]
    PROVE  outbox[a].status = "blocked" /\ LastRecoveryStep(m, a)
<1>1. m \in Thread /\ pc = [t \in Thread |-> pc[t]] /\ outbox = [b \in Attempt |-> outbox[b]]
  BY DEF Thread, DeliveryInv, TypeOK, StoreTypeOK
<1>2. ASSUME NEW v, Reconcile(m, v)
      PROVE  outbox[a].status = "blocked" /\ target[m] = a /\ pc'[m] = "idle"
  BY <1>1, <1>2 DEF Reconcile, ReconcileBlockedAttempt, Reconciles, EndRecovery, Goto, storeVars
<1>3. CASE RecoveryAnswered(m)
  <2>1. pc[m] = "reposted" /\ \E v : Reconcile(m, v)
    BY <1>3 DEF RecoveryAnswered, storeVars
  <2> QED
    BY <1>2, <2>1 DEF LastRecoveryStep
<1>4. CASE RecoveryLookedUp(m)
  BY <1>2, <1>4 DEF RecoveryLookedUp, LastRecoveryStep
<1>5. CASE \E b \in Attempt : StartRecovery(m, b)
  BY <1>5 DEF StartRecovery, storeVars
<1>6. CASE RecoveryValidated(m)
  BY <1>6 DEF RecoveryValidated, storeVars
<1> QED
  BY <1>3, <1>4, <1>5, <1>6 DEF RecovererStep

(* Only the last step of a manual recovery moves a blocked row, and it     *)
(* moves no other row, however long ago the row was read as blocked and    *)
(* whatever other pages did since (pilot-transport.ts 296-302,             *)
(* attempt-outbox.ts 526-532).                                             *)
THEOREM OnlyRecoveriesUnblock == Spec => OnlyRecoveryUnblocks
<1> DEFINE Step == \A a \in Attempt :
                     outbox'[a] # outbox[a] =>
                        (outbox[a].status = "blocked" <=>
                            \E m \in Recoverer : LastRecoveryStep(m, a))
<1>1. ASSUME DeliveryInv, Next PROVE Step
  <2> SUFFICES ASSUME NEW a \in Attempt, outbox'[a] # outbox[a]
               PROVE  outbox[a].status = "blocked" <=>
                            \E m \in Recoverer : LastRecoveryStep(m, a)
    OBVIOUS
  <2>1. CASE \E m \in Recoverer : RecovererStep(m)
    BY <1>1, <2>1, RecoveryMoves
  <2>2. CASE \/ \E f \in Flusher : FlushStep(f)
             \/ \E u \in Submitter : SubmitStep(u)
             \/ \E t \in Sender : SenderStep(t)
             \/ Environment
    <3>1. outbox[a].status # "blocked"
      BY <1>1, <2>2, AutomaticSteps, AutomaticKeepsBlocked DEF DeliveryInv, TypeOK
    <3>2. ASSUME NEW m \in Recoverer, LastRecoveryStep(m, a) PROVE FALSE
      BY <1>1, <2>2, <3>2, MovedByOthers DEF LastRecoveryStep
    <3> QED
      BY <3>1, <3>2
  <2> QED
    BY <1>1, <2>1, <2>2 DEF Next
<1>2. UNCHANGED vars => Step
  BY DEF vars
<1>3. DeliveryInv /\ [Next]_vars => [Step]_vars
  BY <1>1
<1> QED
  BY <1>3, DeliveryInvariant, PTL DEF Spec, OnlyRecoveryUnblocks, LastRecoveryStep

-----------------------------------------------------------------------------
(* The delivery implements AnswerLedger: a step of the transport is one    *)
(* storage operation, one record of the server, or neither, and each moves *)
(* the standing of at most one answer, the way the ledger allows.          *)

StandingOfAll == [a \in Attempt |-> StandingOf(outbox[a].status)]

(* How a step of the stores moves the standing of answer a, when it does.  *)
Held(a)     == Stored(a)' /\ RowsOf(InstanceOf[a]) = {} /\ outbox'[a].status = "pending"
Blocks(a)   == outbox[a].status \in {"sending", "auth-required"} /\ outbox'[a].status = "blocked"
Accepts(a)  == /\ outbox[a].status \in {"sending", "auth-required", "blocked"}
               /\ outbox'[a].status \in AcceptedStatus
SameStanding(a) == StandingOf(outbox'[a].status) = StandingOf(outbox[a].status)

(* A storage operation moves at most one answer, and moves it so.          *)
LEMMA StoreMovesOne ==
    ASSUME StoreTypeOK, StoreNext
    PROVE  \/ \A b \in Attempt : SameStanding(b)
           \/ \E a \in Attempt :
                 /\ \A b \in Attempt \ {a} : outbox'[b] = outbox[b]
                 /\ Held(a) \/ Blocks(a) \/ Accepts(a)
<1>1. \A b \in Attempt : outbox[b] \in Row
  BY DEF StoreTypeOK
<1>2. CASE RecoverSendingOfflineAttempts
  <2>1. ASSUME NEW b \in Attempt PROVE SameStanding(b)
    <3>1. \/ outbox'[b] = outbox[b]
          \/ outbox[b].status = "sending" /\ outbox'[b] = [outbox[b] EXCEPT !.status = "pending"]
      BY <1>2 DEF RecoverSendingOfflineAttempts
    <3>2. \/ outbox'[b] = outbox[b]
          \/ outbox[b].status = "sending" /\ outbox'[b].status = "pending"
      BY <1>1, <3>1 DEF Row
    <3> QED
      BY <3>2 DEF SameStanding, StandingOf, AcceptedStatus
  <2> QED
    BY <2>1
<1>3. ASSUME NEW a \in Attempt, CommitOfflineAttempt(a)
      PROVE  \/ \A b \in Attempt : SameStanding(b)
             \/ (\A b \in Attempt \ {a} : outbox'[b] = outbox[b]) /\ Held(a)
  BY <1>3 DEF CommitOfflineAttempt, SameStanding, Held, Pending, Stored, StoreTypeOK
<1>4. ASSUME NEW a \in Attempt, MarkOfflineAttemptSending(a) \/ MarkOfflineAttemptReauthenticated(a),
             NEW b \in Attempt
      PROVE  SameStanding(b)
  <2>1. \/ outbox'[b] = outbox[b]
        \/ /\ outbox[b].status \in {"pending", "auth-required"}
           /\ \E s \in {"pending", "sending"} : outbox'[b] = [outbox[b] EXCEPT !.status = s]
    BY <1>4 DEF MarkOfflineAttemptSending, MarkedSending, MarkOfflineAttemptReauthenticated,
                Reauthenticated, TransitionOfflineAttempt, Plain, StoreTypeOK
  <2>2. \/ outbox'[b] = outbox[b]
        \/ /\ outbox[b].status \in {"pending", "auth-required"}
           /\ outbox'[b].status \in {"pending", "sending"}
    BY <1>1, <2>1 DEF Row
  <2> QED
    BY <2>2 DEF SameStanding, StandingOf, AcceptedStatus
<1>5. ASSUME NEW a \in Attempt, NEW v \in Deliverable, ApplyOfflineDelivery(a, v)
      PROVE  \/ \A b \in Attempt : SameStanding(b)
             \/ /\ \A b \in Attempt \ {a} : outbox'[b] = outbox[b]
                /\ Blocks(a) \/ Accepts(a)
  <2>1. \A b \in Attempt \ {a} : outbox'[b] = outbox[b]
    BY <1>5 DEF ApplyOfflineDelivery, StoreTypeOK
  <2>2. CASE outbox'[a] = outbox[a]
    BY <2>1, <2>2 DEF SameStanding
  <2>3. CASE outbox'[a] # outbox[a]
    <3>1. /\ outbox'[a] = TransitionOfflineAttempt(outbox[a], v)
          /\ outbox[a].status \in {"sending", "auth-required"}
      BY <1>5, <2>3 DEF ApplyOfflineDelivery, Delivered, CanConsume, StoreTypeOK
    <3>2. CASE v.kind \in {"retryable", "auth-required"}
      <4>1. \E s \in {"pending", "auth-required"} : outbox'[a] = [outbox[a] EXCEPT !.status = s]
        BY <3>1, <3>2 DEF TransitionOfflineAttempt
      <4>2. outbox'[a].status \in {"pending", "auth-required"}
        BY <1>1, <4>1 DEF Row
      <4>3. SameStanding(a)
        BY <3>1, <4>2 DEF SameStanding, StandingOf, AcceptedStatus
      <4> QED
        BY <2>1, <4>3 DEF SameStanding
    <3>3. CASE v.kind = "blocked"
      <4>1. outbox'[a] = [outbox[a] EXCEPT !.status = "blocked", !.reason = v.reason]
        BY <3>1, <3>3 DEF TransitionOfflineAttempt
      <4> QED
        BY <1>1, <2>1, <3>1, <4>1 DEF Blocks, Row
    <3>4. CASE v.kind = "accepted"
      <4>1. outbox'[a].status \in AcceptedStatus
        BY <3>1, <3>4 DEF TransitionOfflineAttempt, AcceptReceipt, AcceptedStatus
      <4> QED
        BY <2>1, <3>1, <4>1 DEF Accepts
    <3> QED
      BY <3>2, <3>3, <3>4 DEF Deliverable
  <2> QED
    BY <2>2, <2>3
<1>6. ASSUME NEW a \in Attempt, NEW r \in Receipt, ReconcileBlockedAttempt(a, r)
      PROVE  \/ \A b \in Attempt : SameStanding(b)
             \/ (\A b \in Attempt \ {a} : outbox'[b] = outbox[b]) /\ Accepts(a)
  BY <1>6 DEF ReconcileBlockedAttempt, Reconciles, AcceptReceipt, AcceptedStatus, SameStanding,
              Accepts, StoreTypeOK
<1> QED
  BY <1>2, <1>3, <1>4, <1>5, <1>6 DEF StoreNext

-----------------------------------------------------------------------------
LEMMA LedgerInit == Init => Ledger!LedgerInit
BY DEF Init, StoreInit, Ledger!LedgerInit, NoReceipt, Absent, StandingOf, AcceptedStatus

(* A step of the stores is a step of the ledger, or none.                  *)
LEMMA StoreMoveIsLedger ==
    ASSUME DeliveryInv, DeliveryInv', StoreMove
    PROVE  [Ledger!LedgerNext]_(Ledger!ledgerVars)
<1> DEFINE ledger  == [i \in Instance |-> server[i].attempt]
           answer  == StandingOfAll
<1>1. ledger' = ledger
  BY DEF StoreMove
<1>2. CASE \A b \in Attempt : SameStanding(b)
  <2>1. answer' = answer
    BY <1>2 DEF SameStanding, StandingOfAll
  <2> QED
    BY <1>1, <2>1 DEF Ledger!ledgerVars, StandingOfAll
<1>3. ASSUME NEW a \in Attempt, \A b \in Attempt \ {a} : outbox'[b] = outbox[b]
      PROVE  answer' = [answer EXCEPT ![a] = StandingOf(outbox'[a].status)]
  BY <1>3 DEF StandingOfAll
<1>4. ASSUME NEW a \in Attempt, \A b \in Attempt \ {a} : outbox'[b] = outbox[b], Held(a)
      PROVE  Ledger!Hold(a)
  <2>1. answer' = [answer EXCEPT ![a] = "held"]
    BY <1>3, <1>4 DEF Held, StandingOf, AcceptedStatus
  <2>2. \A b \in Attempt : InstanceOf[b] = InstanceOf[a] => answer[b] = "none"
    BY <1>4 DEF Held, RowsOf, Stored, StandingOf, StandingOfAll, AcceptedStatus
  <2> QED
    BY <1>1, <2>1, <2>2 DEF Ledger!Hold, StandingOfAll
<1>5. ASSUME NEW a \in Attempt, \A b \in Attempt \ {a} : outbox'[b] = outbox[b], Blocks(a)
      PROVE  Ledger!SetAside(a)
  <2>1. answer' = [answer EXCEPT ![a] = "setAside"] /\ answer[a] = "held"
    BY <1>3, <1>5 DEF Blocks, StandingOf, StandingOfAll, AcceptedStatus
  <2> QED
    BY <1>1, <2>1 DEF Ledger!SetAside, StandingOfAll
<1>6. ASSUME NEW a \in Attempt, \A b \in Attempt \ {a} : outbox'[b] = outbox[b], Accepts(a)
      PROVE  Ledger!Confirm(a)
  <2>1. answer' = [answer EXCEPT ![a] = "confirmed"] /\ answer[a] \in {"held", "setAside"}
    BY <1>3, <1>6 DEF Accepts, AcceptedStatus, StandingOf, StandingOfAll
  <2>2. outbox'[a].receipt = server'[InstanceOf[a]]
    BY <1>6 DEF Accepts, DeliveryInv, AcceptedIsAuthoritative
  <2>3. outbox'[a].receipt.attempt = a
    BY <1>6 DEF Accepts, DeliveryInv, StoresAgree
  <2>4. InstanceOf[a] \in Instance
    BY AttemptAssumption DEF AnyAttempt
  <2>5. ledger[InstanceOf[a]] = a
    BY <2>2, <2>3, <2>4 DEF StoreMove
  <2> QED
    BY <1>1, <2>1, <2>5 DEF Ledger!Confirm, StandingOfAll
<1>7. StoreTypeOK /\ StoreNext
  BY DEF DeliveryInv, TypeOK, StoreMove
<1> HIDE DEF ledger, answer
<1> QED
  BY <1>2, <1>4, <1>5, <1>6, <1>7, StoreMovesOne DEF Ledger!LedgerNext

(* A step of the server takes one answer, or finds the instance taken.     *)
LEMMA ServerMoveIsLedger ==
    ASSUME DeliveryInv, ServerMove
    PROVE  [Ledger!LedgerNext]_(Ledger!ledgerVars)
<1> DEFINE ledger  == [i \in Instance |-> server[i].attempt]
           answer  == StandingOfAll
<1>1. PICK a \in AnyAttempt, applied \in BOOLEAN :
          (a \in Attempt => Stored(a)) /\ server' = Recorded(a, applied)
  BY DEF ServerMove
<1>2. answer' = answer
  BY DEF ServerMove, StandingOfAll, storeVars
<1>3. CASE server' = server
  BY <1>2, <1>3 DEF Ledger!ledgerVars, StandingOfAll
<1>4. CASE server' # server
  <2>1. /\ server[InstanceOf[a]] = NoReceipt
        /\ server' = [server EXCEPT ![InstanceOf[a]] = [attempt |-> a, applied |-> applied]]
    BY <1>1, <1>4 DEF Recorded
  <2>2. InstanceOf[a] \in Instance
    BY AttemptAssumption
  <2>3. ledger' = [ledger EXCEPT ![InstanceOf[a]] = a] /\ ledger[InstanceOf[a]] = None
    BY <2>1, <2>2 DEF NoReceipt, DeliveryInv, TypeOK
  <2>4. a \in Attempt => answer[a] # "none"
    <3>1. a \in Attempt => outbox[a].status \in Status
      BY <1>1 DEF Stored, DeliveryInv, TypeOK, StoreTypeOK, Row
    <3> QED
      BY <3>1 DEF StandingOfAll, StandingOf, Status, TerminalStatus, AcceptedStatus
  <2>5. Ledger!Take(a)
    BY <1>2, <2>3, <2>4 DEF Ledger!Take, StandingOfAll
  <2> QED
    BY <2>5 DEF Ledger!LedgerNext, AnyAttempt
<1> QED
  BY <1>3, <1>4

(* Under every interleaving of pages, losses and reloads an answer is taken *)
(* once, only when some device holds it, and confirmed only when it is the  *)
(* one that was taken (pilot-transport.ts 500-594, attempt-outbox.ts        *)
(* 365-449).                                                                *)
THEOREM DeliveryImplementsLedger == Spec => ImplementsAnswerLedger
<1>1. Init => Ledger!LedgerInit
  BY LedgerInit
<1>2. DeliveryInv /\ DeliveryInv' /\ [Next]_vars => [Ledger!LedgerNext]_(Ledger!ledgerVars)
  <2>1. ASSUME DeliveryInv, UNCHANGED <<storeVars, server>>
        PROVE  UNCHANGED Ledger!ledgerVars
    BY <2>1 DEF Ledger!ledgerVars, storeVars
  <2>2. UNCHANGED vars => UNCHANGED <<storeVars, server>>
    BY DEF vars, storeVars
  <2> QED
    BY <2>1, <2>2, NextMoves, StoreMoveIsLedger, ServerMoveIsLedger DEF Neither
<1> QED
  BY <1>1, <1>2, DeliveryInvariant, PTL DEF Spec, ImplementsAnswerLedger, Ledger!LedgerSpec

(* The server side of the delivery is the register of receipts that the    *)
(* database transactions implement: whatever pages and networks do, it     *)
(* takes one answer per instance and keeps it (pilot/attempt/route.ts,     *)
(* 20260917021000 lines 482-565).                                          *)
THEOREM DeliveryUsesRegister == Spec => ServerIsRegister
<1>1. Init => Register!RegisterInit
  BY DEF Init, Register!RegisterInit, Register!NoReceipt, NoReceipt
<1>2. DeliveryInv /\ DeliveryInv' /\ [Next]_vars => [Register!RegisterNext]_server
  <2>1. UNCHANGED vars => UNCHANGED server
    BY DEF vars
  <2>2. ServerMove => [Register!RegisterNext]_server
    BY DEF ServerMove, Recorded, Register!RegisterNext, Register!Accept, Register!NoReceipt, NoReceipt
  <2> QED
    BY <2>1, <2>2, NextMoves DEF StoreMove, Neither
<1> QED
  BY <1>1, <1>2, DeliveryInvariant, PTL DEF Spec, ServerIsRegister, Register!RegisterSpec
=============================================================================
