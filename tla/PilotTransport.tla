--------------------------- MODULE PilotTransport ---------------------------
(***************************************************************************)
(* Delivery of durable answers: the foreground flushes, the answer button  *)
(* and the manual recovery of blocked answers, run as concurrent threads   *)
(* over one outbox, against a server that keeps the authoritative receipt  *)
(* of every instance and a network that fails, loses and delays.           *)
(*                                                                         *)
(* A thread is one running call of recoverAndFlushPilotOutbox (Flusher),   *)
(* gradeCurrent (Submitter) or recoverBlockedPilotAttemptExplicitly        *)
(* (Recoverer).  Threads of one page and of several pages share the        *)
(* outbox; a page runs at most one flush at a time.  Steps fall at the     *)
(* awaits: each IndexedDB transaction and each answered fetch is a step.   *)
(***************************************************************************)
EXTENDS AttemptOutbox

CONSTANTS Flusher, Submitter, Recoverer

Sender == Flusher \cup Submitter
Thread == Sender \cup Recoverer

ASSUME ThreadAssumption ==
    /\ Flusher \cap Submitter = {}
    /\ Sender \cap Recoverer = {}

VARIABLES
    server,     \* the stored receipt of each instance, written once
    pc,         \* where each thread is
    target,     \* the attempt it is working on
    queue,      \* what a flush has listed and not reached yet
    wire,       \* the fetch a thread is awaiting: request, then reply
    stray       \* attempts whose POST was given up and may still arrive

vars == <<outbox, receipts, server, pc, target, queue, wire, stray>>

(* What sendPilotOutboxAttempt reports to the answer button, "threw" when  *)
(* its promise rejects.                                                    *)
Report == {"accepted", "blocked", "pending", "auth-required", "terminal", "threw"}

SendStep    == {"probing", "marking", "posted", "lookup"}
RecoverStep == {"validating", "reposted", "relookup"}
Location    == {"idle", "recovered", "looping", "committing", "committed"}
                  \cup Report \cup SendStep \cup RecoverStep

Quiet   == Bare("quiet")
Request == Bare("request")
Message == Reply \cup {Quiet, Request}

Resting(t)   == pc[t] \in {"idle"} \cup (IF t \in Submitter THEN Report ELSE {})
Answered(t)  == wire[t].kind \in ReplyKind
Posting(t)   == pc[t] \in {"posted", "reposted"}
Unserved(t)  == Posting(t) /\ wire[t].kind = "request"

Init ==
    /\ StoreInit
    /\ server = [i \in Instance |-> NoReceipt]
    /\ pc = [t \in Thread |-> "idle"]
    /\ target = [t \in Thread |-> None]
    /\ queue = [t \in Thread |-> {}]
    /\ wire = [t \in Thread |-> Quiet]
    /\ stray = {}

Goto(t, place) == pc' = [pc EXCEPT ![t] = place]

Fetch(t) == wire' = [wire EXCEPT ![t] = Request]
Settle(t) == wire' = [wire EXCEPT ![t] = Quiet]

(* A send is over: a flush goes on with its loop unless the send threw.    *)
After(t, report) ==
    IF t \in Submitter \/ report = "threw" THEN report ELSE "looping"

-----------------------------------------------------------------------------
(* sendPilotOutboxAttempt.                                                 *)

(* It reads the row and leaves unless there is something to deliver.       *)
Begin(t, a) ==
    /\ target' = [target EXCEPT ![t] = a]
    /\ CASE outbox[a].status = "pending" ->
              Goto(t, "marking") /\ UNCHANGED wire
         [] outbox[a].status = "auth-required" ->
              Goto(t, "probing") /\ Fetch(t)
         [] OTHER ->
              Goto(t, After(t, "terminal")) /\ UNCHANGED wire
    /\ UNCHANGED <<storeVars, server, stray>>

(* Mutant: the answer is believed before the row is looked at.             *)
SendResult_AnswerFirst(row, v) ==
    IF v.kind = "accepted" \/ row.status \in AcceptedStatus THEN "accepted"
    ELSE IF v.kind = "retryable" THEN "pending"
    ELSE v.kind

(* Mutant: the classification's kind is reported for an unfinished row.    *)
SendResult_KindAsResult(row, v) ==
    IF row.status \in AcceptedStatus THEN "accepted"
    ELSE IF row.status = "blocked" THEN "blocked"
    ELSE v.kind

(* The result for a row as the transaction left it, in the code's order:   *)
(* a terminal row is the authority over the answer, and an accepted answer *)
(* that met a row rewound to pending has no stored receipt to return.      *)
SendResult(row, v) ==
    IF row.status \in AcceptedStatus THEN "accepted"
    ELSE IF row.status = "blocked" THEN "blocked"
    ELSE IF v.kind = "accepted" THEN "threw"
    ELSE IF v.kind = "retryable" THEN "pending"
    ELSE v.kind

Deliver(t, v) ==
    LET a == target[t] IN
    /\ ApplyOfflineDelivery(a, v)
    /\ Goto(t, After(t, IF ApplyThrows(a, v) THEN "threw"
                        ELSE SendResult(Delivered(a, v), v)))
    /\ Settle(t)
    /\ UNCHANGED <<server, target, queue, stray>>

(* The probe of an auth-required row, with whatever follows it: give up,   *)
(* finish the attempt from the stored receipt, or rewind it to pending.    *)
ProbeAnswered(t) ==
    LET a == target[t]
        v == ProbeAuthentication(wire[t], a)
    IN
    /\ pc[t] = "probing"
    /\ Answered(t)
    /\ \/ /\ v.kind = "auth-required"
          /\ Goto(t, After(t, "auth-required"))
          /\ UNCHANGED storeVars
       \/ /\ v.kind \in {"accepted", "blocked"}
          /\ ApplyOfflineDelivery(a, v)
          /\ LET row == Delivered(a, v) IN
             Goto(t, After(t, IF ApplyThrows(a, v) THEN "threw"
                              ELSE IF row.status \in AcceptedStatus THEN "accepted"
                              ELSE IF row.status = "blocked" THEN "blocked"
                              ELSE "auth-required"))
       \/ /\ v.kind = "reauthenticated"
          /\ MarkOfflineAttemptReauthenticated(a)
          /\ Goto(t, IF Reauthenticated(a).status = "pending" THEN "marking"
                     ELSE After(t, "terminal"))
    /\ Settle(t)
    /\ UNCHANGED <<server, target, queue, stray>>

(* Mark the row sending and POST it.  A row another thread marked first is *)
(* returned as sending too, and is then posted by both.                    *)
MarkAndPost(t) ==
    LET row == MarkedSending(target[t]) IN
    /\ pc[t] = "marking"
    /\ MarkOfflineAttemptSending(target[t])
    /\ IF row.status = "sending" THEN Goto(t, "posted") /\ Fetch(t)
       ELSE /\ Goto(t, After(t, IF row.status \in TerminalStatus THEN "terminal"
                                ELSE "pending"))
            /\ UNCHANGED wire
    /\ UNCHANGED <<server, target, queue, stray>>

PostAnswered(t) ==
    LET v == ClassifyOfflineServerOutcome(wire[t], target[t]) IN
    /\ pc[t] = "posted"
    /\ Answered(t)
    /\ IF v.kind = "receipt-lookup-required"
       THEN /\ Goto(t, "lookup")
            /\ Fetch(t)
            /\ UNCHANGED <<storeVars, server, target, queue, stray>>
       ELSE Deliver(t, v)

LookupAnswered(t) ==
    /\ pc[t] = "lookup"
    /\ Answered(t)
    /\ Deliver(t, LookupStoredReceipt(wire[t], target[t]))

-----------------------------------------------------------------------------
(* recoverAndFlushPilotOutbox and flushPilotAttemptOutbox.                 *)

(* The attempt IDs are random, so the order of the listing is arbitrary.   *)
StartFlush(f) ==
    /\ pc[f] = "idle"
    /\ RecoverSendingOfflineAttempts
    /\ Goto(f, "recovered")
    /\ UNCHANGED <<server, target, queue, wire, stray>>

(* Mutant: rows that wait for a new sign-in are left out of the flush.     *)
ListOfflineAttempts_PendingOnly(f) ==
    /\ pc[f] = "recovered"
    /\ queue' = [queue EXCEPT ![f] = {a \in Attempt : outbox[a].status = "pending"}]
    /\ Goto(f, "looping")
    /\ UNCHANGED <<storeVars, server, target, wire, stray>>

ListOfflineAttempts(f) ==
    /\ pc[f] = "recovered"
    /\ queue' = [queue EXCEPT ![f] =
                    {a \in Attempt : outbox[a].status \in {"pending", "auth-required"}}]
    /\ Goto(f, "looping")
    /\ UNCHANGED <<storeVars, server, target, wire, stray>>

FlushNext(f, a) ==
    /\ pc[f] = "looping"
    /\ a \in queue[f]
    /\ queue' = [queue EXCEPT ![f] = @ \ {a}]
    /\ Begin(f, a)

(* The loop ends, or a send that threw rejects the whole flush.            *)
FlushOver(f) ==
    /\ \/ pc[f] = "looping" /\ queue[f] = {}
       \/ pc[f] = "threw"
    /\ Goto(f, "idle")
    /\ queue' = [queue EXCEPT ![f] = {}]
    /\ target' = [target EXCEPT ![f] = None]
    /\ UNCHANGED <<storeVars, server, wire, stray>>

-----------------------------------------------------------------------------
(* gradeCurrent: the answer button of one card.                            *)

(* Find a durable row of the card's instance; else the attempt is new.     *)
AnswerCard(u, a) ==
    /\ Resting(u)
    /\ \/ /\ RowsOf(InstanceOf[a]) = {}
          /\ target' = [target EXCEPT ![u] = a]
          /\ Goto(u, "committing")
       \/ \E b \in RowsOf(InstanceOf[a]) :
          /\ target' = [target EXCEPT ![u] = b]
          /\ Goto(u, "committed")
    /\ UNCHANGED <<storeVars, server, queue, wire, stray>>

(* Mutant: the answer is sent while its commit is still under way.         *)
CommitPilotOfflineAttempt_Unawaited(u) ==
    /\ pc[u] = "committing"
    /\ Goto(u, "posted")
    /\ Fetch(u)
    /\ UNCHANGED <<storeVars, server, target, queue, stray>>

CommitPilotOfflineAttempt(u) ==
    LET a == target[u] IN
    /\ pc[u] = "committing"
    /\ CommitOfflineAttempt(a)
    /\ Goto(u, IF RowsOf(InstanceOf[a]) \subseteq {a} THEN "committed" ELSE "threw")
    /\ UNCHANGED <<server, target, queue, wire, stray>>

SendCommitted(u) ==
    /\ pc[u] = "committed"
    /\ Begin(u, target[u])
    /\ UNCHANGED queue

-----------------------------------------------------------------------------
(* recoverBlockedPilotAttemptExplicitly.                                   *)

StartRecovery(m, a) ==
    /\ pc[m] = "idle"
    /\ outbox[a].status = "blocked"
    /\ target' = [target EXCEPT ![m] = a]
    /\ Goto(m, "validating")
    /\ UNCHANGED <<storeVars, server, queue, wire, stray>>

EndRecovery(m) == Goto(m, "idle") /\ target' = [target EXCEPT ![m] = None]

(* The validation answers; the row is read again, and only a row that is   *)
(* still blocked is posted.                                                *)
RecoveryValidated(m) ==
    /\ pc[m] = "validating"
    /\ \/ /\ outbox[target[m]].status = "blocked"
          /\ Goto(m, "reposted")
          /\ Fetch(m)
          /\ UNCHANGED target
       \/ EndRecovery(m) /\ UNCHANGED wire
    /\ UNCHANGED <<storeVars, server, queue, stray>>

(* Only an accepted answer touches the row.                                *)
Reconcile(m, v) ==
    /\ IF v.kind = "accepted" THEN ReconcileBlockedAttempt(target[m], v.receipt)
       ELSE UNCHANGED storeVars
    /\ EndRecovery(m)
    /\ Settle(m)
    /\ UNCHANGED <<server, queue, stray>>

RecoveryAnswered(m) ==
    LET v == ClassifyOfflineServerOutcome(wire[m], target[m]) IN
    /\ pc[m] = "reposted"
    /\ Answered(m)
    /\ IF v.kind = "receipt-lookup-required"
       THEN /\ Goto(m, "relookup")
            /\ Fetch(m)
            /\ UNCHANGED <<storeVars, server, target, queue, stray>>
       ELSE Reconcile(m, v)

RecoveryLookedUp(m) ==
    /\ pc[m] = "relookup"
    /\ Answered(m)
    /\ Reconcile(m, LookupStoredReceipt(wire[m], target[m]))

-----------------------------------------------------------------------------
(* The server and the network.                                             *)

(* Mutant: a retry is recorded again instead of finding its receipt.       *)
Recorded_RetryAgain(a, applied) ==
    IF server[InstanceOf[a]].attempt \in {None, a}
    THEN [server EXCEPT ![InstanceOf[a]] = [attempt |-> a, applied |-> applied]]
    ELSE server

(* recordAttempt: the first attempt to arrive takes the instance.          *)
Recorded(a, applied) ==
    IF server[InstanceOf[a]] = NoReceipt
    THEN [server EXCEPT ![InstanceOf[a]] = [attempt |-> a, applied |-> applied]]
    ELSE server

(* The stored receipt when it is this attempt's, else the 409 error.       *)
ReceiptOrAlready(a, r) ==
    IF r.attempt = a THEN [kind |-> "receipt", receipt |-> r] ELSE Bare("already")

(* POST /attempt: it fails before the acceptance transaction; or it goes   *)
(* through it (a retry finds its own receipt there), and the answer is     *)
(* the outcome, an error raised after the commit, or a cut-off body.       *)
AttemptRoute(t) ==
    LET a == target[t] IN
    /\ Unserved(t)
    /\ \/ /\ \E k \in {"unauthorized", "transient", "rejected"} :
                wire' = [wire EXCEPT ![t] = Bare(k)]
          /\ UNCHANGED server
       \/ \E applied \in BOOLEAN :
          /\ server' = Recorded(a, applied)
          /\ \/ wire' = [wire EXCEPT ![t] =
                    ReceiptOrAlready(a, Recorded(a, applied)[InstanceOf[a]])]
             \/ \E k \in {"transient", "garbled"} :
                    wire' = [wire EXCEPT ![t] = Bare(k)]
    /\ UNCHANGED <<storeVars, pc, target, queue, stray>>

(* GET /receipt: read only.                                                *)
ReceiptRoute(t) ==
    LET r == server[InstanceOf[target[t]]] IN
    /\ pc[t] \in {"probing", "lookup", "relookup"}
    /\ wire[t].kind = "request"
    /\ \/ \E k \in {"unauthorized", "transient", "rejected"} :
             wire' = [wire EXCEPT ![t] = Bare(k)]
       \/ r = NoReceipt /\ wire' = [wire EXCEPT ![t] = Bare("missing")]
       \/ /\ r # NoReceipt
          /\ wire' \in {[wire EXCEPT ![t] = Bare("garbled")],
                        [wire EXCEPT ![t] = [kind |-> "receipt", receipt |-> r]]}
    /\ UNCHANGED <<storeVars, server, pc, target, queue, stray>>

(* The fetch fails: its request, or its answer, is lost or still on the    *)
(* way, and the server may yet process a POST nobody waits for.            *)
NetworkFails(t) ==
    /\ wire[t].kind \notin {"quiet", "network"}
    /\ wire' = [wire EXCEPT ![t] = Bare("network")]
    /\ stray' = IF Unserved(t) THEN stray \cup {target[t]} ELSE stray
    /\ UNCHANGED <<storeVars, server, pc, target, queue>>

StrayArrives(a) ==
    /\ a \in stray
    /\ \E applied \in BOOLEAN : server' = Recorded(a, applied)
    /\ stray' = stray \ {a}
    /\ UNCHANGED <<storeVars, pc, target, queue, wire>>

(* Another device answers the instance first.                              *)
ForeignAnswer(b) ==
    /\ server[InstanceOf[b]] = NoReceipt
    /\ \E applied \in BOOLEAN : server' = Recorded(b, applied)
    /\ UNCHANGED <<storeVars, pc, target, queue, wire, stray>>

(* The page is closed or reloaded; the stores survive, the thread does not. *)
Reload(t) ==
    /\ pc[t] # "idle"
    /\ Goto(t, "idle")
    /\ target' = [target EXCEPT ![t] = None]
    /\ queue' = [queue EXCEPT ![t] = {}]
    /\ Settle(t)
    /\ stray' = IF Unserved(t) THEN stray \cup {target[t]} ELSE stray
    /\ UNCHANGED <<storeVars, server>>

-----------------------------------------------------------------------------
FlushStep(f) ==
    \/ StartFlush(f) \/ ListOfflineAttempts(f) \/ FlushOver(f)
    \/ \E a \in Attempt : FlushNext(f, a)

SubmitStep(u) ==
    \/ \E a \in Attempt : AnswerCard(u, a)
    \/ CommitPilotOfflineAttempt(u)
    \/ SendCommitted(u)

SenderStep(t) ==
    ProbeAnswered(t) \/ MarkAndPost(t) \/ PostAnswered(t) \/ LookupAnswered(t)

RecovererStep(m) ==
    \/ \E a \in Attempt : StartRecovery(m, a)
    \/ RecoveryValidated(m) \/ RecoveryAnswered(m) \/ RecoveryLookedUp(m)

Environment ==
    \/ \E t \in Thread :
          AttemptRoute(t) \/ ReceiptRoute(t) \/ NetworkFails(t) \/ Reload(t)
    \/ \E a \in Attempt : StrayArrives(a)
    \/ \E b \in Foreign : ForeignAnswer(b)

Next ==
    \/ \E f \in Flusher : FlushStep(f)
    \/ \E u \in Submitter : SubmitStep(u)
    \/ \E t \in Sender : SenderStep(t)
    \/ \E m \in Recoverer : RecovererStep(m)
    \/ Environment

Spec == Init /\ [][Next]_vars

-----------------------------------------------------------------------------
(* Properties.                                                             *)

TypeOK ==
    /\ StoreTypeOK
    /\ server \in [Instance -> Receipt \cup {NoReceipt}]
    /\ pc \in [Thread -> Location]
    /\ target \in [Thread -> Attempt \cup {None}]
    /\ queue \in [Thread -> SUBSET Attempt]
    /\ wire \in [Thread -> Message]
    /\ stray \in SUBSET Attempt

(* The browser calls an answer accepted only on the strength of the        *)
(* receipt the server stored for that instance: same attempt, same effect  *)
(* on the schedule (outbox-core.ts 187-198, PHASE_4E_4 "Delivery and       *)
(* receipt authority").                                                    *)
AcceptedIsAuthoritative ==
    \A a \in Attempt :
        outbox[a].status \in AcceptedStatus => outbox[a].receipt = server[InstanceOf[a]]

(* An answer told apart as beaten by another attempt really is: the server *)
(* keeps someone else's receipt for the instance, for good (outbox-core.ts *)
(* 85-96).                                                                 *)
BeatenIsFinal ==
    \A a \in Attempt :
        outbox[a].reason \in {"attempt-conflict", "instance-already-answered"} =>
            server[InstanceOf[a]].attempt \in AnyAttempt \ {a}

(* What the server accepted from this browser is never lost here: there is *)
(* a durable row for it, however the answer got lost on the way back, and  *)
(* an abandoned POST always belongs to such a row (pilot-transport.ts 57,  *)
(* attempt-outbox.ts 191-193).                                             *)
SentIsDurable ==
    /\ \A i \in Instance : server[i].attempt \in Attempt => Stored(server[i].attempt)
    /\ \A a \in stray : Stored(a)
    /\ \A t \in Thread : Posting(t) => Stored(target[t])

(* The card reports an answer as accepted only when the outbox says so     *)
(* durably, whatever the answer of the server said and whichever page      *)
(* rewound the row meanwhile (PHASE_4E_4: "The UI reports `accepted` only  *)
(* after that transaction completes"; pilot-transport.ts 577-594).         *)
ReportedIsDurable ==
    \A u \in Submitter :
        pc[u] = "accepted" => outbox[target[u]].status \in AcceptedStatus

(* No automatic step moves a blocked row: only the last step of a manual   *)
(* recovery does.  And that step, long after the row was read as blocked,  *)
(* moves no row another thread has meanwhile taken out of blocked          *)
(* (pilot-transport.ts 296-302, attempt-outbox.ts 526-532).                *)
OnlyRecoveryUnblocks ==
    [][\A a \in Attempt :
          outbox'[a] # outbox[a] =>
             (outbox[a].status = "blocked" <=>
                 \E m \in Recoverer : /\ target[m] = a
                                      /\ pc[m] \in {"reposted", "relookup"}
                                      /\ pc'[m] = "idle")]_vars

-----------------------------------------------------------------------------
(* The parts that make these properties inductive.                         *)

(* A thread that is at work has a durable row, and the steps of a send and *)
(* of a manual recovery belong to different threads.                       *)
ThreadsSound ==
    \A t \in Thread :
        /\ pc[t] \in SendStep \cup RecoverStep \cup {"committed", "accepted"} =>
              target[t] \in Attempt /\ Stored(target[t])
        /\ pc[t] = "committing" => target[t] \in Attempt
        /\ pc[t] \in RecoverStep => t \in Recoverer
        /\ pc[t] \in SendStep => t \in Sender
        /\ pc[t] \in Report \ {"threw"} => t \in Submitter
        /\ \A a \in queue[t] : Stored(a)

(* A fetch is awaited only where one was made, and a receipt or a refusal  *)
(* on its way back says what the server stores.                            *)
WireHonest ==
    \A t \in Thread :
        /\ wire[t].kind # "quiet" =>
              pc[t] \in {"probing", "posted", "lookup", "reposted", "relookup"}
        /\ wire[t].kind = "receipt" =>
              wire[t].receipt \in Receipt /\ wire[t].receipt = server[InstanceOf[target[t]]]

(* The server files a receipt under the instance of its attempt.           *)
ServerSound ==
    \A i \in Instance :
        server[i] # NoReceipt => InstanceOf[server[i].attempt] = i

DeliveryInv ==
    /\ TypeOK /\ StoresAgree /\ OneRowPerInstance
    /\ ThreadsSound /\ WireHonest /\ ServerSound
    /\ AcceptedIsAuthoritative /\ BeatenIsFinal /\ SentIsDurable /\ ReportedIsDurable

-----------------------------------------------------------------------------
(* What the device says of an answer, and the answer each instance took.   *)
StandingOf(status) ==
    CASE status = "absent" -> "none"
      [] status \in {"pending", "sending", "auth-required"} -> "held"
      [] status = "blocked" -> "setAside"
      [] status \in AcceptedStatus -> "confirmed"

Ledger == INSTANCE AnswerLedger WITH
    ledger <- [i \in Instance |-> server[i].attempt],
    answer <- [a \in Attempt |-> StandingOf(outbox[a].status)]

(* Under every interleaving of pages, losses and reloads the delivery does *)
(* what AnswerLedger promises: an answer is taken once and only when it is *)
(* held, and confirmed only when it is the one that was taken.             *)
ImplementsAnswerLedger == Ledger!LedgerSpec

(* The server of this model is no more than the register of receipts that  *)
(* the database transactions of ObjectiveAuthority implement.              *)
Register == INSTANCE ReceiptRegister WITH Answer <- AnyAttempt, register <- server

ServerIsRegister == Register!RegisterSpec

-----------------------------------------------------------------------------
(* Liveness, for a page that is opened again and again (StartFlush: mount, *)
(* online and visibility events) and stays open long enough now and then,  *)
(* a server that answers now and then, and a network that now and then     *)
(* carries the answer: strong fairness, since a reload, an error or a lost *)
(* fetch can come first any number of times.                               *)
Genuine(t) == wire[t].kind \in {"receipt", "already", "missing"}

FlushFairness(f) ==
    /\ WF_vars(StartFlush(f))
    /\ WF_vars(FlushOver(f))
    /\ WF_vars(SenderStep(f))
    /\ SF_vars(ListOfflineAttempts(f))
    /\ \A a \in Attempt : SF_vars(FlushNext(f, a))
    /\ SF_vars(MarkAndPost(f))
    /\ SF_vars(AttemptRoute(f) /\ Genuine(f)')
    /\ SF_vars(ReceiptRoute(f) /\ Genuine(f)')
    /\ SF_vars(Genuine(f) /\ ProbeAnswered(f))
    /\ SF_vars(Genuine(f) /\ PostAnswered(f))
    /\ SF_vars(Genuine(f) /\ LookupAnswered(f))

LiveSpec == Spec /\ \A f \in Flusher : FlushFairness(f)

(* Every durable answer settles, reload after reload, unless the learner   *)
(* presses the button of its card for ever: the flush of a page that does  *)
(* not race an answer button brings each row to a terminal state           *)
(* (pilot-transport.ts 597-610, PHASE_4E_4 "Sending records are recovered  *)
(* to pending on reload").                                                 *)
EveryAnswerSettles ==
    <>[](\A u \in Submitter : Resting(u)) =>
        \A a \in Attempt : Stored(a) ~> outbox[a].status \in TerminalStatus

-----------------------------------------------------------------------------
(* What comments and tests say that the code does not do.                  *)

(* pilot-transport.ts 597: "Flush every durable pending/auth-required      *)
(* pilot submission".                                                      *)
FlushReachesEveryRow ==
    \A f \in Flusher : pc[f] = "threw" => queue[f] = {}
=============================================================================
