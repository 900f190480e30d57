-------------------------- MODULE RefreshCoordinator --------------------------
(***************************************************************************)
(* How a tab asks the server to refresh the snapshot of a project.  Pages  *)
(* ask when they are mounted and when they become visible, a button asks   *)
(* when it is pressed; the coordinator of the tab joins them to one        *)
(* request.  A promise is a place in "promises"; the microtasks that start *)
(* a request, settle it and continue a joined one are actions of their     *)
(* own, so that everything may happen between them.                        *)
(***************************************************************************)
EXTENDS Integers, Sequences

CONSTANTS
    Page,           \* mounted refresh components
    Button,         \* manual controls
    Throttle,       \* time between two requests of foreground work
    MaxTime,        \* bound on the clock
    MaxPromises     \* bound on the promises of a tab

CoordinatorAssumption ==
    Page \cap Button = {} /\ Throttle \in Nat /\ MaxTime \in Nat /\ MaxPromises \in Nat

Caller == Page \cup Button
Kind   == {"refreshed", "other"}   \* "other": fresh, cooldown, busy, unavailable, ...
NoResult == [kind |-> "none", by |-> "none"]

VARIABLES
    promises,       \* every promise of the tab
    entry,          \* the one in flight, as inFlightRequests has it; 0: none
    requestedAt,    \* when foreground work was last requested; -Throttle: never
    now,
    waits,          \* the promise every caller waits for; 0: none
    got             \* the last result of every caller

vars == <<promises, entry, requestedAt, now, waits, got>>

Init ==
    /\ promises = <<>> /\ entry = 0
    /\ requestedAt = -Throttle /\ now = 0
    /\ waits = [c \in Caller |-> 0]
    /\ got = [c \in Caller |-> NoResult]

Promise(intent, state, after) ==
    [intent |-> intent, state |-> state, after |-> after, result |-> NoResult, at |-> now]
Direct(intent) == Promise(intent, "queued", 0)
Fresh == Len(promises) + 1

-----------------------------------------------------------------------------
(* The callers.                                                            *)

RequestRefresh_Overtakes(c, intent) ==
    IF entry = 0 \/ (intent = "manual" /\ promises[entry].intent = "foreground")
    THEN /\ promises' = Append(promises, Direct(intent))
         /\ entry' = Fresh /\ waits' = [waits EXCEPT ![c] = Fresh]
    ELSE /\ waits' = [waits EXCEPT ![c] = entry]
         /\ UNCHANGED <<promises, entry>>

(* A manual request that meets foreground work is chained to it.           *)
RequestRefresh(c, intent) ==
    IF entry = 0
    THEN /\ promises' = Append(promises, Direct(intent))
         /\ entry' = Fresh /\ waits' = [waits EXCEPT ![c] = Fresh]
    ELSE IF promises[entry].intent = "manual" \/ intent = "foreground"
    THEN /\ waits' = [waits EXCEPT ![c] = entry]
         /\ UNCHANGED <<promises, entry>>
    ELSE /\ promises' = Append(promises, Promise("manual", "chained", entry))
         /\ entry' = Fresh /\ waits' = [waits EXCEPT ![c] = Fresh]

Press(b) ==
    /\ waits[b] = 0 /\ Fresh < MaxPromises
    /\ RequestRefresh(b, "manual")
    /\ UNCHANGED <<requestedAt, now, got>>

(* A request in flight is joined before the throttle is looked at.         *)
RequestForeground(p) ==
    /\ entry # 0 \/ now - requestedAt >= Throttle
    /\ RequestRefresh(p, "foreground")
    /\ requestedAt' = IF entry = 0 THEN now ELSE requestedAt

Appear(p) ==
    /\ waits[p] = 0 /\ Fresh < MaxPromises
    /\ RequestForeground(p)
    /\ UNCHANGED <<now, got>>

(* An unmounted page does not act on what it asked for.                    *)
Unmount(p) ==
    /\ waits[p] # 0
    /\ waits' = [waits EXCEPT ![p] = 0]
    /\ got' = [got EXCEPT ![p] = NoResult]
    /\ UNCHANGED <<promises, entry, requestedAt, now>>

Tick ==
    /\ now < MaxTime /\ now' = now + 1
    /\ UNCHANGED <<promises, entry, requestedAt, waits, got>>

-----------------------------------------------------------------------------
(* The microtasks and the transport.                                       *)

Becomes(i, state, result) ==
    promises' = [promises EXCEPT ![i].state = state, ![i].result = result]

Launch(i) ==
    /\ promises[i].state = "queued"
    /\ Becomes(i, "calling", NoResult)
    /\ UNCHANGED <<entry, requestedAt, now, waits, got>>

(* An answer that cannot be read and a request that fails are unavailable. *)
Respond(i, kind) ==
    /\ promises[i].state = "calling"
    /\ Becomes(i, "answered", [kind |-> kind, by |-> promises[i].intent])
    /\ UNCHANGED <<entry, requestedAt, now, waits, got>>

(* Foreground work that published satisfies the manual caller; any other   *)
(* result is followed by one manual request.                               *)
Continue(i) ==
    LET before == promises[promises[i].after] IN
    /\ promises[i].state = "chained" /\ before.state = "settled"
    /\ IF before.intent = "manual" \/ before.result.kind = "refreshed"
       THEN Becomes(i, "answered", before.result) /\ UNCHANGED entry
       ELSE /\ promises' = Append([promises EXCEPT ![i].after = Fresh], Direct("manual"))
            /\ entry' = Fresh
    /\ UNCHANGED <<requestedAt, now, waits, got>>

(* Only the promise that is still in the map takes itself out.             *)
Finally(i) ==
    /\ promises[i].state = "answered"
    /\ Becomes(i, "settled", promises[i].result)
    /\ entry' = IF entry = i THEN 0 ELSE entry
    /\ UNCHANGED <<requestedAt, now, waits, got>>

(* The caller's continuation; "refreshed" reloads what is on the screen.   *)
Deliver(c) ==
    /\ waits[c] # 0 /\ promises[waits[c]].state = "settled"
    /\ got' = [got EXCEPT ![c] = promises[waits[c]].result]
    /\ waits' = [waits EXCEPT ![c] = 0]
    /\ UNCHANGED <<promises, entry, requestedAt, now>>

Microtask ==
    \/ \E i \in DOMAIN promises :
          Launch(i) \/ (\E k \in Kind : Respond(i, k)) \/ Continue(i) \/ Finally(i)
    \/ \E c \in Caller : Deliver(c)

Next ==
    \/ Microtask
    \/ \E b \in Button : Press(b)
    \/ \E p \in Page : Appear(p) \/ Unmount(p)
    \/ Tick

Spec == Init /\ [][Next]_vars

-----------------------------------------------------------------------------
Result  == [kind : Kind \cup {"none"}, by : {"foreground", "manual", "none"}]
Pending == {"queued", "calling"}
Ended   == {"answered", "settled"}

Promised == [intent : {"foreground", "manual"}, state : Pending \cup {"chained"} \cup Ended,
             after : Nat, result : Result, at : Nat]

(* Type invariant.                                                         *)
CoordinatorTypeOK ==
    /\ promises \in Seq(Promised)
    /\ entry \in 0..Len(promises)
    /\ \A i \in 1..Len(promises) :
          /\ promises[i].after \in 0..Len(promises)
          /\ promises[i].result.kind \in Kind <=> promises[i].state \in Ended
    /\ requestedAt \in Int /\ now \in Nat
    /\ waits \in [Caller -> 0..Len(promises)]
    /\ got \in [Caller -> Result]

(* However requests, answers and continuations interleave, the tab never   *)
(* has two requests of a project under way through the coordinator.        *)
OneCallAtATime ==
    \A i, j \in 1..Len(promises) :
       promises[i].state \in Pending /\ promises[j].state \in Pending => i = j

(* The map never keeps a request that has ended: it would be joined for    *)
(* ever and the project never refreshed again.                             *)
EntryIsLive == entry # 0 => promises[entry].state # "settled"

(* A learner who presses the button gets the answer to a manual request,   *)
(* which ignores the cooldown of foreground work, or a refreshed snapshot. *)
Satisfies(result) == result.by = "manual" \/ result.kind = "refreshed"

ManualIsAnswered == \A b \in Button : got[b] # NoResult => Satisfies(got[b])

(* Two requests of foreground work are apart by the throttle, whichever    *)
(* page started the first and whatever became of it.                       *)
ForegroundIsThrottled ==
    \A i, j \in 1..Len(promises) :
       i < j /\ promises[i].intent = "foreground" /\ promises[j].intent = "foreground"
           => promises[j].at - promises[i].at >= Throttle

(* A request under way is the one in the map, or the one the promise in    *)
(* the map is chained to.  A chained promise that has left the map follows *)
(* a manual request and will start no other.                               *)
MapKnows(i) ==
    promises[i].state \in Pending =>
        /\ entry # 0
        /\ i = entry \/ (promises[entry].state = "chained" /\ promises[entry].after = i)

ChainEnds(i) ==
    promises[i].state = "chained" =>
        /\ promises[i].intent = "manual" /\ promises[i].after # 0
        /\ i = entry \/ promises[promises[i].after].intent = "manual"

PromiseSound(i) ==
    /\ MapKnows(i) /\ ChainEnds(i)
    /\ promises[i].intent = "manual" /\ promises[i].state \in Ended => Satisfies(promises[i].result)
    /\ promises[i].intent = "foreground" => promises[i].at <= requestedAt

(* The properties together, with what makes them inductive.                *)
CoordinatorInvariant ==
    /\ CoordinatorTypeOK
    /\ \A i \in 1..Len(promises) : PromiseSound(i)
    /\ \A b \in Button : waits[b] # 0 => promises[waits[b]].intent = "manual"
    /\ OneCallAtATime /\ EntryIsLive /\ ManualIsAnswered /\ ForegroundIsThrottled
=============================================================================
