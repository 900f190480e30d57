---------------------------- MODULE SnapshotCache ----------------------------
(***************************************************************************)
(* The browser's replica of the published snapshot, and the dashboard that *)
(* shows it.  Every tab of the browser loads the current snapshot when it  *)
(* opens and after a refresh; loads overlap, within a tab and across tabs, *)
(* and share one IndexedDB database.  A load fetches, adopts the answer in *)
(* one transaction, reads the replica in another, verifies its hash, and   *)
(* shows the newer of the two; without an answer it shows the replica.     *)
(*                                                                         *)
(* A snapshot is its id, its generation and its content; the content hash  *)
(* identifies the content.  The server may be restored from a backup, to   *)
(* any snapshot it served before, and publish a generation for the second  *)
(* time, with another content: a browser that kept the first refuses it.   *)
(***************************************************************************)
EXTENDS Integers, FiniteSets

CONSTANTS
    Load,           \* loads that may be under way
    Tab,
    TabOf,          \* the tab of every load
    Content,
    Foreign,        \* contents of a projection version this tab cannot show
    MaxPublished    \* bound on the number of publications

ASSUME CacheAssumption ==
    TabOf \in [Load -> Tab] /\ Foreign \subseteq Content /\ MaxPublished \in Nat

VARIABLES
    server,     \* the current snapshot
    past,       \* every snapshot it ever served
    store,      \* the snapshots kept in the browser
    pointer,    \* the current one among them
    pc,         \* of every load
    answer,     \* what it fetched
    held,       \* what it read from the replica
    display     \* of every tab

browser == <<store, pointer>>
load    == <<pc, answer, held>>
vars    == <<server, past, store, pointer, pc, answer, held, display>>

Nothing  == [id |-> 0, gen |-> 0, content |-> "none"]
Snapshot == [id : Nat, gen : Nat, content : Content \cup {"none"}]

Blank(kind) == [kind |-> kind, shown |-> Nothing, cached |-> FALSE]
Ready(s, cached) == [kind |-> "ready", shown |-> s, cached |-> cached]

Init ==
    /\ server = Nothing /\ past = {}
    /\ store = {} /\ pointer = Nothing
    /\ pc = [l \in Load |-> "idle"]
    /\ answer = [l \in Load |-> Nothing]
    /\ held = [l \in Load |-> Nothing]
    /\ display = [t \in Tab |-> Blank("loading")]

-----------------------------------------------------------------------------
(* The server, and the browser's right to clear its storage.               *)

Publish(c) ==
    /\ Cardinality(past) < MaxPublished
    /\ server' = [id |-> Cardinality(past) + 1, gen |-> server.gen + 1, content |-> c]
    /\ past' = past \cup {server'}
    /\ UNCHANGED <<browser, load, display>>

Restore(s) ==
    /\ s \in past /\ s.gen < server.gen
    /\ server' = s
    /\ UNCHANGED <<past, browser, load, display>>

Evict ==
    /\ pointer # Nothing
    /\ store' = {} /\ pointer' = Nothing
    /\ UNCHANGED <<server, past, load, display>>

-----------------------------------------------------------------------------
(* A load.                                                                 *)

Goes(l, from, to) == pc[l] = from /\ pc' = [pc EXCEPT ![l] = to]
Shows(l, d) == display' = [display EXCEPT ![TabOf[l]] = d]

(* A dashboard is kept on the screen while the next one loads.             *)
Start(l) ==
    /\ Goes(l, "idle", "fetch")
    /\ Shows(l, IF display[TabOf[l]].kind = "ready" THEN display[TabOf[l]] ELSE Blank("loading"))
    /\ answer' = [answer EXCEPT ![l] = Nothing]
    /\ held' = [held EXCEPT ![l] = Nothing]
    /\ UNCHANGED <<server, past, browser>>

Answered(l) ==
    /\ server # Nothing
    /\ Goes(l, "fetch", "put")
    /\ answer' = [answer EXCEPT ![l] = server]
    /\ UNCHANGED <<server, past, browser, held, display>>

(* Nothing is published yet, or the request or the hash fails.             *)
NotAnswered(l) ==
    /\ \/ server = Nothing /\ Goes(l, "fetch", "missing")
       \/ Goes(l, "fetch", "failed")
    /\ UNCHANGED <<server, past, browser, answer, held, display>>

(* One transaction: only a newer generation replaces the pointer.          *)
Adoption_LastWins(candidate) ==
    IF candidate.gen >= pointer.gen THEN "adopted" ELSE "ignored"

Adoption(candidate) ==
    CASE pointer = Nothing \/ candidate.gen > pointer.gen -> "adopted"
      [] candidate.gen < pointer.gen                      -> "ignored"
      [] candidate.gen = pointer.gen                      ->
             IF candidate.content = pointer.content THEN "ignored" ELSE "conflict"

(* An id is bound to its first content and generation.  The database draws *)
(* a new id for every publication, after a restore as well, so that no id  *)
(* comes back with another content here; the code looks nevertheless.      *)
Clashes(candidate) ==
    \E s \in store : s.id = candidate.id /\ s # candidate

Put(l) ==
    /\ LET adopted  == Adoption(answer[l]) = "adopted" /\ ~Clashes(answer[l])
           conflict == ~adopted /\ Adoption(answer[l]) # "ignored"
       IN  /\ store' = IF adopted THEN store \cup {answer[l]} ELSE store
           /\ pointer' = IF adopted THEN answer[l] ELSE pointer
           /\ Goes(l, "put", IF conflict THEN "failed" ELSE "read")
    /\ UNCHANGED <<server, past, answer, held, display>>

Shown(s, cached, otherwise) == IF s.content \in Foreign THEN Blank(otherwise) ELSE Ready(s, cached)

(* Without a replica the answer is shown as it is.                         *)
PutFails(l) ==
    /\ Goes(l, "put", "idle")
    /\ Shows(l, Shown(answer[l], FALSE, "unavailable"))
    /\ UNCHANGED <<server, past, browser, answer, held>>

(* The replica is read in a transaction of its own; its hash is verified   *)
(* before it is used.                                                      *)
Read(l) ==
    /\ \/ Goes(l, "read", "show")
       \/ Goes(l, "missing", "bootstrap")
       \/ Goes(l, "failed", "fallback")
    /\ held' = [held EXCEPT ![l] = pointer]
    /\ UNCHANGED <<server, past, browser, answer, display>>

ReadFails(l) ==
    /\ \/ Goes(l, "read", "show")
       \/ Goes(l, "missing", "bootstrap")
       \/ Goes(l, "failed", "fallback")
    /\ UNCHANGED <<server, past, browser, answer, held, display>>

Selected_Server(l) == answer[l]

(* The answer, unless the replica is strictly newer.                       *)
Selected(l) == IF held[l].gen > answer[l].gen THEN held[l] ELSE answer[l]

(* A replica that cannot be shown gives way to the answer.                 *)
Show(l) ==
    /\ Goes(l, "show", "idle")
    /\ Shows(l, IF Selected(l).content \in Foreign THEN Shown(answer[l], FALSE, "unavailable")
                ELSE Ready(Selected(l), held[l].gen > answer[l].gen))
    /\ UNCHANGED <<server, past, browser, answer, held>>

ShowReplica(l) ==
    /\ \E from \in {"fallback", "bootstrap"} :
          LET otherwise == IF from = "bootstrap" THEN "bootstrap" ELSE "unavailable"
          IN  /\ Goes(l, from, "idle")
              /\ Shows(l, IF held[l] = Nothing THEN Blank(otherwise)
                          ELSE Shown(held[l], TRUE, otherwise))
    /\ UNCHANGED <<server, past, browser, answer, held>>

(* A manual refresh that fails leaves a dashboard on the screen.  (One     *)
(* that succeeds starts a load.)                                           *)
ManualFails(t) ==
    /\ display' = [display EXCEPT ![t] = IF @.kind = "ready" THEN @ ELSE Blank("unavailable")]
    /\ UNCHANGED <<server, past, browser, load>>

(* The tab is reloaded; what it was doing is forgotten.                    *)
Reload(t) ==
    /\ pc' = [l \in Load |-> IF TabOf[l] = t THEN "idle" ELSE pc[l]]
    /\ display' = [display EXCEPT ![t] = Blank("loading")]
    /\ UNCHANGED <<server, past, browser, answer, held>>

Settle(l) ==
    \/ Answered(l) \/ NotAnswered(l) \/ Put(l) \/ PutFails(l)
    \/ Read(l) \/ ReadFails(l) \/ Show(l) \/ ShowReplica(l)

Next ==
    \/ \E c \in Content : Publish(c)
    \/ \E s \in past : Restore(s)
    \/ Evict
    \/ \E l \in Load : Start(l) \/ Settle(l)
    \/ \E t \in Tab : ManualFails(t) \/ Reload(t)

Spec == Init /\ [][Next]_vars

-----------------------------------------------------------------------------
(* Type invariant.                                                         *)
CacheTypeOK ==
    /\ server \in Snapshot /\ past \subseteq Snapshot
    /\ store \subseteq past /\ pointer \in store \cup {Nothing}
    /\ pc \in [Load -> {"idle", "fetch", "put", "read", "show", "missing", "failed",
                        "bootstrap", "fallback"}]
    /\ \A l \in Load : {answer[l], held[l]} \subseteq past \cup {Nothing}
    /\ \A t \in Tab : display[t].kind \in {"loading", "ready", "bootstrap", "unavailable"}

(* The replica keeps one content for a generation, and points to the       *)
(* newest it keeps, whatever tabs, delayed answers and restored servers    *)
(* bring it (docs/PHASE_4E_3: generation is monotonic).                    *)
OneContentPerGeneration ==
    /\ \A s, t \in store : s.gen = t.gen => s = t
    /\ \A s \in store : s.gen <= pointer.gen

(* The pointer moves only forward, unless the browser clears its storage.  *)
ReplicaNeverRewinds ==
    [][pointer' # pointer => pointer' = Nothing \/ pointer'.gen > pointer.gen]_vars

(* What a load puts on the screen is no older than what it knows: the      *)
(* answer it was given and the replica it read.  A dashboard is shown as   *)
(* cached only if it is the replica, and newer than an answer that was     *)
(* adopted; it can be the answer itself when that was refused.             *)
ShowsTheNewest ==
    [][\A l \in Load : pc[l] \in {"show", "fallback", "bootstrap"} /\ pc'[l] = "idle" =>
          LET d == display'[TabOf[l]] IN
          d.kind = "ready" =>
              /\ pc[l] = "show" => \/ d.shown.gen >= answer[l].gen /\ d.shown.gen >= held[l].gen
                                   \/ held[l].content \in Foreign /\ d.shown = answer[l]
              /\ d.cached => /\ d.shown = held[l]
                              /\ pc[l] = "show" => d.shown.gen > answer[l].gen]_vars

(* A replica that can be shown is shown: a server that does not answer, or *)
(* has nothing, never takes away what the learner has.                     *)
ReplicaIsUsed ==
    [][\A l \in Load : /\ pc[l] \in {"fallback", "bootstrap"} /\ pc'[l] = "idle"
                       /\ held[l] # Nothing /\ held[l].content \notin Foreign
          => display'[TabOf[l]].kind \in {"ready", "loading"}]_vars
=============================================================================
