------------------------------ MODULE OfflineCard ------------------------------
(***************************************************************************)
(* Preparing an exercise for offline use, and starting it without the      *)
(* server.  A tab prepares a card: it makes its request durable, asks the  *)
(* server for an instance, stores it, downloads and verifies its image.    *)
(* A tab opens a card: it goes through the stored instances, sets aside    *)
(* those the outbox has an answer to or a newer snapshot excludes, and     *)
(* shows the first whose image is still there.                             *)
(*                                                                         *)
(* The instances, the outbox and the images are three databases with no    *)
(* transaction in common; tabs of one browser run at the same time, may be *)
(* closed at any step, and the server's answers may be lost.  What a tab   *)
(* read of a database it goes on with, whatever becomes of it: the record  *)
(* it stored, the list of instances, the snapshot.  An instance has one    *)
(* image.  The attempt an answer is kept under is named after the tab that *)
(* drew it.                                                                *)
(***************************************************************************)
EXTENDS Integers, FiniteSets

CONSTANTS
    Tab,
    Request,        \* issuance requests, drawn by the browser
    Instance,       \* instances, drawn by the server
    None

ASSUME CardAssumption ==
    /\ None \notin Tab \cup Request \cup Instance
    /\ "ready" \notin Tab \cup {None}

VARIABLES
    mapping,    \* server: the instance every request was answered with
    open,       \* server: the instance that waits for an answer
    request,    \* issuance_requests
    current,    \* device_meta.activeRequestId
    stored,     \* issued_instances: None, "ready", or the attempt that answered
    image,      \* asset_descriptors.offlineReady
    bytes,      \* Cache Storage: bytes with the pinned checksum are there
    outbox,     \* the attempt kept for every instance
    pc,         \* where every tab is
    asked,      \* its request
    target,     \* its instance
    noted,      \* the state of the record that its transaction returned
    rest,       \* what it has still to look at
    hides,      \* what the snapshot it read excludes
    seen,       \* history: those of them with an answer when it began to look
    kept,       \* history: those it could have shown ever since
    prepared    \* history: instances reported ready, their images not lost since

server  == <<mapping, open>>
replica == <<request, current, stored, image, bytes, outbox>>
looking == <<rest, hides, seen, kept>>
tab     == <<pc, asked, target, noted, looking>>
vars    == <<server, replica, tab, prepared>>

Init ==
    /\ mapping = [q \in Request |-> None] /\ open = None
    /\ request = [q \in Request |-> None] /\ current = None
    /\ stored = [i \in Instance |-> None]
    /\ image = [i \in Instance |-> FALSE] /\ bytes = [i \in Instance |-> FALSE]
    /\ outbox = [i \in Instance |-> None]
    /\ pc = [t \in Tab |-> "idle"]
    /\ asked = [t \in Tab |-> None] /\ target = [t \in Tab |-> None]
    /\ noted = [t \in Tab |-> None]
    /\ rest = [t \in Tab |-> {}] /\ hides = [t \in Tab |-> {}]
    /\ seen = [t \in Tab |-> {}] /\ kept = [t \in Tab |-> {}]
    /\ prepared = {}

Goes(t, from, to) == pc[t] = from /\ pc' = [pc EXCEPT ![t] = to]

(* A tab that ends forgets everything.                                     *)
Ends(t) ==
    /\ pc' = [pc EXCEPT ![t] = "idle"]
    /\ asked' = [asked EXCEPT ![t] = None] /\ target' = [target EXCEPT ![t] = None]
    /\ noted' = [noted EXCEPT ![t] = None]
    /\ rest' = [rest EXCEPT ![t] = {}] /\ hides' = [hides EXCEPT ![t] = {}]
    /\ seen' = [seen EXCEPT ![t] = {}] /\ kept' = [kept EXCEPT ![t] = {}]

-----------------------------------------------------------------------------
(* The server: the transactions of ObjectiveAuthority, seen from here.     *)

Issued == {mapping[q] : q \in Request} \ {None}

(* The instance is answered, on any device, or its opportunity expires.    *)
Retire ==
    /\ open # None /\ open' = None
    /\ UNCHANGED <<mapping, replica, tab, prepared>>

-----------------------------------------------------------------------------
(* Preparing.                                                              *)

Prepare_Always(t) ==
    /\ Goes(t, "idle", "post")
    /\ \E q \in Request :
          /\ request[q] = None
          /\ request' = [request EXCEPT ![q] = "pending"]
          /\ current' = q /\ asked' = [asked EXCEPT ![t] = q]
    /\ UNCHANGED <<server, stored, image, bytes, outbox, target, noted, looking, prepared>>

(* A pending request is asked again; it may have been answered already.    *)
Prepare(t) ==
    /\ Goes(t, "idle", "post")
    /\ IF current # None /\ request[current] = "pending"
       THEN /\ asked' = [asked EXCEPT ![t] = current]
            /\ UNCHANGED <<request, current>>
       ELSE \E q \in Request :
                /\ request[q] = None
                /\ request' = [request EXCEPT ![q] = "pending"]
                /\ current' = q /\ asked' = [asked EXCEPT ![t] = q]
    /\ UNCHANGED <<server, stored, image, bytes, outbox, target, noted, looking, prepared>>

(* The route looks the request up before it asks whether it may issue.     *)
Recover(t) ==
    /\ pc[t] = "post" /\ mapping[asked[t]] # None
    /\ Goes(t, "post", "persist")
    /\ target' = [target EXCEPT ![t] = mapping[asked[t]]]
    /\ UNCHANGED <<server, replica, asked, noted, looking, prepared>>

NotRecovered(t) ==
    /\ pc[t] = "post" /\ mapping[asked[t]] = None
    /\ Goes(t, "post", "create")
    /\ UNCHANGED <<server, replica, asked, target, noted, looking, prepared>>

(* One transaction: a request is mapped once, to the open instance if      *)
(* there is one.  Its answer may be lost.                                  *)
Create(t) ==
    /\ pc[t] = "create"
    /\ LET q == asked[t] IN
       \E i \in IF mapping[q] # None THEN {mapping[q]}
                ELSE IF open # None THEN {open} ELSE Instance \ Issued :
          /\ mapping' = [mapping EXCEPT ![q] = i]
          /\ open' = IF mapping[q] # None THEN open ELSE i
          /\ \/ /\ Goes(t, "create", "persist")
                /\ target' = [target EXCEPT ![t] = i]
                /\ UNCHANGED <<asked, noted, looking>>
             \/ Ends(t)
    /\ UNCHANGED <<replica, prepared>>

(* Issuing is off, the scope is not eligible, or the candidate cannot be   *)
(* built: the request is looked up once more, and its answer may be lost.  *)
NotCreated(t) ==
    /\ \/ /\ pc[t] = "create" /\ mapping[asked[t]] # None
          /\ Goes(t, "create", "persist")
          /\ target' = [target EXCEPT ![t] = mapping[asked[t]]]
          /\ UNCHANGED <<asked, noted, looking>>
       \/ pc[t] \in {"post", "create"} /\ Ends(t)
    /\ UNCHANGED <<server, replica, prepared>>

(* One transaction; an instance that is stored is kept as it is.  The      *)
(* record it returns is what the tab goes by from here on.                 *)
Persist(t) ==
    LET i == target[t] IN
    /\ pc[t] = "persist" /\ request[asked[t]] \in {"pending", i, None}
    /\ Goes(t, "persist", "download")
    /\ stored' = [stored EXCEPT ![i] = IF @ = None THEN "ready" ELSE @]
    /\ noted' = [noted EXCEPT ![t] = stored'[i]]
    /\ request' = [request EXCEPT ![asked[t]] = i]
    /\ UNCHANGED <<server, current, image, bytes, outbox, asked, target, looking, prepared>>

(* Only bytes with the pinned checksum are stored.                         *)
Download(t) ==
    /\ Goes(t, "download", "mark")
    /\ bytes' = [bytes EXCEPT ![target[t]] = TRUE]
    /\ UNCHANGED <<server, request, current, stored, image, outbox,
                   asked, target, noted, looking, prepared>>

MarkImage(t) ==
    /\ Goes(t, "mark", "verify")
    /\ image' = [image EXCEPT ![target[t]] = TRUE]
    /\ UNCHANGED <<server, request, current, stored, bytes, outbox,
                   asked, target, noted, looking, prepared>>

Renderable(i) == image[i] /\ bytes[i]

Report_Unchecked(t) ==
    /\ pc[t] = "verify" /\ Ends(t)
    /\ prepared' = IF noted[t] = "ready" THEN prepared \cup {target[t]} ELSE prepared
    /\ UNCHANGED <<server, replica>>

(* The image is verified, and the card reported ready, or answered already,*)
(* by the record that was stored before the image was asked for; nothing   *)
(* is read again before the report is shown.                               *)
Report(t) ==
    /\ pc[t] = "verify" /\ Ends(t)
    /\ prepared' = IF Renderable(target[t]) /\ noted[t] = "ready"
                   THEN prepared \cup {target[t]} ELSE prepared
    /\ UNCHANGED <<server, replica>>

-----------------------------------------------------------------------------
(* Opening a card.                                                         *)

Look(t) ==
    /\ Goes(t, "idle", "snapshot")
    /\ rest' = [rest EXCEPT ![t] = {i \in Instance : stored[i] = "ready"}]
    /\ seen' = [seen EXCEPT ![t] = {i \in Instance : stored[i] = "ready" /\ outbox[i] # None}]
    /\ kept' = [kept EXCEPT ![t] = {i \in Instance : stored[i] = "ready" /\ outbox[i] = None
                                                    /\ Renderable(i)}]
    /\ UNCHANGED <<server, replica, asked, target, noted, hides, prepared>>

(* The replica of the snapshot is read once: it may have been replaced     *)
(* any number of times, and may exclude anything that was issued; one that *)
(* is missing or damaged excludes nothing.                                 *)
ReadSnapshot(t) ==
    /\ Goes(t, "snapshot", "look")
    /\ \E excluded \in SUBSET (Issued \cap rest[t]) :
          /\ hides' = [hides EXCEPT ![t] = excluded]
          /\ kept' = [kept EXCEPT ![t] = @ \ excluded]
    /\ UNCHANGED <<server, replica, asked, target, noted, rest, seen, prepared>>

(* The records come in the order of their random identities.               *)
Take(t) ==
    /\ Goes(t, "look", "find")
    /\ \E i \in rest[t] :
          /\ target' = [target EXCEPT ![t] = i]
          /\ rest' = [rest EXCEPT ![t] = @ \ {i}]
    /\ UNCHANGED <<server, replica, asked, noted, hides, seen, kept, prepared>>

(* The page says that nothing is prepared.                                 *)
NothingLeft(t) ==
    /\ pc[t] = "look" /\ rest[t] = {} /\ Ends(t)
    /\ UNCHANGED <<server, replica, prepared>>

(* The outbox is asked first, then the snapshot.                           *)
Find(t) ==
    /\ pc[t] = "find"
    /\ \/ outbox[target[t]] # None /\ Goes(t, "find", "reconcile")
       \/ /\ outbox[target[t]] = None /\ target[t] \in hides[t]
          /\ Goes(t, "find", "look")
       \/ /\ outbox[target[t]] = None /\ target[t] \notin hides[t]
          /\ Goes(t, "find", "check")
    /\ UNCHANGED <<server, replica, asked, target, noted, looking, prepared>>

Marked_Own(t, i) == stored' = [stored EXCEPT ![i] = IF @ = "ready" THEN t ELSE @]

(* markOfflineInstanceAnswered: with the attempt the outbox has.           *)
Marked(t, i) == stored' = [stored EXCEPT ![i] = IF @ = "ready" THEN outbox[i] ELSE @]

Reconcile(t) ==
    /\ Goes(t, "reconcile", "look")
    /\ \/ Marked(t, target[t])
       \/ UNCHANGED stored       \* the marker cannot be written
    /\ UNCHANGED <<server, request, current, image, bytes, outbox,
                   asked, target, noted, looking, prepared>>

Check_Last(t) ==
    /\ pc[t] = "check"
    /\ \/ Renderable(target[t]) /\ Goes(t, "check", "read") /\ UNCHANGED rest
       \/ ~Renderable(target[t]) /\ Goes(t, "check", "look") /\ rest' = [rest EXCEPT ![t] = {}]
    /\ UNCHANGED <<server, replica, asked, target, noted, hides, seen, kept, prepared>>

Check(t) ==
    /\ pc[t] = "check"
    /\ \/ Renderable(target[t]) /\ Goes(t, "check", "read")
       \/ ~Renderable(target[t]) /\ Goes(t, "check", "look")
    /\ UNCHANGED <<server, replica, asked, target, noted, looking, prepared>>

(* What is shown are the bytes that were just verified; with that the      *)
(* load has ended.                                                         *)
Show(t) ==
    /\ pc[t] = "read"
    /\ \/ /\ bytes[target[t]] /\ Goes(t, "read", "shown")
          /\ rest' = [rest EXCEPT ![t] = {}] /\ hides' = [hides EXCEPT ![t] = {}]
          /\ kept' = [kept EXCEPT ![t] = {}]
       \/ /\ ~bytes[target[t]] /\ Goes(t, "read", "look")
          /\ UNCHANGED <<rest, hides, kept>>
    /\ UNCHANGED <<server, replica, asked, target, noted, seen, prepared>>

(* The answer: the outbox first, the marker after.  The outbox takes one   *)
(* answer for an instance; with another tab's the card reports an error.   *)
Commit(t) ==
    /\ pc[t] = "shown" /\ outbox[target[t]] = None
    /\ Goes(t, "shown", "committed")
    /\ outbox' = [outbox EXCEPT ![target[t]] = t]
    /\ kept' = [u \in Tab |-> kept[u] \ {target[t]}]
    /\ UNCHANGED <<server, request, current, stored, image, bytes,
                   asked, target, noted, rest, hides, seen, prepared>>

MarkAnswered(t) ==
    /\ pc[t] = "committed" /\ Ends(t)
    /\ Marked(t, target[t])
    /\ UNCHANGED <<server, request, current, image, bytes, outbox, prepared>>

-----------------------------------------------------------------------------
(* Faults.                                                                 *)

Close(t) ==
    /\ pc[t] # "idle" /\ Ends(t)
    /\ UNCHANGED <<server, replica, prepared>>

(* Bytes are evicted, or damaged: they fail their checksum.                *)
LoseBytes(i) ==
    /\ bytes[i]
    /\ bytes' = [bytes EXCEPT ![i] = FALSE]
    /\ kept' = [u \in Tab |-> kept[u] \ {i}] /\ prepared' = prepared \ {i}
    /\ UNCHANGED <<server, request, current, stored, image, outbox,
                   pc, asked, target, noted, rest, hides, seen>>

Next ==
    \/ Retire
    \/ \E i \in Instance : LoseBytes(i)
    \/ \E t \in Tab :
          \/ Prepare(t) \/ Recover(t) \/ NotRecovered(t) \/ Create(t) \/ NotCreated(t)
          \/ Persist(t) \/ Download(t) \/ MarkImage(t) \/ Report(t)
          \/ Look(t) \/ ReadSnapshot(t) \/ Take(t) \/ NothingLeft(t) \/ Find(t) \/ Reconcile(t)
          \/ Check(t) \/ Show(t) \/ Commit(t) \/ MarkAnswered(t) \/ Close(t)

Spec == Init /\ [][Next]_vars

-----------------------------------------------------------------------------
Preparing == {"post", "create", "persist", "download", "mark", "verify"}
Opening   == {"snapshot", "look", "find", "reconcile", "check", "read", "shown", "committed"}

(* Type invariant.                                                         *)
CardTypeOK ==
    /\ mapping \in [Request -> Instance \cup {None}]
    /\ open \in Issued \cup {None}
    /\ request \in [Request -> Instance \cup {"pending", None}]
    /\ current \in Request \cup {None}
    /\ stored \in [Instance -> Tab \cup {"ready", None}]
    /\ image \in [Instance -> BOOLEAN]
    /\ bytes \in [Instance -> BOOLEAN]
    /\ outbox \in [Instance -> Tab \cup {None}]
    /\ pc \in [Tab -> {"idle"} \cup Preparing \cup Opening]
    /\ asked \in [Tab -> Request \cup {None}]
    /\ target \in [Tab -> Instance \cup {None}]
    /\ noted \in [Tab -> Tab \cup {"ready", None}]
    /\ rest \in [Tab -> SUBSET Instance] /\ hides \in [Tab -> SUBSET Instance]
    /\ seen \in [Tab -> SUBSET Instance] /\ kept \in [Tab -> SUBSET Instance]
    /\ prepared \subseteq Instance

(* Whatever the server issued on a request of this browser is either in    *)
(* the browser or behind the one request it will ask again: a lost answer, *)
(* a closed tab or a second tab never strands an issued instance           *)
(* (prepareOfflinePrefetchRequest: a pending request survives reloads).    *)
NothingIsStranded ==
    \A q \in Request : mapping[q] # None =>
       \/ request[q] = mapping[q] /\ stored[mapping[q]] # None
       \/ request[q] = "pending" /\ current = q

(* The marker never leads the outbox and never names another attempt.      *)
MarkerFollowsOutbox ==
    \A i \in Instance : stored[i] \in Tab => outbox[i] = stored[i]

(* An instance that has an answer when a tab opens is not offered by that  *)
(* tab, although the marker may be missing: the outbox decides.            *)
AnsweredIsNotOffered ==
    \A t \in Tab : pc[t] \in {"shown", "committed"} => target[t] \notin seen[t]

(* What a page reports of a card is true, although it goes by a record     *)
(* that is old by then: while the image was loaded another tab may have    *)
(* answered.  A card reported ready has its image until the browser loses  *)
(* it, and either waits for its answer or has it in the outbox, where a    *)
(* tab that opens finds it; a card reported answered has its answer there  *)
(* (prefetchPilotOfflineInstance; OfflinePrefetchControl: prepare).        *)
ReportsAreTrue ==
    /\ \A i \in prepared : Renderable(i) /\ (stored[i] = "ready" \/ outbox[i] # None)
    /\ \A t \in Tab : pc[t] \in {"download", "mark", "verify"} /\ noted[t] # "ready" =>
          outbox[target[t]] = noted[t]

(* A page says that nothing is prepared only if nothing was: a card that   *)
(* was ready when it began to look, and that has been unanswered, in scope *)
(* and with its image ever since, is not passed over, whatever fails of    *)
(* the others on the way (OfflineKuzushijiReview: load).                   *)
NoneIsOverlooked ==
    \A t \in Tab : pc[t] = "look" /\ rest[t] = {} => kept[t] = {}

(* What a tab may rely on between its steps.  The request it asked on is   *)
(* the one the browser will ask again, until the server answers it, and    *)
(* what it prepares is that answer; it noted the record of an instance     *)
(* that is stored; what it reconciles or has answered has an answer in the *)
(* outbox; what it checks or reads had none when it began to look.         *)
TabSound(t) ==
    /\ pc[t] \in Preparing =>
          /\ asked[t] \in Request
          /\ mapping[asked[t]] = None => request[asked[t]] = "pending" /\ current = asked[t]
    /\ pc[t] \in Preparing \ {"post", "create"} =>
          target[t] = mapping[asked[t]] /\ target[t] # None
    /\ pc[t] \in {"download", "mark", "verify"} =>
          noted[t] # None /\ stored[target[t]] # None
    /\ pc[t] \in Opening \ {"snapshot", "look"} => target[t] \in Instance
    /\ pc[t] \in {"reconcile", "committed"} => outbox[target[t]] # None
    /\ pc[t] \in {"check", "read", "shown", "committed"} => target[t] \notin seen[t]
    /\ \A i \in seen[t] : outbox[i] # None

(* What a tab could have shown ever since it began to look can be shown    *)
(* still, and is still before it.                                          *)
StillAhead(t) ==
    /\ \A i \in kept[t] : outbox[i] = None /\ Renderable(i)
    /\ pc[t] \in {"idle"} \cup Preparing => kept[t] = {}
    /\ pc[t] \in {"snapshot", "look", "reconcile"} => kept[t] \subseteq rest[t]
    /\ pc[t] \in {"find", "check", "read"} => kept[t] \subseteq rest[t] \cup {target[t]}
    /\ pc[t] # "snapshot" => kept[t] \cap hides[t] = {}

(* The five together, with what makes them inductive.                      *)
CardInvariant ==
    /\ CardTypeOK
    /\ \A t \in Tab : TabSound(t) /\ StillAhead(t)
    /\ NothingIsStranded /\ MarkerFollowsOutbox /\ AnsweredIsNotOffered
    /\ ReportsAreTrue /\ NoneIsOverlooked
=============================================================================
