-------------------------- MODULE OfflineCardProofs --------------------------
(***************************************************************************)
(* Proofs about the offline cards, for any number of tabs, requests and    *)
(* instances.                                                              *)
(*                                                                         *)
(* The argument: nothing the tabs rely on is taken back.  The server       *)
(* answers a request once and the outbox takes an answer once; a request   *)
(* stays the one to ask again until it is answered; a stored instance      *)
(* stays stored; what a tab could have shown ever since it began to look   *)
(* has no answer and has its image (WorldKeeps).  So what a tab knew at    *)
(* its last step still holds at its next, whatever the other tabs did and  *)
(* however long it took: a record that is old says "ready" of an instance  *)
(* that is ready or in the outbox, and never names a wrong answer.         *)
(***************************************************************************)
EXTENDS OfflineCard, TLAPS

TabStep(t) ==
    \/ Prepare(t) \/ Recover(t) \/ NotRecovered(t) \/ Create(t) \/ NotCreated(t)
    \/ Persist(t) \/ Download(t) \/ MarkImage(t) \/ Report(t)
    \/ Look(t) \/ ReadSnapshot(t) \/ Take(t) \/ NothingLeft(t) \/ Find(t) \/ Reconcile(t)
    \/ Check(t) \/ Show(t) \/ Commit(t) \/ MarkAnswered(t) \/ Close(t)

(* A step of a tab moves that tab only, but that an answer takes its card  *)
(* from what the others could show.                                        *)
Alone(t) ==
    /\ pc' = [pc EXCEPT ![t] = pc'[t]]
    /\ asked' = [asked EXCEPT ![t] = asked'[t]]
    /\ target' = [target EXCEPT ![t] = target'[t]]
    /\ noted' = [noted EXCEPT ![t] = noted'[t]]
    /\ rest' = [rest EXCEPT ![t] = rest'[t]] /\ hides' = [hides EXCEPT ![t] = hides'[t]]
    /\ seen' = [seen EXCEPT ![t] = seen'[t]]
    /\ \A u \in Tab \ {t} : kept'[u] \subseteq kept[u]

(* What no step of anybody takes back.                                     *)
WorldKeeps ==
    /\ \A q \in Request : mapping[q] # None => mapping'[q] = mapping[q]
    /\ \A i \in Instance : outbox[i] # None => outbox'[i] = outbox[i]
    /\ \A i \in Instance : stored[i] # None => stored'[i] # None
    /\ \A q \in Request :
          mapping'[q] = None /\ request[q] = "pending" /\ current = q =>
              request'[q] = "pending" /\ current' = q
    /\ \A u \in Tab : \A i \in kept[u] \cap kept'[u] :
          outbox'[i] = None /\ Renderable(i)'

LEMMA IssuedAreInstances == CardTypeOK => Issued \subseteq Instance
BY DEF CardTypeOK, Issued

LEMMA TabAlone ==
    ASSUME CardTypeOK, NEW t \in Tab, TabStep(t)
    PROVE  Alone(t)
<1>1. ASSUME NEW f, NEW S, f \in [Tab -> S] PROVE f = [f EXCEPT ![t] = f[t]]
  BY <1>1
<1>2. /\ pc = [pc EXCEPT ![t] = pc[t]] /\ asked = [asked EXCEPT ![t] = asked[t]]
      /\ target = [target EXCEPT ![t] = target[t]] /\ noted = [noted EXCEPT ![t] = noted[t]]
      /\ rest = [rest EXCEPT ![t] = rest[t]] /\ hides = [hides EXCEPT ![t] = hides[t]]
      /\ seen = [seen EXCEPT ![t] = seen[t]]
  BY <1>1 DEF CardTypeOK
<1>3. /\ pc \in [Tab -> {"idle"} \cup Preparing \cup Opening]
      /\ asked \in [Tab -> Request \cup {None}] /\ target \in [Tab -> Instance \cup {None}]
      /\ noted \in [Tab -> Tab \cup {"ready", None}]
      /\ rest \in [Tab -> SUBSET Instance] /\ hides \in [Tab -> SUBSET Instance]
      /\ seen \in [Tab -> SUBSET Instance] /\ kept \in [Tab -> SUBSET Instance]
  BY DEF CardTypeOK
<1>4. ASSUME Ends(t) PROVE Alone(t)
  BY <1>3, <1>4 DEF Ends, Alone
<1>5. CASE Prepare(t)
  BY <1>2, <1>3, <1>5 DEF Prepare, Goes, Alone, looking
<1>6. CASE Recover(t) \/ NotRecovered(t)
  BY <1>2, <1>3, <1>6 DEF Recover, NotRecovered, Goes, Alone, looking
<1>7. CASE Create(t)
  BY <1>2, <1>3, <1>4, <1>7 DEF Create, Goes, Alone, looking
<1>8. CASE NotCreated(t)
  BY <1>2, <1>3, <1>4, <1>8 DEF NotCreated, Goes, Alone, looking
<1>9. CASE Persist(t) \/ Download(t) \/ MarkImage(t)
  BY <1>2, <1>3, <1>9 DEF Persist, Download, MarkImage, Goes, Alone, looking
<1>10. CASE Report(t) \/ NothingLeft(t) \/ MarkAnswered(t) \/ Close(t)
  BY <1>4, <1>10 DEF Report, NothingLeft, MarkAnswered, Close
<1>11. CASE Look(t) \/ ReadSnapshot(t) \/ Take(t)
  BY <1>2, <1>3, <1>11 DEF Look, ReadSnapshot, Take, Goes, Alone
<1>12. CASE Find(t) \/ Check(t)
  BY <1>2, <1>3, <1>12 DEF Find, Check, Goes, Alone, looking
<1>13. CASE Show(t)
  BY <1>2, <1>3, <1>13 DEF Show, Goes, Alone
<1>14. CASE Reconcile(t) \/ Commit(t)
  BY <1>2, <1>3, <1>14 DEF Reconcile, Commit, Goes, Alone, looking
<1> QED
  BY <1>5, <1>6, <1>7, <1>8, <1>9, <1>10, <1>11, <1>12, <1>13, <1>14 DEF TabStep

(* No step takes back an answer of the server, an answer of the outbox, a  *)
(* stored instance or the request that is still to be answered.            *)
LEMMA NothingTakenBack ==
    ASSUME CardInvariant, Next
    PROVE  WorldKeeps
<1> DEFINE Answers == /\ \A q \in Request : mapping[q] # None => mapping'[q] = mapping[q]
                      /\ \A i \in Instance : outbox[i] # None => outbox'[i] = outbox[i]
                      /\ \A i \in Instance : stored[i] # None => stored'[i] # None
                      /\ \A q \in Request :
                            mapping'[q] = None /\ request[q] = "pending" /\ current = q =>
                                request'[q] = "pending" /\ current' = q
           Kept == \A u \in Tab : \A i \in kept[u] \cap kept'[u] :
                      outbox'[i] = None /\ image'[i] /\ bytes'[i]
<1>1. /\ mapping \in [Request -> Instance \cup {None}]
      /\ outbox \in [Instance -> Tab \cup {None}]
      /\ stored \in [Instance -> Tab \cup {"ready", None}]
      /\ request \in [Request -> Instance \cup {"pending", None}]
      /\ current \in Request \cup {None}
      /\ image \in [Instance -> BOOLEAN] /\ bytes \in [Instance -> BOOLEAN]
      /\ target \in [Tab -> Instance \cup {None}]
      /\ kept \in [Tab -> SUBSET Instance]
      /\ None \notin Request /\ None \notin Instance /\ None \notin Tab
      /\ \A u \in Tab : \A i \in kept[u] : outbox[i] = None /\ image[i] /\ bytes[i]
      /\ \A t \in Tab : TabSound(t)
  BY CardAssumption DEF CardInvariant, CardTypeOK, StillAhead, Renderable
<1>2. Answers
  <2>1. CASE Retire \/ \E i \in Instance : LoseBytes(i)
    BY <2>1 DEF Retire, LoseBytes, replica, server
  <2>2. ASSUME NEW t \in Tab, TabStep(t) PROVE Answers
    <3>1. TabSound(t)
      BY <1>1
    <3>2. CASE Prepare(t)
      BY <1>1, <3>2 DEF Prepare, server
    <3>3. CASE Create(t)
      <4>1. asked[t] \in Request
        BY <3>1, <3>3 DEF Create, TabSound, Preparing
      <4> QED
        BY <1>1, <3>3, <4>1 DEF Create, replica
    <3>4. CASE Persist(t)
      <4>1. /\ asked[t] \in Request /\ target[t] = mapping[asked[t]] /\ target[t] # None
            /\ target[t] \in Instance
        BY <1>1, <3>1, <3>4 DEF Persist, TabSound, Preparing
      <4> QED
        BY <1>1, <3>4, <4>1 DEF Persist, server
    <3>5. CASE Reconcile(t) \/ MarkAnswered(t)
      <4>1. pc[t] \in {"reconcile", "committed"}
        BY <3>5 DEF Reconcile, MarkAnswered, Goes
      <4>2. target[t] \in Instance /\ outbox[target[t]] # None
        BY <3>1, <4>1 DEF TabSound, Opening
      <4> QED
        BY <1>1, <3>5, <4>2 DEF Reconcile, MarkAnswered, Marked, server
    <3>6. CASE Commit(t)
      BY <1>1, <3>6 DEF Commit, server
    <3>7. CASE \/ Recover(t) \/ NotRecovered(t) \/ NotCreated(t) \/ Download(t)
               \/ MarkImage(t) \/ Report(t) \/ Look(t) \/ ReadSnapshot(t) \/ Take(t)
               \/ NothingLeft(t) \/ Find(t) \/ Check(t) \/ Show(t) \/ Close(t)
      BY <3>7 DEF Recover, NotRecovered, NotCreated, Download, MarkImage, Report, Look,
                  ReadSnapshot, Take, NothingLeft, Find, Check, Show, Close, server, replica
    <3> QED
      BY <2>2, <3>2, <3>3, <3>4, <3>5, <3>6, <3>7 DEF TabStep
  <2> QED
    BY <2>1, <2>2 DEF Next, TabStep
<1>3. Kept
  <2>1. CASE UNCHANGED <<outbox, image, bytes>>
    BY <1>1, <2>1
  <2>2. ASSUME NEW t \in Tab, Download(t) \/ MarkImage(t) PROVE Kept
    BY <1>1, <2>2 DEF Download, MarkImage, looking
  <2>3. ASSUME NEW t \in Tab, Commit(t) PROVE Kept
    BY <1>1, <2>3 DEF Commit
  <2>4. ASSUME NEW i \in Instance, LoseBytes(i) PROVE Kept
    BY <1>1, <2>4 DEF LoseBytes
  <2>5. \/ UNCHANGED <<outbox, image, bytes>>
        \/ \E t \in Tab : Download(t) \/ MarkImage(t) \/ Commit(t)
        \/ \E i \in Instance : LoseBytes(i)
    BY DEF Next, Retire, Prepare, Recover, NotRecovered, Create, NotCreated, Persist, Report, Look,
           ReadSnapshot, Take, NothingLeft, Find, Reconcile, Check, Show, MarkAnswered, Close, replica
  <2> QED
    BY <2>1, <2>2, <2>3, <2>4, <2>5
<1> QED
  BY <1>2, <1>3 DEF WorldKeeps, Renderable

(* A tab that does not step stays sound.                                   *)
LEMMA OtherTabs ==
    ASSUME CardInvariant, WorldKeeps, NEW u \in Tab,
           pc'[u] = pc[u], asked'[u] = asked[u], target'[u] = target[u], noted'[u] = noted[u],
           rest'[u] = rest[u], hides'[u] = hides[u], seen'[u] = seen[u], kept'[u] \subseteq kept[u]
    PROVE  TabSound(u)' /\ StillAhead(u)'
<1>1. TabSound(u) /\ StillAhead(u) /\ CardTypeOK /\ None \notin Instance
  BY CardAssumption DEF CardInvariant
<1>2. pc[u] \in Preparing =>
          /\ asked[u] \in Request
          /\ mapping'[asked[u]] = None => request'[asked[u]] = "pending" /\ current' = asked[u]
  BY <1>1 DEF TabSound, WorldKeeps
<1>3. pc[u] \in Preparing \ {"post", "create"} => target[u] = mapping'[asked[u]]
  BY <1>1 DEF TabSound, WorldKeeps
<1>4. pc[u] \in {"download", "mark", "verify"} => stored'[target[u]] # None
  BY <1>1 DEF TabSound, WorldKeeps, Preparing, CardTypeOK
<1>5. pc[u] \in {"reconcile", "committed"} => outbox'[target[u]] # None
  BY <1>1 DEF TabSound, WorldKeeps, Opening
<1>6. \A i \in seen[u] : outbox'[i] # None
  BY <1>1 DEF TabSound, WorldKeeps, CardTypeOK
<1>7. TabSound(u)'
  BY <1>1, <1>2, <1>3, <1>4, <1>5, <1>6 DEF TabSound
<1>8. \A i \in kept'[u] : outbox'[i] = None /\ Renderable(i)'
  BY DEF WorldKeeps
<1>9. StillAhead(u)'
  BY <1>1, <1>8 DEF StillAhead
<1> QED
  BY <1>7, <1>9

(* The tab that steps is sound after its step.                             *)
LEMMA OwnStep ==
    ASSUME CardInvariant, WorldKeeps, NEW t \in Tab, TabStep(t)
    PROVE  TabSound(t)'
<1>1. /\ TabSound(t)
      /\ pc \in [Tab -> {"idle"} \cup Preparing \cup Opening]
      /\ asked \in [Tab -> Request \cup {None}] /\ target \in [Tab -> Instance \cup {None}]
      /\ noted \in [Tab -> Tab \cup {"ready", None}]
      /\ rest \in [Tab -> SUBSET Instance] /\ seen \in [Tab -> SUBSET Instance]
      /\ stored \in [Instance -> Tab \cup {"ready", None}]
      /\ mapping \in [Request -> Instance \cup {None}]
      /\ outbox \in [Instance -> Tab \cup {None}]
      /\ None \notin Request /\ None \notin Instance /\ None \notin Tab
  BY CardAssumption DEF CardInvariant, CardTypeOK
<1>2. \A i \in seen[t] : outbox'[i] # None
  BY <1>1 DEF TabSound, WorldKeeps
<1>3. ASSUME Ends(t) PROVE TabSound(t)'
  BY <1>1, <1>3 DEF Ends, TabSound, Preparing, Opening
<1>4. CASE Prepare(t)
  <2>1. pc'[t] = "post" /\ seen'[t] = seen[t]
    BY <1>1, <1>4 DEF Prepare, Goes, looking
  <2>2. asked'[t] \in Request /\ current' = asked'[t] /\ request'[asked'[t]] = "pending"
    <3>1. current \in Request \cup {None} /\ request \in [Request -> Instance \cup {"pending", None}]
      BY DEF CardInvariant, CardTypeOK
    <3> QED
      BY <1>1, <1>4, <3>1 DEF Prepare
  <2> QED
    BY <1>2, <2>1, <2>2 DEF TabSound, Preparing, Opening
<1>5. ASSUME pc[t] \in {"post", "create"}, pc'[t] = "persist", mapping'[asked[t]] # None,
             target'[t] = mapping'[asked[t]], asked'[t] = asked[t], seen'[t] = seen[t]
      PROVE  TabSound(t)'
  BY <1>1, <1>2, <1>5 DEF TabSound, Preparing, Opening
<1>6. CASE Recover(t)
  BY <1>1, <1>5, <1>6 DEF Recover, Goes, server, looking
<1>7. CASE NotRecovered(t)
  BY <1>1, <1>2, <1>7 DEF NotRecovered, Goes, TabSound, Preparing, Opening, server, replica, looking
<1>8. CASE Create(t)
  <2>1. asked[t] \in Request
    BY <1>1, <1>8 DEF Create, TabSound, Preparing
  <2>2. open \in Instance \cup {None}
    BY IssuedAreInstances DEF CardInvariant, CardTypeOK
  <2>3. \/ Ends(t)
        \/ \E i \in Instance : /\ mapping' = [mapping EXCEPT ![asked[t]] = i]
                               /\ Goes(t, "create", "persist")
                               /\ target' = [target EXCEPT ![t] = i]
                               /\ UNCHANGED <<asked, seen>>
    BY <1>1, <1>8, <2>1, <2>2 DEF Create, looking
  <2> QED
    BY <1>1, <1>3, <1>5, <2>1, <2>3 DEF Goes
<1>9. CASE NotCreated(t)
  BY <1>1, <1>3, <1>5, <1>9 DEF NotCreated, Goes, server, looking
<1>10. CASE Persist(t) \/ Download(t) \/ MarkImage(t)
  <2>1. /\ pc[t] \in Preparing \ {"post", "create"} /\ pc'[t] \in Preparing \ {"post", "create"}
        /\ mapping' = mapping /\ asked' = asked /\ target' = target /\ seen' = seen
    BY <1>1, <1>10 DEF Persist, Download, MarkImage, Goes, server, looking, Preparing
  <2>2. target[t] \in Instance
    BY <1>1, <2>1 DEF TabSound, Preparing
  <2>3. noted'[t] # None /\ stored'[target[t]] # None
    <3>1. CASE Persist(t)
      BY <1>1, <2>2, <3>1, CardAssumption DEF Persist
    <3>2. CASE Download(t) \/ MarkImage(t)
      BY <1>1, <3>2 DEF Download, MarkImage, Goes, TabSound
    <3> QED
      BY <1>10, <3>1, <3>2
  <2> QED
    BY <1>1, <1>2, <2>1, <2>3 DEF TabSound, Preparing, Opening
<1>11. CASE Report(t) \/ NothingLeft(t) \/ MarkAnswered(t) \/ Close(t)
  BY <1>3, <1>11 DEF Report, NothingLeft, MarkAnswered, Close
<1>12. CASE Look(t)
  <2>1. /\ pc'[t] = "snapshot" /\ outbox' = outbox
        /\ seen'[t] = {i \in Instance : stored[i] = "ready" /\ outbox[i] # None}
    BY <1>1, <1>12 DEF Look, Goes, replica
  <2> QED
    BY <2>1 DEF TabSound, Preparing, Opening
<1>17. CASE ReadSnapshot(t)
  <2>1. pc'[t] = "look" /\ seen'[t] = seen[t]
    BY <1>1, <1>17 DEF ReadSnapshot, Goes
  <2> QED
    BY <1>2, <2>1 DEF TabSound, Preparing, Opening
<1>13. CASE Take(t)
  <2>1. pc'[t] = "find" /\ target'[t] \in Instance /\ seen'[t] = seen[t]
    BY <1>1, <1>13 DEF Take, Goes
  <2> QED
    BY <1>2, <2>1 DEF TabSound, Preparing, Opening
<1>14. CASE Find(t)
  <2>1. /\ target[t] \in Instance /\ target' = target /\ seen' = seen /\ outbox' = outbox
        /\ \/ outbox[target[t]] # None /\ pc'[t] = "reconcile"
           \/ pc'[t] = "look"
           \/ outbox[target[t]] = None /\ pc'[t] = "check"
    BY <1>1, <1>14 DEF Find, Goes, TabSound, Opening, replica, looking
  <2> QED
    BY <1>1, <1>2, <2>1 DEF TabSound, Preparing, Opening
<1>15. CASE Reconcile(t) \/ Check(t) \/ Show(t)
  <2>1. /\ target' = target /\ seen' = seen
        /\ \/ pc'[t] = "look"
           \/ pc[t] \in {"check", "read"} /\ pc'[t] \in {"read", "shown"}
    BY <1>1, <1>15 DEF Reconcile, Check, Show, Goes, looking
  <2> QED
    BY <1>1, <1>2, <2>1 DEF TabSound, Preparing, Opening
<1>16. CASE Commit(t)
  <2>1. /\ pc[t] = "shown" /\ pc'[t] = "committed" /\ target' = target /\ seen' = seen
        /\ outbox'[target[t]] = t
    BY <1>1, <1>16 DEF Commit, Goes, TabSound, Opening
  <2> QED
    BY <1>1, <1>2, <2>1 DEF TabSound, Preparing, Opening
<1> QED
  BY <1>4, <1>6, <1>7, <1>8, <1>9, <1>10, <1>11, <1>12, <1>13, <1>14, <1>15, <1>16, <1>17 DEF TabStep

(* And has what it could show still before it.                             *)
LEMMA OwnAhead ==
    ASSUME CardInvariant, WorldKeeps, NEW t \in Tab, TabStep(t)
    PROVE  StillAhead(t)'
<1>1. /\ StillAhead(t)
      /\ pc \in [Tab -> {"idle"} \cup Preparing \cup Opening]
      /\ target \in [Tab -> Instance \cup {None}]
      /\ rest \in [Tab -> SUBSET Instance] /\ hides \in [Tab -> SUBSET Instance]
      /\ kept \in [Tab -> SUBSET Instance]
      /\ image \in [Instance -> BOOLEAN] /\ bytes \in [Instance -> BOOLEAN]
  BY DEF CardInvariant, CardTypeOK
<1>2. kept'[t] \subseteq kept[t] => \A i \in kept'[t] : outbox'[i] = None /\ Renderable(i)'
  BY DEF WorldKeeps
<1>3. ASSUME kept'[t] = {} PROVE StillAhead(t)'
  BY <1>3 DEF StillAhead
<1>4. CASE \/ Prepare(t) \/ Recover(t) \/ NotRecovered(t) \/ Create(t) \/ NotCreated(t)
           \/ Persist(t) \/ Download(t) \/ MarkImage(t)
  <2>1. pc[t] \in {"idle"} \cup Preparing
    BY <1>4 DEF Prepare, Recover, NotRecovered, Create, NotCreated, Persist, Download, MarkImage,
                Goes, Preparing
  <2>2. kept'[t] = kept[t] \/ kept'[t] = {}
    BY <1>1, <1>4 DEF Prepare, Recover, NotRecovered, Create, NotCreated, Persist, Download, MarkImage,
                      Ends, looking
  <2> QED
    BY <1>1, <1>3, <2>1, <2>2 DEF StillAhead
<1>5. CASE Report(t) \/ NothingLeft(t) \/ MarkAnswered(t) \/ Close(t)
  <2>1. kept'[t] = {}
    BY <1>1, <1>5 DEF Report, NothingLeft, MarkAnswered, Close, Ends
  <2> QED
    BY <1>3, <2>1
<1>6. CASE Look(t)
  <2>1. /\ pc'[t] = "snapshot" /\ UNCHANGED replica
        /\ rest'[t] = {i \in Instance : stored[i] = "ready"}
        /\ kept'[t] = {i \in Instance : stored[i] = "ready" /\ outbox[i] = None /\ Renderable(i)}
    BY <1>1, <1>6 DEF Look, Goes
  <2> QED
    BY <2>1 DEF StillAhead, Preparing, Renderable, replica
<1>7. CASE ReadSnapshot(t)
  <2>1. /\ pc[t] = "snapshot" /\ pc'[t] = "look" /\ rest' = rest
        /\ kept'[t] = kept[t] \ hides'[t]
    BY <1>1, <1>7 DEF ReadSnapshot, Goes
  <2> QED
    BY <1>1, <1>2, <2>1 DEF StillAhead, Preparing
<1>8. CASE Take(t)
  <2>1. /\ pc[t] = "look" /\ pc'[t] = "find" /\ hides' = hides /\ kept' = kept
        /\ rest[t] \subseteq rest'[t] \cup {target'[t]}
    BY <1>1, <1>8 DEF Take, Goes
  <2> QED
    BY <1>1, <1>2, <2>1 DEF StillAhead, Preparing
<1>9. CASE Find(t)
  <2>1. /\ pc[t] = "find" /\ UNCHANGED <<rest, hides, kept, target>>
        /\ \/ pc'[t] \in {"reconcile", "look"} /\ (outbox[target[t]] # None \/ target[t] \in hides[t])
           \/ pc'[t] = "check"
    BY <1>1, <1>9 DEF Find, Goes, looking
  <2>2. pc'[t] \in {"reconcile", "look"} => target[t] \notin kept[t]
    BY <1>1, <2>1 DEF StillAhead
  <2> QED
    BY <1>1, <1>2, <2>1, <2>2 DEF StillAhead, Preparing
<1>10. CASE Reconcile(t)
  <2>1. pc[t] = "reconcile" /\ pc'[t] = "look" /\ UNCHANGED <<rest, hides, kept>>
    BY <1>1, <1>10 DEF Reconcile, Goes, looking
  <2> QED
    BY <1>1, <1>2, <2>1 DEF StillAhead, Preparing
<1>11. CASE Check(t)
  <2>1. /\ pc[t] = "check" /\ UNCHANGED <<rest, hides, kept, target>>
        /\ \/ pc'[t] = "look" /\ ~Renderable(target[t])
           \/ pc'[t] = "read"
    BY <1>1, <1>11 DEF Check, Goes, looking
  <2>2. pc'[t] = "look" => target[t] \notin kept[t]
    BY <1>1, <2>1 DEF StillAhead
  <2> QED
    BY <1>1, <1>2, <2>1, <2>2 DEF StillAhead, Preparing
<1>12. CASE Show(t)
  <2>1. \/ kept'[t] = {}
        \/ /\ pc[t] = "read" /\ pc'[t] = "look" /\ ~bytes[target[t]]
           /\ UNCHANGED <<rest, hides, kept, target>>
    BY <1>1, <1>12 DEF Show, Goes
  <2>2. CASE kept'[t] # {}
    <3>1. target[t] \notin kept[t]
      BY <1>1, <2>1, <2>2 DEF StillAhead, Renderable
    <3> QED
      BY <1>1, <1>2, <2>1, <2>2, <3>1 DEF StillAhead, Preparing
  <2> QED
    BY <1>3, <2>2
<1>13. CASE Commit(t)
  <2>1. /\ pc[t] = "shown" /\ pc'[t] = "committed" /\ hides' = hides
        /\ kept'[t] \subseteq kept[t]
    BY <1>1, <1>13 DEF Commit, Goes
  <2> QED
    BY <1>1, <1>2, <2>1 DEF StillAhead, Preparing
<1> QED
  BY <1>4, <1>5, <1>6, <1>7, <1>8, <1>9, <1>10, <1>11, <1>12, <1>13 DEF TabStep

-----------------------------------------------------------------------------
(* Types, the variables of the tabs apart from those of the browser.       *)
TabTypes ==
    /\ pc \in [Tab -> {"idle"} \cup Preparing \cup Opening]
    /\ asked \in [Tab -> Request \cup {None}] /\ target \in [Tab -> Instance \cup {None}]
    /\ noted \in [Tab -> Tab \cup {"ready", None}]
    /\ rest \in [Tab -> SUBSET Instance] /\ hides \in [Tab -> SUBSET Instance]
    /\ seen \in [Tab -> SUBSET Instance] /\ kept \in [Tab -> SUBSET Instance]

LEMMA TabTypesStep ==
    ASSUME CardInvariant, NEW t \in Tab, TabStep(t)
    PROVE  TabTypes'
<1>1. TabTypes /\ TabSound(t) /\ mapping \in [Request -> Instance \cup {None}]
  BY DEF CardInvariant, CardTypeOK, TabTypes
<1>2. ASSUME Ends(t) PROVE TabTypes'
  BY <1>1, <1>2 DEF Ends, TabTypes
<1>3. ASSUME NEW to \in Preparing \cup Opening, pc' = [pc EXCEPT ![t] = to],
             UNCHANGED <<asked, target, noted, looking>>
      PROVE  TabTypes'
  BY <1>1, <1>3 DEF TabTypes, looking
<1>4. CASE Prepare(t)
  BY <1>1, <1>4 DEF Prepare, Goes, TabTypes, Preparing, CardInvariant, CardTypeOK, looking
<1>5. CASE Recover(t)
  BY <1>1, <1>5 DEF Recover, Goes, TabTypes, TabSound, Preparing, looking
<1>6. CASE NotRecovered(t) \/ Download(t) \/ MarkImage(t)
  BY <1>3, <1>6 DEF NotRecovered, Download, MarkImage, Goes, Preparing
<1>7. CASE Create(t)
  <2>1. open \in Instance \cup {None} /\ asked[t] \in Request
    BY <1>1, <1>7, IssuedAreInstances DEF CardInvariant, CardTypeOK, Create, TabSound, Preparing
  <2>2. \/ Ends(t)
        \/ \E i \in Instance : /\ Goes(t, "create", "persist")
                               /\ target' = [target EXCEPT ![t] = i]
                               /\ UNCHANGED <<asked, noted, looking>>
    BY <1>1, <1>7, <2>1 DEF Create
  <2> QED
    BY <1>1, <1>2, <2>2 DEF Goes, TabTypes, Preparing, looking
<1>8. CASE NotCreated(t)
  BY <1>1, <1>2, <1>8 DEF NotCreated, Goes, TabTypes, TabSound, Preparing, looking
<1>9. CASE Persist(t)
  <2>1. target[t] \in Instance /\ stored \in [Instance -> Tab \cup {"ready", None}]
    BY <1>1, <1>9 DEF Persist, TabSound, Preparing, CardInvariant, CardTypeOK
  <2>2. stored'[target[t]] \in Tab \cup {"ready", None}
    BY <1>9, <2>1 DEF Persist
  <2> QED
    BY <1>1, <1>9, <2>2 DEF Persist, Goes, TabTypes, Preparing, looking
<1>10. CASE Report(t) \/ NothingLeft(t) \/ MarkAnswered(t) \/ Close(t)
  BY <1>2, <1>10 DEF Report, NothingLeft, MarkAnswered, Close
<1>11. CASE Look(t) \/ ReadSnapshot(t) \/ Take(t) \/ Show(t)
  BY <1>1, <1>11 DEF Look, ReadSnapshot, Take, Show, Goes, TabTypes, Opening
<1>12. CASE Commit(t)
  BY <1>1, <1>12 DEF Commit, Goes, TabTypes, Opening
<1>13. CASE Find(t) \/ Reconcile(t) \/ Check(t)
  BY <1>3, <1>13 DEF Find, Reconcile, Check, Goes, Opening
<1> QED
  BY <1>4, <1>5, <1>6, <1>7, <1>8, <1>9, <1>10, <1>11, <1>12, <1>13 DEF TabStep

(* An instance that waits for its answer was issued and stays issued.      *)
LEMMA OpenStaysIssued ==
    ASSUME CardInvariant, Next
    PROVE  /\ mapping' \in [Request -> Instance \cup {None}]
           /\ open' \in (Issued \cup {None})'
<1>1. /\ mapping \in [Request -> Instance \cup {None}] /\ open \in Issued \cup {None}
      /\ None \notin Request /\ None \notin Instance
  BY CardAssumption DEF CardInvariant, CardTypeOK
<1>2. ASSUME UNCHANGED mapping, open' \in {open, None}
      PROVE  /\ mapping' \in [Request -> Instance \cup {None}]
             /\ open' \in (Issued \cup {None})'
  BY <1>1, <1>2 DEF Issued
<1>3. ASSUME NEW t \in Tab, Create(t)
      PROVE  /\ mapping' \in [Request -> Instance \cup {None}]
             /\ open' \in (Issued \cup {None})'
  <2>1. asked[t] \in Request
    BY <1>3 DEF CardInvariant, TabSound, Create, Preparing
  <2>2. Issued \subseteq Instance
    BY IssuedAreInstances DEF CardInvariant
  <2>3. CASE mapping[asked[t]] # None
    <3>1. mapping' = mapping /\ open' = open
      BY <1>1, <1>3, <2>1, <2>3 DEF Create
    <3> QED
      BY <1>2, <3>1
  <2>4. CASE mapping[asked[t]] = None
    <3>1. PICK i \in Instance : mapping' = [mapping EXCEPT ![asked[t]] = i] /\ open' = i
      BY <1>1, <1>3, <2>2, <2>4 DEF Create
    <3>2. mapping'[asked[t]] = i /\ i # None
      BY <1>1, <2>1, <3>1
    <3> QED
      BY <1>1, <2>1, <3>1, <3>2 DEF Issued
  <2> QED
    BY <2>3, <2>4
<1>4. \/ \E t \in Tab : Create(t)
      \/ UNCHANGED mapping /\ open' \in {open, None}
  BY DEF Next, Retire, LoseBytes, Prepare, Recover, NotRecovered, NotCreated, Persist,
         Download, MarkImage, Report, Look, ReadSnapshot, Take, NothingLeft, Find, Reconcile, Check, Show, Commit,
         MarkAnswered, Close, server
<1> QED
  BY <1>2, <1>3, <1>4

(* What the browser stores keeps its types.                                *)
BrowserTypes ==
    /\ request \in [Request -> Instance \cup {"pending", None}]
    /\ current \in Request \cup {None}
    /\ stored \in [Instance -> Tab \cup {"ready", None}]
    /\ image \in [Instance -> BOOLEAN]
    /\ bytes \in [Instance -> BOOLEAN]
    /\ outbox \in [Instance -> Tab \cup {None}]
    /\ prepared \subseteq Instance

LEMMA BrowserTypesStep ==
    ASSUME CardInvariant, Next
    PROVE  BrowserTypes'
<1>1. BrowserTypes /\ Issued \subseteq Instance
  BY IssuedAreInstances DEF CardInvariant, CardTypeOK, BrowserTypes
<1>2. CASE Retire
  BY <1>1, <1>2 DEF Retire, BrowserTypes, replica
<1>3. ASSUME NEW i \in Instance, LoseBytes(i) PROVE BrowserTypes'
  BY <1>1, <1>3 DEF LoseBytes, BrowserTypes
<1>4. ASSUME NEW t \in Tab, TabStep(t) PROVE BrowserTypes'
  <2>1. TabSound(t) /\ mapping \in [Request -> Instance \cup {None}]
        /\ target \in [Tab -> Instance \cup {None}]
    BY DEF CardInvariant, CardTypeOK
  <2>2. CASE Prepare(t)
    BY <1>1, <2>2 DEF Prepare, BrowserTypes
  <2>3. CASE Persist(t)
    <3>1. target[t] \in Instance
      BY <2>1, <2>3 DEF Persist, TabSound, Preparing
    <3> QED
      BY <1>1, <2>3, <3>1 DEF Persist, BrowserTypes
  <2>4. CASE Download(t)
    BY <1>1, <2>4 DEF Download, BrowserTypes
  <2>5. CASE MarkImage(t)
    BY <1>1, <2>5 DEF MarkImage, BrowserTypes
  <2>6. CASE Report(t)
    <3>1. target[t] \in Instance
      BY <2>1, <2>6 DEF Report, TabSound, Preparing
    <3> QED
      BY <1>1, <2>6, <3>1 DEF Report, BrowserTypes, replica
  <2>7. CASE Reconcile(t) \/ MarkAnswered(t)
    <3>1. target[t] \in Instance
      BY <2>1, <2>7 DEF Reconcile, MarkAnswered, Goes, TabSound, Opening
    <3>2. outbox[target[t]] \in Tab \cup {None}
      BY <1>1, <3>1 DEF BrowserTypes
    <3> QED
      BY <1>1, <2>7, <3>1, <3>2 DEF Reconcile, MarkAnswered, Marked, BrowserTypes
  <2>8. CASE Commit(t)
    BY <1>1, <2>8 DEF Commit, BrowserTypes
  <2>9. CASE \/ Recover(t) \/ NotRecovered(t) \/ Create(t) \/ NotCreated(t) \/ Look(t)
             \/ ReadSnapshot(t) \/ Take(t) \/ NothingLeft(t) \/ Find(t) \/ Check(t) \/ Show(t)
             \/ Close(t)
    BY <1>1, <2>9 DEF Recover, NotRecovered, Create, NotCreated, Look, ReadSnapshot, Take,
                      NothingLeft, Find, Check, Show, Close, BrowserTypes, replica
  <2> QED
    BY <1>4, <2>2, <2>3, <2>4, <2>5, <2>6, <2>7, <2>8, <2>9 DEF TabStep
<1> QED
  BY <1>2, <1>3, <1>4 DEF Next, TabStep

-----------------------------------------------------------------------------
LEMMA StrandsNothing ==
    ASSUME CardInvariant, WorldKeeps, Next
    PROVE  NothingIsStranded'
<1> SUFFICES ASSUME NEW q \in Request, mapping'[q] # None
             PROVE  \/ request'[q] = mapping'[q] /\ stored'[mapping'[q]] # None
                    \/ request'[q] = "pending" /\ current' = q
  BY DEF NothingIsStranded
<1>1. /\ mapping \in [Request -> Instance \cup {None}]
      /\ request \in [Request -> Instance \cup {"pending", None}]
      /\ current \in Request \cup {None}
      /\ stored \in [Instance -> Tab \cup {"ready", None}]
      /\ None \notin Request /\ None \notin Instance /\ None \notin Tab
      /\ \A t \in Tab : TabSound(t)
  BY CardAssumption DEF CardInvariant, CardTypeOK
<1>2. CASE mapping[q] = None
  <2>1. PICK t \in Tab : Create(t)
    BY <1>2 DEF Next, Retire, LoseBytes, Prepare, Recover, NotRecovered, NotCreated,
         Persist, Download, MarkImage, Report, Look, ReadSnapshot, Take, NothingLeft, Find, Reconcile, Check, Show,
         Commit, MarkAnswered, Close, server
  <2>2. asked[t] = q
    BY <1>1, <1>2, <2>1 DEF Create
  <2>3. request[q] = "pending" /\ current = q
    BY <1>1, <1>2, <2>1, <2>2 DEF Create, TabSound, Preparing
  <2>4. UNCHANGED <<request, current>>
    BY <2>1 DEF Create, replica
  <2> QED
    BY <2>3, <2>4
<1>3. CASE mapping[q] # None
  <2>1. /\ mapping'[q] = mapping[q] /\ mapping[q] \in Instance
        /\ stored[mapping[q]] # None => stored'[mapping[q]] # None
    BY <1>1, <1>3 DEF WorldKeeps
  <2>2. \/ request[q] = mapping[q] /\ stored[mapping[q]] # None
        \/ request[q] = "pending" /\ current = q
    BY <1>3 DEF CardInvariant, NothingIsStranded
  <2>3. CASE UNCHANGED <<request, current>>
    BY <2>1, <2>2, <2>3
  <2>4. ASSUME NEW t \in Tab, Prepare(t)
        PROVE  \/ request'[q] = mapping[q] /\ stored[mapping[q]] # None
               \/ request'[q] = "pending" /\ current' = q
    <3>1. CASE request[q] = "pending" /\ current = q
      <4>1. UNCHANGED <<request, current>>
        BY <1>1, <2>4, <3>1 DEF Prepare
      <4> QED
        BY <3>1, <4>1
    <3>2. CASE request[q] = mapping[q] /\ stored[mapping[q]] # None
      <4>1. request'[q] = request[q]
        BY <1>1, <2>1, <2>4, <3>2 DEF Prepare
      <4> QED
        BY <3>2, <4>1
    <3> QED
      BY <2>2, <3>1, <3>2
  <2>5. ASSUME NEW t \in Tab, Persist(t)
        PROVE  \/ request'[q] = mapping[q] /\ stored'[mapping[q]] # None
               \/ request'[q] = "pending" /\ current' = q
    <3>1. /\ asked[t] \in Request /\ target[t] = mapping[asked[t]] /\ target[t] # None
          /\ request' = [request EXCEPT ![asked[t]] = target[t]] /\ current' = current
          /\ stored' = [stored EXCEPT ![target[t]] = IF @ = None THEN "ready" ELSE @]
      BY <1>1, <2>5 DEF Persist, TabSound, Preparing
    <3>2. CASE asked[t] = q
      <4>1. request'[q] = mapping[q]
        BY <1>1, <3>1, <3>2
      <4>2. stored'[mapping[q]] # None
        BY <1>1, <2>1, <3>1, <3>2, CardAssumption
      <4> QED
        BY <4>1, <4>2
    <3>3. CASE asked[t] # q
      <4>1. request'[q] = request[q]
        BY <3>1, <3>3
      <4> QED
        BY <2>1, <2>2, <3>1, <4>1
    <3> QED
      BY <3>2, <3>3
  <2>6. \/ UNCHANGED <<request, current>>
        \/ \E t \in Tab : Prepare(t) \/ Persist(t)
    BY DEF Next, Retire, LoseBytes, Recover, NotRecovered, Create, NotCreated,
         Download, MarkImage, Report, Look, ReadSnapshot, Take, NothingLeft, Find, Reconcile, Check, Show,
         Commit, MarkAnswered, Close, replica
  <2> QED
    BY <2>1, <2>3, <2>4, <2>5, <2>6
<1> QED
  BY <1>2, <1>3

LEMMA MarkerFollows ==
    ASSUME CardInvariant, WorldKeeps, Next
    PROVE  MarkerFollowsOutbox'
<1> SUFFICES ASSUME NEW i \in Instance, stored'[i] \in Tab
             PROVE  outbox'[i] = stored'[i]
  BY DEF MarkerFollowsOutbox
<1>1. /\ stored \in [Instance -> Tab \cup {"ready", None}]
      /\ None \notin Tab /\ "ready" \notin Tab
      /\ outbox[i] # None => outbox'[i] = outbox[i]
  BY CardAssumption DEF CardInvariant, CardTypeOK, WorldKeeps
<1>2. stored[i] \in Tab => outbox[i] = stored[i]
  BY DEF CardInvariant, MarkerFollowsOutbox
<1>3. CASE stored'[i] = stored[i]
  BY <1>1, <1>2, <1>3
<1>4. ASSUME NEW t \in Tab, Persist(t), stored'[i] # stored[i] PROVE FALSE
  BY <1>1, <1>4 DEF Persist
<1>5. ASSUME NEW t \in Tab, Reconcile(t) \/ MarkAnswered(t), stored'[i] # stored[i]
      PROVE  stored'[i] = outbox[i] /\ outbox' = outbox
  BY <1>1, <1>5 DEF Reconcile, MarkAnswered, Marked
<1>6. \/ stored' = stored
      \/ \E t \in Tab : Persist(t) \/ Reconcile(t) \/ MarkAnswered(t)
  BY DEF Next, Retire, LoseBytes, Prepare, Recover, NotRecovered, Create, NotCreated,
       Download, MarkImage, Report, Look, ReadSnapshot, Take, NothingLeft, Find, Check, Show, Commit, Close, replica
<1> QED
  BY <1>3, <1>4, <1>5, <1>6

(* A card reported ready keeps its image or stops being counted, and what  *)
(* was stored of it is an answer only if the outbox has that answer.       *)
LEMMA ReportsReady ==
    ASSUME CardInvariant, WorldKeeps, MarkerFollowsOutbox', Next
    PROVE  \A i \in prepared' : Renderable(i)' /\ (stored'[i] = "ready" \/ outbox'[i] # None)
<1> SUFFICES ASSUME NEW i \in Instance, i \in prepared'
             PROVE  image'[i] /\ bytes'[i] /\ (stored'[i] = "ready" \/ outbox'[i] # None)
  BY BrowserTypesStep DEF Renderable, BrowserTypes
<1>1. /\ stored \in [Instance -> Tab \cup {"ready", None}] /\ image \in [Instance -> BOOLEAN]
      /\ stored' \in [Instance -> Tab \cup {"ready", None}] /\ bytes \in [Instance -> BOOLEAN]
      /\ None \notin Tab /\ "ready" \notin Tab \cup {None}
      /\ i \in prepared => image[i] /\ bytes[i] /\ (stored[i] = "ready" \/ outbox[i] # None)
      /\ stored[i] # None => stored'[i] # None
      /\ outbox[i] # None => outbox'[i] # None
      /\ stored'[i] \in Tab => outbox'[i] = stored'[i]
  BY CardAssumption, BrowserTypesStep DEF BrowserTypes, CardInvariant, CardTypeOK, ReportsAreTrue,
     Renderable, WorldKeeps, MarkerFollowsOutbox
<1>2. stored[i] # None \/ outbox[i] # None => stored'[i] = "ready" \/ outbox'[i] # None
  BY <1>1
<1>3. CASE i \notin prepared
  <2>1. PICK t \in Tab : Report(t)
    BY <1>3 DEF Next, Retire, LoseBytes, Prepare, Recover, NotRecovered, Create, NotCreated, Persist,
         Download, MarkImage, Look, ReadSnapshot, Take, NothingLeft, Find, Reconcile, Check, Show,
         Commit, MarkAnswered, Close
  <2>2. /\ i = target[t] /\ image[i] /\ bytes[i] /\ pc[t] = "verify"
        /\ UNCHANGED <<image, bytes>>
    BY <1>3, <2>1 DEF Report, Renderable, replica
  <2>3. stored[i] # None
    BY <2>2 DEF CardInvariant, TabSound
  <2> QED
    BY <1>2, <2>2, <2>3
<1>4. CASE i \in prepared
  <2>1. stored'[i] = "ready" \/ outbox'[i] # None
    BY <1>1, <1>2, <1>4
  <2>2. CASE UNCHANGED <<image, bytes>>
    BY <1>1, <1>4, <2>1, <2>2
  <2>3. ASSUME NEW t \in Tab, Download(t) \/ MarkImage(t) PROVE image'[i] /\ bytes'[i]
    BY <1>1, <1>4, <2>3 DEF Download, MarkImage
  <2>4. ASSUME NEW j \in Instance, LoseBytes(j) PROVE image'[i] /\ bytes'[i]
    BY <1>1, <1>4, <2>4 DEF LoseBytes
  <2>5. \/ UNCHANGED <<image, bytes>>
        \/ \E t \in Tab : Download(t) \/ MarkImage(t)
        \/ \E j \in Instance : LoseBytes(j)
    BY DEF Next, Retire, Prepare, Recover, NotRecovered, Create, NotCreated, Persist, Report, Look,
           ReadSnapshot, Take, NothingLeft, Find, Reconcile, Check, Show, Commit, MarkAnswered, Close,
           replica
  <2> QED
    BY <2>1, <2>2, <2>3, <2>4, <2>5
<1> QED
  BY <1>3, <1>4

(* A tab that noted an answer noted the one that the outbox has, and keeps.*)
LEMMA ReportsAnswered ==
    ASSUME CardInvariant, WorldKeeps, Next, NEW u \in Tab,
           pc'[u] \in {"download", "mark", "verify"}, noted'[u] # "ready"
    PROVE  outbox'[target'[u]] = noted'[u]
<1>1. /\ CardTypeOK /\ TabSound(u) /\ None \notin Tab /\ "ready" \notin Tab \cup {None}
      /\ outbox \in [Instance -> Tab \cup {None}]
      /\ stored \in [Instance -> Tab \cup {"ready", None}]
      /\ mapping \in [Request -> Instance \cup {None}]
      /\ pc \in [Tab -> {"idle"} \cup Preparing \cup Opening]
  BY CardAssumption DEF CardInvariant, CardTypeOK
<1>2. ASSUME pc[u] \in {"download", "mark", "verify"}, noted'[u] = noted[u], target'[u] = target[u]
      PROVE  outbox'[target'[u]] = noted'[u]
  <2>1. outbox[target[u]] = noted[u] /\ noted[u] # None
    BY <1>1, <1>2 DEF CardInvariant, ReportsAreTrue, TabSound
  <2>2. target[u] \in Instance
    BY <1>1, <1>2 DEF TabSound, Preparing
  <2> QED
    BY <1>2, <2>1, <2>2 DEF WorldKeeps
<1>3. ASSUME Persist(u) PROVE outbox'[target'[u]] = noted'[u]
  <2>1. target[u] \in Instance
    BY <1>1, <1>3 DEF Persist, TabSound, Preparing
  <2>2. noted'[u] = stored'[target[u]] /\ target' = target /\ outbox' = outbox
    BY <1>3 DEF Persist, CardInvariant, CardTypeOK
  <2>3. stored'[target[u]] = stored[target[u]] /\ stored[target[u]] \in Tab
    BY <1>1, <1>3, <2>1, <2>2 DEF Persist
  <2> QED
    BY <2>1, <2>2, <2>3 DEF CardInvariant, MarkerFollowsOutbox
<1>4. ASSUME NEW t \in Tab, TabStep(t), t # u
      PROVE  pc'[u] = pc[u] /\ noted'[u] = noted[u] /\ target'[u] = target[u]
  BY <1>1, <1>4, TabAlone DEF Alone, CardTypeOK
<1>5. ASSUME TabStep(u), ~Persist(u)
      PROVE  pc[u] \in {"download", "mark", "verify"} /\ noted'[u] = noted[u] /\ target'[u] = target[u]
  BY <1>1, <1>5 DEF TabStep, Prepare, Recover, NotRecovered, Create, NotCreated, Download, MarkImage,
     Report, Look, ReadSnapshot, Take, NothingLeft, Find, Reconcile, Check, Show, Commit, MarkAnswered,
     Close, Goes, Ends
<1>6. \/ UNCHANGED <<pc, noted, target>>
      \/ \E t \in Tab : TabStep(t)
  BY DEF Next, TabStep, Retire, LoseBytes, tab
<1> QED
  BY <1>2, <1>3, <1>4, <1>5, <1>6

-----------------------------------------------------------------------------
LEMMA CardInit == Init => CardInvariant
<1> SUFFICES ASSUME Init PROVE CardInvariant
  OBVIOUS
<1>1. CardTypeOK
  BY DEF Init, CardTypeOK
<1>2. \A t \in Tab : TabSound(t) /\ StillAhead(t)
  BY DEF Init, TabSound, StillAhead, Preparing, Opening
<1> QED
  BY <1>1, <1>2, CardAssumption DEF Init, CardInvariant, NothingIsStranded, MarkerFollowsOutbox,
     AnsweredIsNotOffered, ReportsAreTrue, NoneIsOverlooked

LEMMA CardStep == CardInvariant /\ [Next]_vars => CardInvariant'
<1>1. ASSUME CardInvariant, Next PROVE CardInvariant'
  <2>1. WorldKeeps
    BY <1>1, NothingTakenBack
  <2>2. \/ \E t \in Tab : TabStep(t)
        \/ UNCHANGED tab
        \/ /\ UNCHANGED <<pc, asked, target, noted, rest, hides, seen>>
           /\ \E i \in Instance : kept' = [u \in Tab |-> kept[u] \ {i}]
    BY <1>1 DEF Next, TabStep, Retire, LoseBytes
  <2>3. \A u \in Tab : TabSound(u)' /\ StillAhead(u)'
    <3>1. ASSUME NEW t \in Tab, TabStep(t), NEW u \in Tab PROVE TabSound(u)' /\ StillAhead(u)'
      <4>1. Alone(t) /\ CardTypeOK
        BY <1>1, <3>1, TabAlone DEF CardInvariant
      <4>2. CASE u # t
        <5>1. /\ pc'[u] = pc[u] /\ asked'[u] = asked[u] /\ target'[u] = target[u]
              /\ noted'[u] = noted[u] /\ rest'[u] = rest[u] /\ hides'[u] = hides[u]
              /\ seen'[u] = seen[u] /\ kept'[u] \subseteq kept[u]
          BY <4>1, <4>2 DEF Alone, CardTypeOK
        <5> QED
          BY <1>1, <2>1, <5>1, OtherTabs
      <4>3. CASE u = t
        BY <1>1, <2>1, <3>1, <4>3, OwnStep, OwnAhead
      <4> QED
        BY <4>2, <4>3
    <3>2. ASSUME NEW u \in Tab, ~\E t \in Tab : TabStep(t) PROVE TabSound(u)' /\ StillAhead(u)'
      <4>1. /\ UNCHANGED <<pc, asked, target, noted, rest, hides, seen>>
            /\ kept'[u] \subseteq kept[u]
        BY <2>2, <3>2 DEF tab, looking
      <4> QED
        BY <1>1, <2>1, <4>1, OtherTabs
    <3> QED
      BY <3>1, <3>2
  <2>4. TabTypes'
    <3>1. ASSUME ~\E t \in Tab : TabStep(t) PROVE TabTypes'
      BY <1>1, <2>2, <3>1 DEF tab, looking, TabTypes, CardInvariant, CardTypeOK
    <3> QED
      BY <1>1, <3>1, TabTypesStep
  <2>5. CardTypeOK'
    BY <1>1, <2>4, OpenStaysIssued, BrowserTypesStep DEF CardTypeOK, TabTypes, BrowserTypes
  <2>6. AnsweredIsNotOffered'
    BY <2>3 DEF AnsweredIsNotOffered, TabSound
  <2>7. NothingIsStranded' /\ MarkerFollowsOutbox'
    BY <1>1, <2>1, StrandsNothing, MarkerFollows
  <2>8. ReportsAreTrue'
    BY <1>1, <2>1, <2>7, ReportsReady, ReportsAnswered DEF ReportsAreTrue
  <2>9. NoneIsOverlooked'
    BY <2>3 DEF NoneIsOverlooked, StillAhead
  <2> QED
    BY <2>3, <2>5, <2>6, <2>7, <2>8, <2>9 DEF CardInvariant
<1>2. ASSUME CardInvariant, UNCHANGED vars PROVE CardInvariant'
  BY <1>2 DEF vars, server, replica, tab, looking, CardInvariant, CardTypeOK, Issued, TabSound, StillAhead,
     NothingIsStranded, MarkerFollowsOutbox, AnsweredIsNotOffered, ReportsAreTrue, NoneIsOverlooked,
     Renderable
<1> QED
  BY <1>1, <1>2

(* What the tabs rely on holds in every reachable state, whatever the tabs *)
(* of the browser, the server and the cache do: types, what each tab knows *)
(* between its steps, and the five properties of the cards                 *)
(* (instance-cache.ts 170-482, OfflineKuzushijiReview.tsx 37-119).         *)
THEOREM CardsAreSound == Spec => []CardInvariant
BY CardInit, CardStep, PTL DEF Spec

(* No issued instance is ever stranded: it is in the browser, or behind    *)
(* the one request the browser asks again (instance-cache.ts 170-364).     *)
THEOREM IssuedIsReachable == Spec => []NothingIsStranded
BY CardsAreSound, PTL DEF CardInvariant

(* A tab never offers a card that had an answer when the tab began to look *)
(* (OfflineKuzushijiReview.tsx 60-82).                                     *)
THEOREM AnsweredIsNeverOffered == Spec => []AnsweredIsNotOffered
BY CardsAreSound, PTL DEF CardInvariant

(* What a page reports of a card it prepared is true, although it goes by  *)
(* the record it stored before the image was loaded: a card reported ready *)
(* has its image and waits for its answer or has it in the outbox, a card  *)
(* reported answered has it there (prefetch-client.ts 100-128,             *)
(* OfflinePrefetchControl.tsx 19-31).                                      *)
THEOREM OldRecordsReportTrue == Spec => []ReportsAreTrue
BY CardsAreSound, PTL DEF CardInvariant

(* A page that says that nothing is prepared has passed over no card that  *)
(* it could have shown all the while (OfflineKuzushijiReview.tsx 44-104).  *)
THEOREM CardsAreFound == Spec => []NoneIsOverlooked
BY CardsAreSound, PTL DEF CardInvariant
=============================================================================
