------------------------- MODULE SnapshotCacheProofs -------------------------
(***************************************************************************)
(* What the browser's replica of the snapshot guarantees for any number of *)
(* tabs, overlapping loads and publications, with a server that may be     *)
(* restored and storage that may be cleared: the replica is consistent,    *)
(* moves only forward, and is shown as what it is.                         *)
(***************************************************************************)
EXTENDS SnapshotCache, FiniteSetTheorems, TLAPS

Pcs  == {"idle", "fetch", "put", "read", "show", "missing", "failed", "bootstrap", "fallback"}
Pages == [kind : {"loading", "ready", "bootstrap", "unavailable"}, shown : Snapshot, cached : BOOLEAN]

(* Everything the browser has was served once; what it adopts has an id.   *)
Served ==
    /\ server \in past \cup {Nothing} /\ past \subseteq Snapshot /\ IsFiniteSet(past)
    /\ \A s \in past : s.id > 0 /\ s.gen > 0
    /\ store \subseteq past /\ pointer \in store \cup {Nothing}

LoadsOK ==
    /\ pc \in [Load -> Pcs]
    /\ answer \in [Load -> past \cup {Nothing}] /\ held \in [Load -> past \cup {Nothing}]
    /\ display \in [Tab -> Pages]
    /\ \A l \in Load : pc[l] = "put" => answer[l] # Nothing

Replica ==
    /\ \A s, t \in store : s.gen = t.gen => s = t
    /\ \A s \in store : s.gen <= pointer.gen
    /\ pointer = Nothing => store = {}

CacheInv == Served /\ LoadsOK /\ Replica

-----------------------------------------------------------------------------
LEMMA BasicPages ==
    /\ Nothing \in Snapshot /\ Nothing.id = 0 /\ Nothing.gen = 0
    /\ \A k \in {"loading", "bootstrap", "unavailable"} : Blank(k) \in Pages /\ Blank(k).kind = k
    /\ \A s \in Snapshot, b \in BOOLEAN :
          /\ Ready(s, b) \in Pages /\ Ready(s, b).kind = "ready"
          /\ Ready(s, b).shown = s /\ Ready(s, b).cached = b
BY DEF Nothing, Snapshot, Blank, Ready, Pages

LEMMA LoadIsServed ==
    ASSUME CacheInv, NEW l \in Load
    PROVE  /\ answer[l] \in Snapshot /\ held[l] \in Snapshot /\ pointer \in Snapshot
           /\ TabOf[l] \in Tab /\ display[TabOf[l]] \in Pages
           /\ pc[l] \in Pcs
BY BasicPages, CacheAssumption DEF CacheInv, Served, LoadsOK

LEMMA ShownIsPage ==
    ASSUME NEW s \in Snapshot, NEW b \in BOOLEAN, NEW k \in {"loading", "bootstrap", "unavailable"}
    PROVE  /\ Shown(s, b, k) \in Pages
           /\ s.content \in Foreign => Shown(s, b, k).kind = k
           /\ s.content \notin Foreign => Shown(s, b, k) = Ready(s, b)
BY BasicPages DEF Shown

LEMMA CacheInit == Init => CacheInv
<1> SUFFICES ASSUME Init PROVE CacheInv
  OBVIOUS
<1> USE DEF Init
<1>1. Served
  BY FS_EmptySet DEF Served
<1>2. LoadsOK
  BY BasicPages DEF LoadsOK, Pcs
<1>3. Replica
  BY DEF Replica
<1> QED
  BY <1>1, <1>2, <1>3 DEF CacheInv

(* A step of a load, or of a tab, that leaves the replica alone.           *)
LEMMA OutsideStep ==
    ASSUME CacheInv, UNCHANGED <<server, past, store, pointer>>,
           pc' \in [Load -> Pcs],
           answer' \in [Load -> past \cup {Nothing}], held' \in [Load -> past \cup {Nothing}],
           display' \in [Tab -> Pages],
           \A l \in Load : pc'[l] = "put" => answer'[l] # Nothing
    PROVE  CacheInv'
BY DEF CacheInv, Served, LoadsOK, Replica

LEMMA LoadSteps ==
    ASSUME CacheInv, NEW l \in Load,
           \/ Start(l) \/ Answered(l) \/ NotAnswered(l) \/ PutFails(l)
           \/ Read(l) \/ ReadFails(l) \/ Show(l) \/ ShowReplica(l)
    PROVE  CacheInv'
<1>1. /\ pc \in [Load -> Pcs] /\ display \in [Tab -> Pages]
      /\ answer \in [Load -> past \cup {Nothing}] /\ held \in [Load -> past \cup {Nothing}]
      /\ \A k \in Load : pc[k] = "put" => answer[k] # Nothing
  BY DEF CacheInv, LoadsOK
<1>2. /\ answer[l] \in Snapshot /\ held[l] \in Snapshot /\ TabOf[l] \in Tab
      /\ server \in past \cup {Nothing} /\ pointer \in past \cup {Nothing}
  BY LoadIsServed DEF CacheInv, Served
<1>3. ASSUME NEW d \in Pages, Shows(l, d) PROVE display' \in [Tab -> Pages]
  BY <1>1, <1>2, <1>3 DEF Shows
<1>4. CASE Start(l)
  <2>1. PICK d \in Pages : Shows(l, d)
    BY <1>1, <1>2, <1>4, BasicPages DEF Start
  <2> QED
    BY <1>1, <1>3, <1>4, <2>1, OutsideStep DEF Start, Goes, browser, Pcs
<1>5. CASE Answered(l)
  BY <1>1, <1>2, <1>5, OutsideStep DEF Answered, Goes, browser, Pcs
<1>6. CASE NotAnswered(l) \/ ReadFails(l)
  BY <1>1, <1>6, OutsideStep DEF NotAnswered, ReadFails, Goes, browser, Pcs
<1>7. CASE PutFails(l)
  <2>1. PICK d \in Pages : Shows(l, d)
    BY <1>2, <1>7, ShownIsPage DEF PutFails
  <2> QED
    BY <1>1, <1>3, <1>7, <2>1, OutsideStep DEF PutFails, Goes, browser, Pcs
<1>8. CASE Read(l)
  BY <1>1, <1>2, <1>8, OutsideStep DEF Read, Goes, browser, Pcs
<1>9. CASE Show(l)
  <2>1. Selected(l) \in Snapshot /\ (held[l].gen > answer[l].gen) \in BOOLEAN
    BY <1>2 DEF Selected
  <2>2. PICK d \in Pages : Shows(l, d)
    BY <1>2, <1>9, <2>1, ShownIsPage, BasicPages DEF Show
  <2> QED
    BY <1>1, <1>3, <1>9, <2>2, OutsideStep DEF Show, Goes, browser, Pcs
<1>10. CASE ShowReplica(l)
  <2>1. PICK k \in {"bootstrap", "unavailable"} :
           Shows(l, IF held[l] = Nothing THEN Blank(k) ELSE Shown(held[l], TRUE, k))
    BY <1>10 DEF ShowReplica
  <2>2. PICK d \in Pages : Shows(l, d)
    BY <1>2, <2>1, ShownIsPage, BasicPages
  <2>3. pc' = [pc EXCEPT ![l] = "idle"] /\ UNCHANGED <<server, past, browser, answer, held>>
    BY <1>10 DEF ShowReplica, Goes
  <2> QED
    BY <1>1, <1>3, <2>2, <2>3, OutsideStep DEF browser, Pcs
<1> QED
  BY <1>4, <1>5, <1>6, <1>7, <1>8, <1>9, <1>10

LEMMA PutStep ==
    ASSUME CacheInv, NEW l \in Load, Put(l)
    PROVE  CacheInv'
<1> DEFINE adopted == Adoption(answer[l]) = "adopted" /\ ~Clashes(answer[l])
<1>1. /\ store' = IF adopted THEN store \cup {answer[l]} ELSE store
      /\ pointer' = IF adopted THEN answer[l] ELSE pointer
      /\ pc[l] = "put"
      /\ \E to \in {"failed", "read"} : pc' = [pc EXCEPT ![l] = to]
      /\ UNCHANGED <<server, past, answer, held, display>>
  BY DEF Put, Goes
<1>2. /\ answer[l] \in past \cup {Nothing} /\ answer[l] # Nothing
      /\ answer[l] \in Snapshot /\ pointer \in Snapshot
  BY <1>1, LoadIsServed DEF CacheInv, LoadsOK
<1>3. answer[l].gen \in Nat /\ pointer.gen \in Nat
      /\ \A s \in store : s \in past /\ s.gen \in Nat
  BY <1>2 DEF CacheInv, Served, Snapshot
<1>4. Served'
  BY <1>1, <1>2 DEF CacheInv, Served
<1>5. LoadsOK'
  BY <1>1 DEF CacheInv, LoadsOK, Pcs
<1>6. ASSUME adopted PROVE pointer = Nothing \/ answer[l].gen > pointer.gen
  BY <1>3, <1>6 DEF Adoption
<1>7. ASSUME adopted PROVE \A s \in store : s.gen < answer[l].gen
  BY <1>3, <1>6, <1>7 DEF CacheInv, Replica
<1>8. CASE adopted
  <2>1. store' = store \cup {answer[l]} /\ pointer' = answer[l]
    BY <1>1, <1>8
  <2>2. \A s, t \in store' : s.gen = t.gen => s = t
    BY <1>3, <1>7, <1>8, <2>1 DEF CacheInv, Replica
  <2>3. \A s \in store' : s.gen <= pointer'.gen
    BY <1>3, <1>7, <1>8, <2>1
  <2>4. pointer' # Nothing
    BY <1>2, <2>1
  <2> QED
    BY <1>4, <1>5, <2>2, <2>3, <2>4 DEF CacheInv, Replica
<1>9. CASE ~adopted
  BY <1>1, <1>4, <1>5, <1>9 DEF CacheInv, Replica
<1> QED
  BY <1>8, <1>9

LEMMA ServerSteps ==
    ASSUME CacheInv,
           \/ \E c \in Content : Publish(c)
           \/ \E s \in past : Restore(s)
    PROVE  CacheInv'
<1>1. CASE \E c \in Content : Publish(c)
  <2>1. PICK c \in Content : Publish(c)
    BY <1>1
  <2>2. Cardinality(past) \in Nat /\ server \in Snapshot
    BY FS_CardinalityType, BasicPages DEF CacheInv, Served
  <2>3. server' \in Snapshot /\ server'.id > 0 /\ server'.gen > 0
    BY <2>1, <2>2 DEF Publish, Snapshot
  <2>4. past' = past \cup {server'} /\ UNCHANGED <<store, pointer, pc, answer, held, display>>
    BY <2>1 DEF Publish, browser, load
  <2>5. IsFiniteSet(past')
    BY <2>4, FS_AddElement DEF CacheInv, Served
  <2>6. Served'
    BY <2>3, <2>4, <2>5 DEF CacheInv, Served
  <2>7. LoadsOK'
    BY <2>4 DEF CacheInv, LoadsOK
  <2> QED
    BY <2>4, <2>6, <2>7 DEF CacheInv, Replica
<1>2. CASE \E s \in past : Restore(s)
  <2>1. server' \in past /\ UNCHANGED <<past, store, pointer, pc, answer, held, display>>
    BY <1>2 DEF Restore, browser, load
  <2> QED
    BY <2>1 DEF CacheInv, Served, LoadsOK, Replica
<1> QED
  BY <1>1, <1>2

LEMMA TabSteps ==
    ASSUME CacheInv, \/ Evict
                     \/ \E t \in Tab : ManualFails(t) \/ Reload(t)
                     \/ UNCHANGED vars
    PROVE  CacheInv'
<1>1. CASE Evict
  BY <1>1 DEF Evict, load, CacheInv, Served, LoadsOK, Replica
<1>2. ASSUME NEW t \in Tab, ManualFails(t) PROVE CacheInv'
  <2>1. display' \in [Tab -> Pages]
    BY <1>2, BasicPages DEF ManualFails, CacheInv, LoadsOK
  <2> QED
    BY <1>2, <2>1, OutsideStep DEF ManualFails, browser, load, CacheInv, LoadsOK
<1>3. ASSUME NEW t \in Tab, Reload(t) PROVE CacheInv'
  <2>1. display' \in [Tab -> Pages] /\ pc' \in [Load -> Pcs]
    BY <1>3, BasicPages DEF Reload, CacheInv, LoadsOK, Pcs
  <2>2. \A l \in Load : pc'[l] = "put" => answer'[l] # Nothing
    BY <1>3 DEF Reload, CacheInv, LoadsOK
  <2> QED
    BY <1>3, <2>1, <2>2, OutsideStep DEF Reload, browser, CacheInv, LoadsOK
<1>4. CASE UNCHANGED vars
  BY <1>4 DEF vars, CacheInv, Served, LoadsOK, Replica
<1> QED
  BY <1>1, <1>2, <1>3, <1>4

LEMMA CacheStep == CacheInv /\ [Next]_vars => CacheInv'
BY LoadSteps, PutStep, ServerSteps, TabSteps DEF Next, Settle

(* The strengthened invariant of the replica and of the loads.             *)
THEOREM CacheInvariant == Spec => []CacheInv
BY CacheInit, CacheStep, PTL DEF Spec

(* The replica keeps what the server served, and every load and every      *)
(* dashboard is one of the states the code gives them.                     *)
THEOREM CacheTypes == Spec => []CacheTypeOK
<1>1. ASSUME CacheInv PROVE CacheTypeOK
  BY <1>1, BasicPages DEF CacheInv, Served, LoadsOK, CacheTypeOK, Pcs, Pages
<1> QED
  BY <1>1, CacheInvariant, PTL

(* One content for a generation, whatever tabs, delayed answers and        *)
(* restored servers bring.                                                 *)
THEOREM ReplicaIsConsistent == Spec => []OneContentPerGeneration
<1>1. CacheInv => OneContentPerGeneration
  BY DEF CacheInv, Replica, OneContentPerGeneration
<1> QED
  BY <1>1, CacheInvariant, PTL

-----------------------------------------------------------------------------
(* What a step does to the replica, and to the screen.                     *)

LEMMA PointerMoves ==
    ASSUME CacheInv, [Next]_vars, pointer' # pointer
    PROVE  pointer' = Nothing \/ pointer'.gen > pointer.gen
<1>1. CASE Evict
  BY <1>1 DEF Evict
<1>2. ASSUME NEW l \in Load, Put(l) PROVE pointer' = Nothing \/ pointer'.gen > pointer.gen
  <2>1. /\ Adoption(answer[l]) = "adopted" /\ pointer' = answer[l]
    BY <1>2 DEF Put
  <2>2. answer[l] \in Snapshot /\ pointer \in Snapshot /\ answer[l] # Nothing
    BY <1>2, LoadIsServed DEF Put, Goes, CacheInv, LoadsOK
  <2>3. pointer # Nothing => answer[l].gen > pointer.gen
    BY <2>1, <2>2 DEF Adoption, Snapshot
  <2>4. answer[l].gen > 0
    BY <2>2 DEF CacheInv, Served, LoadsOK
  <2>5. pointer = Nothing => answer[l].gen > pointer.gen
    BY <2>4, BasicPages
  <2> QED
    BY <2>1, <2>3, <2>5
<1> QED
  BY <1>1, <1>2 DEF Next, Settle, vars, Start, Answered, NotAnswered, PutFails, Read,
     ReadFails, Show, ShowReplica, Publish, Restore, ManualFails, Reload, browser

(* The replica's pointer moves only forward, unless storage is cleared.    *)
THEOREM PointerMovesForward == Spec => ReplicaNeverRewinds
<1>1. CacheInv /\ [Next]_vars =>
         [pointer' # pointer => pointer' = Nothing \/ pointer'.gen > pointer.gen]_vars
  BY PointerMoves
<1> QED
  BY <1>1, CacheInvariant, PTL DEF Spec, ReplicaNeverRewinds

LEMMA ShowingSteps ==
    ASSUME CacheInv, [Next]_vars, NEW l \in Load,
           pc[l] \in {"show", "fallback", "bootstrap"}, pc'[l] = "idle"
    PROVE  Show(l) \/ ShowReplica(l) \/ display'[TabOf[l]].kind = "loading"
<1>1. pc \in [Load -> Pcs] /\ display \in [Tab -> Pages] /\ TabOf[l] \in Tab
  BY CacheAssumption DEF CacheInv, LoadsOK
<1>2. ASSUME NEW k \in Load, Start(k) PROVE pc'[l] # "idle"
  BY <1>1, <1>2 DEF Start, Goes
<1>3. ASSUME NEW k \in Load, Settle(k) PROVE Show(l) \/ ShowReplica(l)
  BY <1>1, <1>3 DEF Settle, Answered, NotAnswered, Put, PutFails, Read, ReadFails, Show,
     ShowReplica, Goes
<1>4. ASSUME NEW t \in Tab, Reload(t) PROVE display'[TabOf[l]].kind = "loading"
  <2>1. TabOf[l] = t
    BY <1>1, <1>4 DEF Reload
  <2> QED
    BY <1>1, <1>4, <2>1, BasicPages DEF Reload
<1>5. ASSUME pc' = pc PROVE FALSE
  BY <1>5
<1> QED
  BY <1>2, <1>3, <1>4, <1>5 DEF Next, vars, load, Publish, Restore, Evict, ManualFails

LEMMA ShowStep ==
    ASSUME CacheInv, NEW l \in Load, Show(l), display'[TabOf[l]].kind = "ready"
    PROVE  LET d == display'[TabOf[l]] IN
           /\ \/ d.shown.gen >= answer[l].gen /\ d.shown.gen >= held[l].gen
              \/ held[l].content \in Foreign /\ d.shown = answer[l]
           /\ d.cached => d.shown = held[l] /\ d.shown.gen > answer[l].gen
<1> DEFINE d == display'[TabOf[l]]
           newer == held[l].gen > answer[l].gen
<1>1. /\ answer[l] \in Snapshot /\ held[l] \in Snapshot
      /\ answer[l].gen \in Nat /\ held[l].gen \in Nat /\ newer \in BOOLEAN
  BY LoadIsServed DEF Snapshot
<1>2. d = IF Selected(l).content \in Foreign THEN Shown(answer[l], FALSE, "unavailable")
          ELSE Ready(Selected(l), newer)
  BY CacheAssumption DEF Show, Shows, CacheInv, LoadsOK
<1>3. CASE Selected(l).content \in Foreign
  <2>1. answer[l].content \notin Foreign /\ d = Ready(answer[l], FALSE)
    BY <1>1, <1>2, <1>3, ShownIsPage
  <2>2. d.shown = answer[l] /\ d.cached = FALSE
    BY <2>1 DEF Ready
  <2>3. held[l].content \in Foreign
    BY <1>3, <2>1 DEF Selected
  <2> QED
    BY <2>2, <2>3
<1>4. CASE Selected(l).content \notin Foreign
  <2>1. Selected(l) \in Snapshot
    BY <1>1 DEF Selected
  <2>2. d = Ready(Selected(l), newer)
    BY <1>2, <1>4
  <2>3. d.shown = Selected(l)
    BY <2>2 DEF Ready
  <2>4. CASE newer
    BY <1>1, <2>3, <2>4 DEF Selected
  <2>5. CASE ~newer
    <3>0. newer = FALSE /\ Selected(l) = answer[l]
      BY <2>5 DEF Selected
    <3>1. d = Ready(answer[l], FALSE)
      BY <2>2, <3>0
    <3>2. d.shown = answer[l] /\ d.cached = FALSE
      BY <3>1 DEF Ready
    <3> QED
      BY <1>1, <2>5, <3>2
  <2> QED
    BY <2>4, <2>5
<1> QED
  BY <1>3, <1>4

LEMMA ReplicaShown ==
    ASSUME CacheInv, NEW l \in Load, ShowReplica(l)
    PROVE  LET d == display'[TabOf[l]] IN
           /\ d.kind = "ready" => d.shown = held[l]
           /\ held[l] # Nothing /\ held[l].content \notin Foreign => d.kind = "ready"
           /\ pc[l] # "show"
<1>1. held[l] \in Snapshot /\ TabOf[l] \in Tab /\ display \in [Tab -> Pages]
  BY LoadIsServed DEF CacheInv, LoadsOK
<1>2. PICK k \in {"bootstrap", "unavailable"} :
         display'[TabOf[l]] = IF held[l] = Nothing THEN Blank(k) ELSE Shown(held[l], TRUE, k)
  BY <1>1 DEF ShowReplica, Shows
<1>3. Blank(k).kind # "ready"
  BY BasicPages
<1>4. held[l].content \in Foreign => Shown(held[l], TRUE, k).kind # "ready"
  BY <1>1, ShownIsPage
<1>5. held[l].content \notin Foreign => /\ Shown(held[l], TRUE, k).kind = "ready"
                                        /\ Shown(held[l], TRUE, k).shown = held[l]
  BY DEF Shown, Ready
<1>6. pc[l] # "show"
  BY DEF ShowReplica, Goes
<1> QED
  BY <1>2, <1>3, <1>4, <1>5, <1>6

(* What a load shows is no older than the answer it got and the replica it *)
(* read, and is called cached only when it is that replica.                *)
THEOREM NewestIsShown == Spec => ShowsTheNewest
<1> DEFINE A == \A l \in Load : pc[l] \in {"show", "fallback", "bootstrap"} /\ pc'[l] = "idle" =>
                  LET d == display'[TabOf[l]] IN
                  d.kind = "ready" =>
                      /\ pc[l] = "show" => \/ d.shown.gen >= answer[l].gen /\ d.shown.gen >= held[l].gen
                                           \/ held[l].content \in Foreign /\ d.shown = answer[l]
                      /\ d.cached => /\ d.shown = held[l]
                                      /\ pc[l] = "show" => d.shown.gen > answer[l].gen
<1>1. CacheInv /\ [Next]_vars => [A]_vars
  BY ShowingSteps, ShowStep, ReplicaShown
<1> QED
  BY <1>1, CacheInvariant, PTL DEF Spec, ShowsTheNewest

(* A server that does not answer never takes away what the learner has.    *)
THEOREM ReplicaIsShown == Spec => ReplicaIsUsed
<1> DEFINE A == \A l \in Load : /\ pc[l] \in {"fallback", "bootstrap"} /\ pc'[l] = "idle"
                                /\ held[l] # Nothing /\ held[l].content \notin Foreign
                  => display'[TabOf[l]].kind \in {"ready", "loading"}
<1>1. CacheInv /\ [Next]_vars => [A]_vars
  <2>1. ASSUME NEW l \in Load, pc[l] \in {"fallback", "bootstrap"}, Show(l) PROVE FALSE
    BY <2>1 DEF Show, Goes
  <2> QED
    BY <2>1, ShowingSteps, ReplicaShown
<1> QED
  BY <1>1, CacheInvariant, PTL DEF Spec, ReplicaIsUsed
=============================================================================
