------------------------- MODULE StrictSourceProofs -------------------------
(***************************************************************************)
(* What a reader publishes is exact, for every project, any pages, kinds   *)
(* and declared relations, any size of an answer and any number of         *)
(* attempts.  What carries the proof: an owner's edit moves a page only to *)
(* the front of its list or out of it, so that of the pages let alone      *)
(* those before a cursor stay before it.                                   *)
(***************************************************************************)
EXTENDS StrictSource, FiniteSetTheorems, SequenceTheorems, TLAPS

ReaderAssumption == ProjectionAssumption /\ SourceAssumption

-----------------------------------------------------------------------------
(* Sorting.                                                                *)

Triple == Nat \X Nat \X Nat

LEMMA PrecedesOrders ==
  ASSUME NEW a \in Triple, NEW b \in Triple
  PROVE  /\ ~Precedes(a, a)
         /\ a # b => Precedes(a, b) \/ Precedes(b, a)
         /\ ~(Precedes(a, b) /\ Precedes(b, a))
BY DEF Precedes, Triple

LEMMA PrecedesIsTransitive ==
  ASSUME NEW a \in Triple, NEW b \in Triple, NEW c \in Triple,
         Precedes(a, b), Precedes(b, c)
  PROVE  Precedes(a, c)
BY DEF Precedes, Triple

(* A finite set sorted by different keys is a list of its members, each    *)
(* once: as many stand at or before a member as its place says.            *)
LEMMA SortedPermutes ==
  ASSUME NEW S, IsFiniteSet(S), NEW key,
         \A x \in S : key[x] \in Triple,
         \A x, y \in S : key[x] = key[y] => x = y
  PROVE  /\ Sorted(S, key) \in [1..Cardinality(S) -> S]
         /\ IsInjective(Sorted(S, key))
         /\ ToSet(Sorted(S, key)) = S
         /\ Cardinality(S) \in Nat
<1> DEFINE n == Cardinality(S)
           Upto(x) == {y \in S : ~Precedes(key[x], key[y])}
           P == [x \in S |-> Standing(S, key, x)]
           q(k) == CHOOSE x \in S : Standing(S, key, x) = k
<1>1. n \in Nat /\ IsFiniteSet(1..n) /\ Cardinality(1..n) = n
  <2>1. n \in Nat
    BY FS_CardinalityType
  <2> HIDE DEF n
  <2>2. IsFiniteSet(1..n) /\ Cardinality(1..n) = IF 1 > n THEN 0 ELSE n - 1 + 1
    BY <2>1, FS_Interval
  <2> QED
    BY <2>1, <2>2
<1>2. ASSUME NEW x \in S
      PROVE  /\ x \in Upto(x) /\ IsFiniteSet(Upto(x))
             /\ Standing(S, key, x) = Cardinality(Upto(x)) /\ Cardinality(Upto(x)) \in 1..n
  <2>1. Upto(x) \in SUBSET S /\ x \in Upto(x)
    BY PrecedesOrders
  <2>2. IsFiniteSet(Upto(x)) /\ Cardinality(Upto(x)) <= n
    BY <2>1, FS_Subset
  <2>3. Cardinality(Upto(x)) \in Nat /\ Cardinality(Upto(x)) # 0
    BY <2>1, <2>2, FS_CardinalityType, FS_EmptySet
  <2>4. Standing(S, key, x) = Cardinality(Upto(x))
    BY DEF Standing
  <2> HIDE DEF Upto, n
  <2> QED
    BY <1>1, <2>1, <2>2, <2>3, <2>4
<1>3. ASSUME NEW x \in S, NEW y \in S, Precedes(key[x], key[y])
      PROVE  Standing(S, key, x) < Standing(S, key, y)
  <2>1. Upto(x) \in SUBSET Upto(y)
    BY <1>3, PrecedesOrders, PrecedesIsTransitive
  <2>2. y \in Upto(y) /\ y \notin Upto(x)
    BY <1>2, <1>3
  <2>3. Cardinality(Upto(x)) <= Cardinality(Upto(y)) /\ Cardinality(Upto(x)) # Cardinality(Upto(y))
    BY <1>2, <2>1, <2>2, FS_Subset
  <2> HIDE DEF Upto, n
  <2> QED
    BY <1>1, <1>2, <2>3
<1> HIDE DEF Upto, n
<1>4. P \in [S -> 1..n] /\ \A x, y \in S : P[x] = P[y] => x = y
  <2>1. P \in [S -> 1..n]
    BY <1>2
  <2>2. ASSUME NEW x \in S, NEW y \in S, P[x] = P[y], x # y
        PROVE  FALSE
    <3>1. Precedes(key[x], key[y]) \/ Precedes(key[y], key[x])
      BY <2>2, PrecedesOrders
    <3>2. P[x] < P[y] \/ P[y] < P[x]
      BY <1>3, <3>1
    <3> QED
      BY <1>1, <2>1, <2>2, <3>2
  <2> QED
    BY <2>1, <2>2
<1>5. \A k \in 1..n : \E x \in S : Standing(S, key, x) = k
  <2>1. P \in Injection(S, 1..n)
    BY <1>4 DEF Injection, IsInjective
  <2>2. P \in Surjection(S, 1..n)
    BY <1>1, <2>1, FS_Injection DEF n
  <2> QED
    BY <2>2 DEF Surjection
<1>6. \A k \in 1..n : q(k) \in S /\ Standing(S, key, q(k)) = k
  <2>1. ASSUME NEW k \in 1..n
        PROVE  q(k) \in S /\ Standing(S, key, q(k)) = k
    BY <1>5, <2>1
  <2> HIDE DEF q
  <2> QED
    BY <2>1
<1>7. \A x \in S : Standing(S, key, x) \in 1..n /\ q(Standing(S, key, x)) = x
  <2>1. ASSUME NEW x \in S
        PROVE  Standing(S, key, x) \in 1..n
    BY <1>4
  <2> HIDE DEF q
  <2> QED
    BY <1>4, <1>6, <2>1
<1>8. Sorted(S, key) = [k \in 1..n |-> q(k)]
  BY DEF Sorted, n
<1> HIDE DEF q, P
<1>9. Sorted(S, key) \in [1..n -> S]
  BY <1>6, <1>8
<1>10. IsInjective(Sorted(S, key))
  BY <1>6, <1>8 DEF IsInjective
<1>11. ToSet(Sorted(S, key)) = S
  BY <1>6, <1>7, <1>8 DEF ToSet
<1> QED
  BY <1>1, <1>9, <1>10, <1>11 DEF n
-----------------------------------------------------------------------------
(* The projection.                                                         *)

Link == Page \X Target \X (DOMAIN Declared)

LEMMA Numbers ==
  ASSUME ReaderAssumption
  PROVE  /\ Page \subseteq Nat /\ Target \subseteq Page /\ IsFiniteSet(Page)
         /\ Len(Declared) \in Nat /\ DOMAIN Declared = 1..Len(Declared)
         /\ Link \subseteq Triple
<1>1. Page \subseteq Nat /\ Target \subseteq Page /\ IsFiniteSet(Page)
  BY DEF ReaderAssumption, ProjectionAssumption, SourceAssumption
<1>2. Declared \in Seq([owner : Kind, target : Kind])
  BY DEF ReaderAssumption, ProjectionAssumption
<1>3. Len(Declared) \in Nat /\ DOMAIN Declared = 1..Len(Declared)
  BY <1>2
<1>4. DOMAIN Declared \subseteq Nat
  BY <1>3
<1> QED
  BY <1>1, <1>3, <1>4 DEF Link, Triple

(* The members of a list of triples, and those that became relations, are  *)
(* finitely many.                                                          *)
LEMMA FiniteMembers ==
  ASSUME NEW S, NEW s \in Seq(S)
  PROVE  IsFiniteSet(ToSet(s)) /\ ToSet(s) \subseteq S
<1>1. s \in [1..Len(s) -> S] /\ Len(s) \in Nat
  OBVIOUS
<1>2. IsFiniteSet(1..Len(s))
  BY <1>1, FS_Interval
<1>3. s \in Surjection(1..Len(s), ToSet(s))
  BY <1>1 DEF Surjection, ToSet
<1> QED
  BY <1>1, <1>2, <1>3, FS_Surjection DEF ToSet

LEMMA RelationIds ==
  ASSUME ReaderAssumption, NEW l \in Link
  PROVE  RelationId(l) \in Triple
BY Numbers DEF Link, Triple, RelationId

(* Of the links with one identity one is kept.                             *)
LEMMA KeptDiffer ==
  ASSUME ReaderAssumption, NEW all \in SUBSET Link,
         NEW l \in Kept(all), NEW m \in Kept(all), RelationId(l) = RelationId(m)
  PROVE  l = m
<1>1. l \in Triple /\ m \in Triple /\ ~Precedes(l, m) /\ ~Precedes(m, l)
  BY Numbers DEF Kept
<1> QED
  BY <1>1, PrecedesOrders

LEMMA RelationsOfProjection ==
  ASSUME ReaderAssumption, NEW pages, NEW ls \in Seq(Link), NEW items
  PROVE  LET relations == Normalize(pages, ls, items).relations IN
         /\ relations = Materialize(ls)
         /\ relations \in [1..Cardinality(Kept(ToSet(ls))) -> Kept(ToSet(ls))]
         /\ IsInjective(relations) /\ ToSet(relations) = Kept(ToSet(ls))
         /\ IsFiniteSet(Kept(ToSet(ls))) /\ Kept(ToSet(ls)) \subseteq ToSet(ls)
<1> DEFINE kept == Kept(ToSet(ls))
           key == [l \in kept |-> RelationId(l)]
<1>1. IsFiniteSet(ToSet(ls)) /\ ToSet(ls) \subseteq Link
  BY FiniteMembers
<1>2. kept \subseteq ToSet(ls) /\ IsFiniteSet(kept)
  <2>1. kept \subseteq ToSet(ls)
    BY DEF Kept
  <2> QED
    BY <1>1, <2>1, FS_Subset
<1>3. \A l \in kept : key[l] \in Triple
  BY <1>1, <1>2, RelationIds
<1>4. \A l, m \in kept : key[l] = key[m] => l = m
  BY <1>1, KeptDiffer
<1>5. Normalize(pages, ls, items).relations = Sorted(kept, key)
  BY DEF Normalize, Materialize
<1>6. Materialize(ls) = Sorted(kept, key)
  BY DEF Materialize
<1> HIDE DEF kept, key
<1>7. /\ Sorted(kept, key) \in [1..Cardinality(kept) -> kept]
      /\ IsInjective(Sorted(kept, key)) /\ ToSet(Sorted(kept, key)) = kept
  BY <1>2, <1>3, <1>4, SortedPermutes
<1> QED
  BY <1>2, <1>5, <1>6, <1>7 DEF kept

LEMMA InOrderKeeps ==
  ASSUME NEW S, IsFiniteSet(S), S \subseteq Triple
  PROVE  /\ ToSet(InOrder(S)) = S
         /\ \E n \in Nat : InOrder(S) \in [1..n -> S]
<1> DEFINE key == [t \in S |-> t]
<1>1. InOrder(S) = Sorted(S, key)
  BY DEF InOrder
<1>2. (\A x \in S : key[x] \in Triple) /\ \A x, y \in S : key[x] = key[y] => x = y
  OBVIOUS
<1> HIDE DEF key
<1> QED
  BY <1>1, <1>2, SortedPermutes

LEMMA EvidenceOfProjection ==
  ASSUME ReaderAssumption, NEW pages, NEW ls, NEW items,
         IsFiniteSet(items), items \subseteq Page \X (DOMAIN Declared) \X Nat
  PROVE  ToSet(Normalize(pages, ls, items).evidence) = items
<1>1. items \subseteq Triple
  BY Numbers DEF Triple
<1> QED
  BY <1>1, InOrderKeeps DEF Normalize

(* The pages of a projection are the pages that were read.                 *)
LEMMA PagesOfProjection ==
  ASSUME ReaderAssumption, NEW pages \in SUBSET Page, NEW ls, NEW items
  PROVE  Pages(Normalize(pages, ls, items)) = pages
<1> DEFINE N == Normalize(pages, ls, items)
           Own(k) == {p \in pages : KindOf[p] = k}
           key(k) == [p \in Own(k) |-> <<p, 0, 0>>]
<1>1. ASSUME NEW k \in Kind
      PROVE  Ids(N, k) = Own(k)
  <2>1. IsFiniteSet(Own(k)) /\ Own(k) \subseteq Nat
    <3>1. Own(k) \in SUBSET Page
      OBVIOUS
    <3> QED
      BY <3>1, Numbers, FS_Subset
  <2>2. (\A p \in Own(k) : key(k)[p] \in Triple) /\ \A p, q \in Own(k) : key(k)[p] = key(k)[q] => p = q
    BY <2>1 DEF Triple
  <2> DEFINE ids == Sorted(Own(k), key(k))
  <2>3. ToSet(ids) = Own(k)
    <3> HIDE DEF Own, key
    <3> QED
      BY <2>1, <2>2, SortedPermutes
  <2>4. N.entities[k] = [i \in DOMAIN ids |-> Entity(ids[i])]
    BY DEF Normalize, Listed
  <2>5. \A p : Entity(p).id = p
    BY DEF ReaderAssumption, ProjectionAssumption, Entity, KuzushijiEntity, ArtEntity, PhilosophyEntity
  <2> HIDE DEF N, ids
  <2>6. Ids(N, k) = ToSet(ids)
    BY <2>4, <2>5 DEF Ids, ToSet
  <2> QED
    BY <2>3, <2>6
<1>2. \A p \in pages : KindOf[p] \in Kind
  BY DEF ReaderAssumption, ProjectionAssumption
<1> HIDE DEF N
<1> QED
  BY <1>1, <1>2 DEF Pages, N
-----------------------------------------------------------------------------
(* Counting.                                                               *)

(* The members of a list without repetitions are as many as their places.  *)
LEMMA PlacesCountMembers ==
  ASSUME NEW n \in Nat, NEW s, DOMAIN s = 1..n, IsInjective(s), NEW T \in SUBSET ToSet(s)
  PROVE  IsFiniteSet(T) /\ Cardinality({i \in DOMAIN s : s[i] \in T}) = Cardinality(T)
<1> DEFINE I == {i \in DOMAIN s : s[i] \in T}
           f == [i \in I |-> s[i]]
<1>1. IsFiniteSet(I)
  <2>1. IsFiniteSet(1..n) /\ I \in SUBSET (1..n)
    BY FS_Interval
  <2> QED
    BY <2>1, FS_Subset
<1>2. f \in Surjection(I, T)
  BY DEF Surjection, ToSet
<1>3. f \in Injection(I, T)
  BY DEF Injection, IsInjective
<1> HIDE DEF I, f
<1> QED
  BY <1>1, <1>2, <1>3, FS_Surjection DEF I

(* Every link but that of a page to itself is represented by a relation.   *)
LEMMA KeptRepresents ==
  ASSUME ReaderAssumption, NEW all \in SUBSET Link, NEW l \in all, Directed \/ l[1] # l[2]
  PROVE  \E r \in Kept(all) : /\ RelationId(r) = RelationId(l)
                              /\ {r[1], r[2]} = {l[1], l[2]} /\ r[3] = l[3]
<1>1. l \in Triple /\ l \in Link /\ l = <<l[1], l[2], l[3]>>
  BY Numbers DEF Triple
<1>2. CASE Directed
  <2>1. \A m \in all : RelationId(m) = RelationId(l) => m = l
    BY <1>2 DEF RelationId
  <2>2. ~Precedes(l, l)
    BY <1>1, PrecedesOrders
  <2>3. l \in Kept(all)
    BY <1>2, <2>1, <2>2 DEF Kept
  <2> QED
    BY <2>3
<1>3. CASE ~Directed
  <2> DEFINE twin == <<l[2], l[1], l[3]>>
  <2>1. l[1] \in Nat /\ l[2] \in Nat /\ l[1] # l[2] /\ twin \in Triple
    BY <1>1, <1>3 DEF Triple
  <2>2. ASSUME NEW m \in all, RelationId(m) = RelationId(l)
        PROVE  m = l \/ m = twin
    <3>1. m \in Triple /\ m = <<m[1], m[2], m[3]>>
      BY Numbers DEF Triple
    <3> QED
      BY <1>1, <1>3, <2>2, <3>1 DEF RelationId
  <2>3. RelationId(twin) = RelationId(l)
    BY <1>1, <1>3, <2>1 DEF RelationId
  <2>4. ~Precedes(l, l) /\ ~Precedes(twin, twin) /\ ~(Precedes(l, twin) /\ Precedes(twin, l))
    BY <1>1, <2>1, PrecedesOrders
  <2>5. CASE twin \in all /\ Precedes(twin, l)
    <3>1. twin \in Kept(all)
      BY <2>1, <2>2, <2>3, <2>4, <2>5 DEF Kept
    <3> QED
      BY <2>3, <3>1
  <2>6. CASE ~(twin \in all /\ Precedes(twin, l))
    <3>1. l \in Kept(all)
      BY <2>1, <2>2, <2>4, <2>6 DEF Kept
    <3> QED
      BY <3>1
  <2> QED
    BY <2>5, <2>6
<1> QED
  BY <1>2, <1>3

LinksOf(all, p, d)     == {l \in all : OwnerOf(l) = <<p, d>>}
RelationsAt(all, p, d) == {r \in Kept(all) : p \in {r[1], r[2]} /\ r[3] = d}
LoopAt(all, p, d)      == IF <<p, p, d>> \in all THEN 1 ELSE 0

(* The relations a page takes part in are no fewer than its links through  *)
(* one property, but for the link to itself.                               *)
LEMMA RelationsCountLinks ==
  ASSUME ReaderAssumption, NEW all \in SUBSET Link, IsFiniteSet(all), NEW p \in Page, NEW d
  PROVE  Cardinality(LinksOf(all, p, d)) <= Cardinality(RelationsAt(all, p, d)) + LoopAt(all, p, d)
<1> DEFINE O == {l \in all : OwnerOf(l) = <<p, d>>}
           W == {r \in Kept(all) : p \in {r[1], r[2]} /\ r[3] = d}
           Away == {l \in O : l[2] # p}
           f == [l \in Away |-> CHOOSE r \in Kept(all) :
                    /\ RelationId(r) = RelationId(l)
                    /\ {r[1], r[2]} = {l[1], l[2]} /\ r[3] = l[3]]
<1>1. W \in SUBSET all /\ IsFiniteSet(W)
  <2>1. W \in SUBSET all
    BY DEF Kept
  <2> QED
    BY <2>1, FS_Subset
<1>2. ASSUME NEW l \in Away
      PROVE  f[l] \in W /\ RelationId(f[l]) = RelationId(l)
  <2>1. l \in all /\ l[1] = p /\ l[1] # l[2] /\ l[3] = d
    BY DEF OwnerOf
  <2>2. \E r \in Kept(all) : /\ RelationId(r) = RelationId(l)
                             /\ {r[1], r[2]} = {l[1], l[2]} /\ r[3] = l[3]
    BY <2>1, KeptRepresents
  <2>3. /\ f[l] \in Kept(all) /\ RelationId(f[l]) = RelationId(l)
        /\ {f[l][1], f[l][2]} = {l[1], l[2]} /\ f[l][3] = l[3]
    BY <2>2
  <2> HIDE DEF f
  <2> QED
    BY <2>1, <2>3
<1>3. ASSUME NEW l \in Away, NEW m \in Away, RelationId(l) = RelationId(m)
      PROVE  l = m
  <2>1. /\ l \in Triple /\ l = <<l[1], l[2], l[3]>> /\ l[1] = p /\ l[3] = d /\ l[2] # p
        /\ m \in Triple /\ m = <<m[1], m[2], m[3]>> /\ m[1] = p /\ m[3] = d /\ m[2] # p
    BY Numbers DEF OwnerOf, Triple
  <2> QED
    BY <1>3, <2>1 DEF RelationId
<1>4. f \in Injection(Away, W)
  <2>1. f \in [Away -> W]
    BY <1>2
  <2>2. \A l, m \in Away : f[l] = f[m] => l = m
    <3> HIDE DEF f, Away
    <3> QED
      BY <1>2, <1>3
  <2> HIDE DEF f, Away, W
  <2> QED
    BY <2>1, <2>2 DEF Injection, IsInjective
<1> HIDE DEF f, W
<1>5. IsFiniteSet(Away) /\ Cardinality(Away) <= Cardinality(W)
  BY <1>1, <1>4, FS_Injection
<1>6. Cardinality(W) \in Nat /\ Cardinality(Away) \in Nat
  BY <1>1, <1>5, FS_CardinalityType
<1>7. CASE <<p, p, d>> \in all
  <2>1. O = Away \cup {<<p, p, d>>}
    <3>1. ASSUME NEW l \in O, l[2] = p
          PROVE  l = <<p, p, d>>
      BY <3>1 DEF OwnerOf, Link
    <3>2. <<p, p, d>> \in O
      BY <1>7 DEF OwnerOf
    <3> QED
      BY <3>1, <3>2
  <2>2. Cardinality(O) <= Cardinality(Away) + 1
    <3> DEFINE self == <<p, p, d>>
    <3> HIDE DEF Away, O, self
    <3>1. Cardinality(Away \cup {self}) = IF self \in Away THEN Cardinality(Away) ELSE Cardinality(Away) + 1
      BY <1>5, FS_AddElement
    <3>2. Cardinality(Away \cup {self}) <= Cardinality(Away) + 1
      BY <1>6, <3>1
    <3> QED
      BY <2>1, <3>2 DEF self
  <2> HIDE DEF Away, O
  <2>3. Cardinality(O) \in Nat
    BY <1>5, <2>1, FS_AddElement, FS_CardinalityType
  <2> QED
    BY <1>5, <1>6, <1>7, <2>2, <2>3 DEF O, W, LinksOf, RelationsAt, LoopAt
<1>8. CASE <<p, p, d>> \notin all
  <2>1. O = Away
    BY <1>8 DEF OwnerOf, Link
  <2>2. Cardinality(O) = Cardinality(Away)
    BY <2>1
  <2> HIDE DEF Away, O
  <2>3. Cardinality(O) <= Cardinality(W) + 0
    BY <1>5, <1>6, <2>2
  <2> QED
    BY <1>8, <2>3 DEF O, W, LinksOf, RelationsAt, LoopAt
<1> QED
  BY <1>7, <1>8
-----------------------------------------------------------------------------
(* What the invariant says of a published projection.                      *)

Sound == StrictTypeOK /\ QueriedSoFar /\ CrawledSoFar /\ LinksAreTrue /\ PublishedAsRead

(* A page is read, and lives, in the data source of its kind.              *)
LEMMA PagesByKind ==
  ASSUME ReaderAssumption, StrictTypeOK
  PROVE  /\ AllPages \subseteq Page /\ Live \subseteq Page
         /\ \A p \in Page : /\ KindOf[p] \in Kind
                            /\ p \in AllPages <=> p \in ToSet(got[KindOf[p]])
                            /\ p \in Live <=> p \in ToSet(order[KindOf[p]])
<1>1. \A p \in Page : KindOf[p] \in Kind
  BY DEF ReaderAssumption, ProjectionAssumption
<1>2. ASSUME NEW k \in Kind
      PROVE  ToSet(got[k]) \subseteq Of(k) /\ ToSet(order[k]) \subseteq Of(k)
  BY FiniteMembers DEF StrictTypeOK, Distinct
<1> QED
  BY <1>1, <1>2 DEF AllPages, Live, Of

LEMMA WhatIsPublished ==
  ASSUME ReaderAssumption, Sound, published # Unpublished
  PROVE  /\ published = Projected /\ complete = Kind
         /\ Pages(published) = AllPages
         /\ links \in Seq(Link) /\ (Directed => IsInjective(links))
         /\ ToSet(published.evidence) = evidence
         /\ published.relations \in [1..Cardinality(Kept(ToSet(links))) -> Kept(ToSet(links))]
         /\ IsInjective(published.relations)
         /\ ToSet(published.relations) = Kept(ToSet(links))
         /\ IsFiniteSet(Kept(ToSet(links))) /\ Kept(ToSet(links)) \subseteq ToSet(links)
         /\ {CountedOf(e) : e \in evidence} = ToRead
<1>1. published = Projected /\ todo = <<>> /\ Resolved(links, AllPages)
  BY DEF Sound, PublishedAsRead
<1>2. status = "published" /\ complete = Kind
  BY DEF Sound, StrictTypeOK, QueriedSoFar
<1>3. links \in Seq(Link) /\ IsFiniteSet(evidence) /\ evidence \subseteq Page \X (DOMAIN Declared) \X Nat
  BY DEF Sound, StrictTypeOK, Link
<1>4. Pages(published) = AllPages
  BY <1>1, PagesByKind, PagesOfProjection DEF Sound, Projected
<1>5. ToSet(published.evidence) = evidence
  BY <1>1, <1>3, EvidenceOfProjection DEF Projected
<1>6. {CountedOf(e) : e \in evidence} = ToRead
  BY <1>1, <1>2 DEF Sound, CrawledSoFar, ToSet
<1>7. Directed => IsInjective(links)
  BY <1>1 DEF Resolved
<1>8. LET relations == published.relations IN
         /\ relations \in [1..Cardinality(Kept(ToSet(links))) -> Kept(ToSet(links))]
         /\ IsInjective(relations) /\ ToSet(relations) = Kept(ToSet(links))
         /\ IsFiniteSet(Kept(ToSet(links))) /\ Kept(ToSet(links)) \subseteq ToSet(links)
  BY <1>1, <1>3, RelationsOfProjection DEF Projected
<1> QED
  BY <1>1, <1>2, <1>3, <1>4, <1>5, <1>6, <1>7, <1>8

LEMMA SoundIsExact ==
  ASSUME ReaderAssumption, Sound
  PROVE  SteadyIsExact
<1> SUFFICES ASSUME published # Unpublished, NEW p \in Steady
             PROVE  /\ p \in Pages(published) <=> p \in Live
                    /\ \A r \in ToSet(published.relations) :
                          r[1] = p => r[2] \in ToSet(link[<<p, r[3]>>])
                    /\ \A o \in Owners : o[1] = p /\ p \in Live =>
                          \A t \in ToSet(link[o]) : {p, t} \subseteq Visible(published) /\ (Directed \/ t # p) =>
                             \E e \in Edges(published) : RelationId(e) = RelationId(<<p, t, o[2]>>)
  BY DEF SteadyIsExact
<1>1. p \in Page
  BY DEF Steady
<1>2. p \in Pages(published) <=> p \in Live
  <2>1. p \in ToSet(got[KindOf[p]]) <=> p \in ToSet(order[KindOf[p]])
    BY <1>1, WhatIsPublished, PagesByKind DEF Sound, QueriedSoFar
  <2> QED
    BY <1>1, <2>1, WhatIsPublished, PagesByKind DEF Sound
<1>3. ASSUME NEW r \in ToSet(published.relations), r[1] = p
      PROVE  r[2] \in ToSet(link[<<p, r[3]>>])
  <2>1. r \in ToSet(links)
    BY WhatIsPublished
  <2>2. PICK i \in DOMAIN links : r = links[i]
    BY <2>1 DEF ToSet
  <2> QED
    BY <1>3, <2>2 DEF Sound, LinksAreTrue, OwnerOf
<1>4. ASSUME NEW o \in Owners, o[1] = p, p \in Live, NEW t \in ToSet(link[o]),
             {p, t} \subseteq Visible(published), Directed \/ t # p
      PROVE  \E e \in Edges(published) : RelationId(e) = RelationId(<<p, t, o[2]>>)
  <2>1. o = <<p, o[2]>>
    BY <1>4 DEF Owners
  <2>2. o \in ToRead
    BY <1>2, <1>4, WhatIsPublished DEF ToRead
  <2>3. PICK e \in evidence : CountedOf(e) = o
    BY <2>2, WhatIsPublished
  <2>4. e[1] = p /\ e[2] = o[2]
    BY <2>1, <2>3 DEF CountedOf
  <2>5. <<p, t, o[2]>> \in ToSet(links)
    BY <1>4, <2>3, <2>4 DEF Sound, LinksAreTrue
  <2>6. ToSet(links) \subseteq Link
    BY WhatIsPublished, FiniteMembers
  <2> DEFINE l == <<p, t, o[2]>>
  <2>7. l[1] = p /\ l[2] = t /\ l \in ToSet(links) /\ (Directed \/ l[1] # l[2])
    BY <1>4, <2>5
  <2> HIDE DEF l
  <2>8. PICK r \in Kept(ToSet(links)) : RelationId(r) = RelationId(l) /\ {r[1], r[2]} = {p, t}
    BY <2>6, <2>7, KeptRepresents
  <2>9. r \in Edges(published)
    BY <1>4, <2>8, WhatIsPublished DEF Edges
  <2> QED
    BY <2>8, <2>9 DEF l
<1> QED
  BY <1>2, <1>3, <1>4

LEMMA SoundForgetsOrder ==
  ASSUME ReaderAssumption, Sound
  PROVE  OrderIsForgotten
<1> SUFFICES ASSUME published # Unpublished
             PROVE  published = Normalize(AllPages, InOrder(ToSet(links)), evidence)
  BY DEF OrderIsForgotten
<1>1. published = Normalize(AllPages, links, evidence) /\ links \in Seq(Link)
  BY WhatIsPublished DEF Projected
<1>2. ToSet(InOrder(ToSet(links))) = ToSet(links)
  BY <1>1, FiniteMembers, Numbers, InOrderKeeps
<1>3. Materialize(InOrder(ToSet(links))) = Materialize(links)
  BY <1>2 DEF Materialize
<1> QED
  BY <1>1, <1>3 DEF Normalize

LEMMA SoundAccounts ==
  ASSUME ReaderAssumption, Sound
  PROVE  EvidenceAccounts
<1> SUFFICES ASSUME published # Unpublished
             PROVE  LET all == ToSet(published.evidence)
                    IN  /\ {<<e[1], e[2]>> : e \in all} = Owed(published)
                        /\ \A e \in all :
                            /\ Related(published, e[1], e[2]) <= e[3]
                            /\ e[3] <= Cardinality({r \in ToSet(published.relations) :
                                            e[1] \in {r[1], r[2]} /\ r[3] = e[2]})
                                       + IF <<e[1], e[1], e[2]>> \in ToSet(links) THEN 1 ELSE 0
  BY DEF EvidenceAccounts
<1>1. {<<e[1], e[2]>> : e \in evidence} = Owed(published)
  <2>1. ToRead = Owed(published)
    BY WhatIsPublished, PagesByKind DEF Sound, ToRead, Owners, Owed
  <2> QED
    BY <2>1, WhatIsPublished DEF CountedOf
<1> DEFINE all == ToSet(links)
           kept == Kept(all)
           R == published.relations
<1>2. /\ links \in Seq(Link) /\ IsFiniteSet(all) /\ all \subseteq Link
      /\ Len(links) \in Nat /\ DOMAIN links = 1..Len(links) /\ IsInjective(links)
  BY WhatIsPublished, FiniteMembers DEF Sound, CrawledSoFar
<1>3. /\ R \in [1..Cardinality(kept) -> kept] /\ IsInjective(R) /\ ToSet(R) = kept
      /\ IsFiniteSet(kept) /\ kept \subseteq all /\ Cardinality(kept) \in Nat
  BY WhatIsPublished, FS_CardinalityType
<1>4. ASSUME NEW e \in evidence
      PROVE  /\ Related(published, e[1], e[2]) <= e[3]
             /\ e[3] <= Cardinality({r \in kept : e[1] \in {r[1], r[2]} /\ r[3] = e[2]})
                        + IF <<e[1], e[1], e[2]>> \in all THEN 1 ELSE 0
  <2> DEFINE O == {l \in all : OwnerOf(l) = <<e[1], e[2]>>}
             OK == {l \in kept : l[1] = e[1] /\ l[3] = e[2]}
  <2>1. e[1] \in Page /\ e[3] = Cardinality({i \in DOMAIN links : OwnerOf(links[i]) = <<e[1], e[2]>>})
    BY DEF Sound, StrictTypeOK, CrawledSoFar, CountedOf
  <2>2. e[3] = Cardinality(O) /\ IsFiniteSet(O)
    <3>1. {i \in DOMAIN links : OwnerOf(links[i]) = <<e[1], e[2]>>} = {i \in DOMAIN links : links[i] \in O}
      BY DEF ToSet
    <3>2. O \in SUBSET all
      OBVIOUS
    <3> HIDE DEF O
    <3> QED
      BY <1>2, <2>1, <3>1, <3>2, PlacesCountMembers
  <2>3. Related(published, e[1], e[2]) = Cardinality(OK)
    <3>1. {i \in DOMAIN R : R[i][1] = e[1] /\ R[i][3] = e[2]} = {i \in DOMAIN R : R[i] \in OK}
      BY <1>3 DEF ToSet
    <3>2. OK \in SUBSET ToSet(R) /\ DOMAIN R = 1..Cardinality(kept)
      BY <1>3
    <3> HIDE DEF OK, R
    <3>3. Cardinality({i \in DOMAIN R : R[i] \in OK}) = Cardinality(OK)
      BY <1>3, <3>2, PlacesCountMembers
    <3> QED
      BY <3>1, <3>3 DEF Related, R
  <2>4. OK \in SUBSET O
    BY <1>3 DEF OwnerOf
  <2>5. Cardinality(OK) <= Cardinality(O)
    <3> HIDE DEF OK, O
    <3> QED
      BY <2>2, <2>4, FS_Subset
  <2>6. Cardinality(O) <= Cardinality({r \in kept : e[1] \in {r[1], r[2]} /\ r[3] = e[2]})
                          + IF <<e[1], e[1], e[2]>> \in all THEN 1 ELSE 0
    <3> HIDE DEF all
    <3>1. all \in SUBSET Link /\ e[1] \in Page
      BY <1>2, <2>1
    <3>2. Cardinality(LinksOf(all, e[1], e[2]))
            <= Cardinality(RelationsAt(all, e[1], e[2])) + LoopAt(all, e[1], e[2])
      BY <1>2, <3>1, RelationsCountLinks
    <3> QED
      BY <3>2 DEF LinksOf, RelationsAt, LoopAt
  <2> HIDE DEF O, OK
  <2> QED
    BY <2>2, <2>3, <2>5, <2>6
<1> QED
  BY <1>1, <1>4, WhatIsPublished
-----------------------------------------------------------------------------
(* Lists that are edited.                                                  *)

LEMMA ConsKeepsOrder ==
  ASSUME NEW S, NEW s, Distinct(s, S), NEW x \in S, x \notin ToSet(s)
  PROVE  /\ Distinct(Cons(x, s), S)
         /\ ToSet(Cons(x, s)) = ToSet(s) \cup {x}
         /\ \A a, b : a # x /\ Before(Cons(x, s), a, b) => Before(s, a, b)
<1> DEFINE c == Cons(x, s)
<1>1. s \in Seq(S) /\ Len(s) \in Nat /\ DOMAIN s = 1..Len(s) /\ IsInjective(s)
  BY DEF Distinct
<1>2. /\ c \in Seq(S) /\ DOMAIN c = 1..(Len(s) + 1)
      /\ c[1] = x /\ \A i \in 1..Len(s) : c[i + 1] = s[i]
  BY <1>1 DEF Cons
<1> HIDE DEF c
<1>3. \A i \in DOMAIN c : i = 1 \/ (i - 1 \in DOMAIN s /\ c[i] = s[i - 1])
  <2>1. ASSUME NEW i \in DOMAIN c, i # 1
        PROVE  i - 1 \in 1..Len(s) /\ c[(i - 1) + 1] = s[i - 1] /\ (i - 1) + 1 = i
    BY <1>1, <1>2, <2>1
  <2> QED
    BY <1>1, <2>1
<1>4. ToSet(c) = ToSet(s) \cup {x}
  <2>1. \A i \in DOMAIN s : i + 1 \in DOMAIN c /\ c[i + 1] = s[i]
    BY <1>1, <1>2
  <2>2. 1 \in DOMAIN c
    BY <1>1, <1>2
  <2>3. ToSet(c) \subseteq ToSet(s) \cup {x}
    <3>1. ASSUME NEW i \in DOMAIN c
          PROVE  c[i] \in ToSet(s) \cup {x}
      BY <1>2, <1>3 DEF ToSet
    <3> QED
      BY <3>1 DEF ToSet
  <2>4. ToSet(s) \cup {x} \subseteq ToSet(c)
    <3>1. \A i \in DOMAIN s : s[i] \in ToSet(c)
      BY <2>1 DEF ToSet
    <3>2. x \in ToSet(c)
      BY <1>2, <2>2 DEF ToSet
    <3> QED
      BY <3>1, <3>2 DEF ToSet
  <2> QED
    BY <2>3, <2>4
<1>5. IsInjective(c)
  <2>1. ASSUME NEW i \in DOMAIN c, NEW j \in DOMAIN c, c[i] = c[j]
        PROVE  i = j
    <3>1. i \in Nat /\ j \in Nat
      BY <1>1, <1>2
    <3> QED
      BY <1>1, <1>2, <1>3, <2>1, <3>1 DEF IsInjective, ToSet
  <2> QED
    BY <2>1 DEF IsInjective
<1>6. ASSUME NEW a, NEW b, a # x, Before(c, a, b)
      PROVE  Before(s, a, b)
  <2>1. PICK i \in DOMAIN c, j \in DOMAIN c : i < j /\ c[i] = a /\ c[j] = b
    BY <1>6 DEF Before
  <2>2. i \in Nat /\ j \in Nat /\ i # 1 /\ j # 1
    BY <1>1, <1>2, <1>6, <2>1
  <2>3. i - 1 \in DOMAIN s /\ j - 1 \in DOMAIN s /\ i - 1 < j - 1 /\ s[i - 1] = a /\ s[j - 1] = b
    BY <1>3, <2>1, <2>2
  <2> QED
    BY <2>3 DEF Before
<1> QED
  BY <1>2, <1>4, <1>5, <1>6 DEF Distinct, c

LEMMA WithoutKeepsOrder ==
  ASSUME NEW S, NEW s, Distinct(s, S), NEW x \in ToSet(s)
  PROVE  /\ Distinct(Without(s, x), S)
         /\ ToSet(Without(s, x)) = ToSet(s) \ {x}
         /\ \A a, b : Before(Without(s, x), a, b) => Before(s, a, b)
<1> DEFINE w == Without(s, x)
           n == Place(s, x)
           up(i) == IF i < n THEN i ELSE i + 1
<1>1. s \in Seq(S) /\ Len(s) \in Nat /\ DOMAIN s = 1..Len(s) /\ IsInjective(s)
  BY DEF Distinct
<1>2. n \in 1..Len(s) /\ s[n] = x
  <2>1. \E i \in DOMAIN s : s[i] = x
    BY DEF ToSet
  <2> QED
    BY <1>1, <2>1 DEF Place
<1> HIDE DEF n
<1>3. /\ w \in Seq(S) /\ DOMAIN w = 1..(Len(s) - 1)
      /\ \A i \in 1..(Len(s) - 1) : w[i] = s[up(i)]
  <2> DEFINE l == SubSeq(s, 1, n - 1)
             r == SubSeq(s, n + 1, Len(s))
  <2>1. w = l \o r
    BY DEF Without, RemoveAt, n
  <2>2. l \in Seq(S) /\ Len(l) = n - 1 /\ \A i \in 1..(n - 1) : l[i] = s[i]
    <3>1. \A i \in 1..(n - 1) : s[i] \in S
      BY <1>1, <1>2
    <3>2. /\ l \in Seq(S)
          /\ Len(l) = IF 1 <= n - 1 THEN (n - 1) - 1 + 1 ELSE 0
          /\ \A i \in 1..((n - 1) - 1 + 1) : l[i] = s[1 + i - 1]
      BY <1>2, <3>1, SubSeqProperties
    <3> HIDE DEF l
    <3> QED
      BY <1>2, <3>2
  <2>3. r \in Seq(S) /\ Len(r) = Len(s) - n /\ \A i \in 1..(Len(s) - n) : r[i] = s[i + n]
    <3>1. \A i \in (n + 1)..Len(s) : s[i] \in S
      BY <1>1, <1>2
    <3>2. /\ r \in Seq(S)
          /\ Len(r) = IF n + 1 <= Len(s) THEN Len(s) - (n + 1) + 1 ELSE 0
          /\ \A i \in 1..(Len(s) - (n + 1) + 1) : r[i] = s[(n + 1) + i - 1]
      BY <1>1, <1>2, <3>1, SubSeqProperties
    <3> HIDE DEF r
    <3>3. ASSUME NEW i \in 1..(Len(s) - n)
          PROVE  r[i] = s[i + n]
      <4>1. i \in 1..(Len(s) - (n + 1) + 1) /\ (n + 1) + i - 1 = i + n
        BY <1>1, <1>2
      <4> QED
        BY <3>2, <4>1
    <3>4. Len(r) = Len(s) - n
      <4>0. \A a \in Nat : \A b \in 1..a :
               a - b \in Nat /\ (b + 1 <= a <=> a - b # 0) /\ a - (b + 1) + 1 = a - b
        OBVIOUS
      <4>1. Len(s) - n \in Nat /\ (n + 1 <= Len(s) <=> Len(s) - n # 0) /\ Len(s) - (n + 1) + 1 = Len(s) - n
        BY <1>1, <1>2, <4>0
      <4>2. Len(r) = IF n + 1 <= Len(s) THEN Len(s) - n ELSE 0
        BY <3>2, <4>1
      <4> QED
        BY <4>1, <4>2
    <3> QED
      BY <3>2, <3>3, <3>4
  <2> HIDE DEF l, r
  <2>4. /\ l \o r \in Seq(S) /\ Len(l \o r) = Len(s) - 1
        /\ \A i \in 1..(Len(s) - 1) : (l \o r)[i] = IF i <= n - 1 THEN l[i] ELSE r[i - (n - 1)]
    <3>1. /\ l \o r \in Seq(S) /\ Len(l \o r) = Len(l) + Len(r)
          /\ \A i \in 1..(Len(l) + Len(r)) : (l \o r)[i] = IF i <= Len(l) THEN l[i] ELSE r[i - Len(l)]
      BY <2>2, <2>3, ConcatProperties
    <3>2. Len(l) + Len(r) = Len(s) - 1 /\ Len(l) = n - 1
      BY <1>1, <1>2, <2>2, <2>3
    <3> QED
      BY <3>1, <3>2
  <2>5. ASSUME NEW i \in 1..(Len(s) - 1)
        PROVE  (l \o r)[i] = s[up(i)]
    <3>1. CASE i < n
      BY <1>1, <1>2, <2>2, <2>4, <3>1
    <3>2. CASE ~(i < n)
      BY <1>1, <1>2, <2>3, <2>4, <3>2
    <3> QED
      BY <3>1, <3>2
  <2>6. DOMAIN (l \o r) = 1..(Len(s) - 1)
    BY <2>4
  <2> HIDE DEF up
  <2> QED
    BY <2>1, <2>4, <2>5, <2>6
<1> HIDE DEF w
<1>4. \A i \in DOMAIN w : up(i) \in DOMAIN s /\ up(i) # n /\ w[i] = s[up(i)]
  BY <1>1, <1>2, <1>3
<1>5. \A i, j \in DOMAIN w : (up(i) = up(j) => i = j) /\ (i < j => up(i) < up(j))
  BY <1>1, <1>2, <1>3
<1>6. \A m \in DOMAIN s : m # n => \E i \in DOMAIN w : up(i) = m
  <2>1. ASSUME NEW m \in DOMAIN s, m # n
        PROVE  \E i \in DOMAIN w : up(i) = m
    <3>1. CASE m < n
      BY <1>1, <1>2, <1>3, <3>1
    <3>2. CASE m > n
      <4>1. m - 1 \in DOMAIN w /\ up(m - 1) = m
        BY <1>1, <1>2, <1>3, <3>2
      <4> QED
        BY <4>1
    <3> QED
      BY <1>1, <1>2, <2>1, <3>1, <3>2
  <2> QED
    BY <2>1
<1> HIDE DEF up
<1>7. IsInjective(w)
  BY <1>1, <1>4, <1>5 DEF IsInjective
<1>8. ToSet(w) = ToSet(s) \ {x}
  <2>1. \A m \in DOMAIN s : s[m] = x <=> m = n
    BY <1>1, <1>2 DEF IsInjective
  <2>2. ToSet(w) \subseteq ToSet(s) \ {x}
    BY <1>4, <2>1 DEF ToSet
  <2>3. ASSUME NEW y \in ToSet(s), y # x
        PROVE  y \in ToSet(w)
    <3>1. PICK m \in DOMAIN s : s[m] = y
      BY DEF ToSet
    <3>2. PICK i \in DOMAIN w : up(i) = m
      BY <1>6, <2>1, <2>3, <3>1
    <3> QED
      BY <1>4, <3>1, <3>2 DEF ToSet
  <2> QED
    BY <2>2, <2>3
<1>9. ASSUME NEW a, NEW b, Before(w, a, b)
      PROVE  Before(s, a, b)
  <2>1. PICK i \in DOMAIN w, j \in DOMAIN w : i < j /\ w[i] = a /\ w[j] = b
    BY <1>9 DEF Before
  <2> QED
    BY <1>4, <1>5, <2>1 DEF Before
<1> QED
  BY <1>3, <1>7, <1>8, <1>9 DEF Distinct, w

(* An answer holds what stands from the cursor on; with it the reader has  *)
(* what stands before the next cursor, or all there is.                    *)
LEMMA BatchContinues ==
  ASSUME ReaderAssumption, NEW s, Distinct(s, Page), NEW at, Honoured(s, at)
  PROVE  /\ Distinct(Batch(s, at), ToSet(s))
         /\ HasMore(s, at) =>
               /\ NextCursor(s, at) \in ToSet(s) /\ NextCursor(s, at) # None
               /\ Passed(s, NextCursor(s, at)) = Passed(s, at) \cup ToSet(Batch(s, at))
         /\ ~HasMore(s, at) => ToSet(s) = Passed(s, at) \cup ToSet(Batch(s, at))
<1> DEFINE n == From(s, at)
           m == IF n + BatchSize - 1 < Len(s) THEN n + BatchSize - 1 ELSE Len(s)
<1>1. s \in Seq(Page) /\ Len(s) \in Nat /\ DOMAIN s = 1..Len(s) /\ IsInjective(s)
  BY DEF Distinct
<1>2. BatchSize \in Nat \ {0} /\ None \notin Page
  BY Numbers DEF ReaderAssumption, SourceAssumption
<1>3. n \in 1..(Len(s) + 1)
  <2>1. CASE at = None
    BY <1>1, <2>1 DEF From
  <2>2. CASE at # None
    <3>1. \E i \in DOMAIN s : s[i] = at
      BY <2>2 DEF Honoured, ToSet
    <3> QED
      BY <1>1, <2>2, <3>1 DEF From, Place
  <2> QED
    BY <2>1, <2>2
<1> HIDE DEF n
<1>4. m \in Nat /\ m <= Len(s) /\ n <= m + 1
  BY <1>1, <1>2, <1>3
<1>5. /\ Batch(s, at) \in [1..(m - n + 1) -> ToSet(s)]
      /\ \A i \in 1..(m - n + 1) : Batch(s, at)[i] = s[n + i - 1] /\ n + i - 1 \in n..m /\ n + i - 1 \in DOMAIN s
  <2>1. Batch(s, at) = SubSeq(s, n, m)
    BY DEF Batch, n
  <2> HIDE DEF m
  <2>2. SubSeq(s, n, m) = [i \in 1..(m - n + 1) |-> s[n + i - 1]]
    BY <1>1, <1>3, <1>4
  <2>3. \A i \in 1..(m - n + 1) : n + i - 1 \in n..m /\ n + i - 1 \in DOMAIN s
    BY <1>1, <1>3, <1>4
  <2> QED
    BY <2>1, <2>2, <2>3 DEF ToSet
<1>6. ToSet(Batch(s, at)) = {s[i] : i \in n..m}
  <2>1. \A i \in n..m : i - n + 1 \in 1..(m - n + 1) /\ n + (i - n + 1) - 1 = i
    BY <1>3, <1>4
  <2> HIDE DEF m
  <2> QED
    BY <1>5, <2>1 DEF ToSet
<1>7. Distinct(Batch(s, at), ToSet(s))
  <2>1. Batch(s, at) \in Seq(ToSet(s))
    <3>1. m - n + 1 \in Nat
      BY <1>3, <1>4
    <3> HIDE DEF m
    <3> QED
      BY <1>5, <3>1
  <2>2. IsInjective(Batch(s, at))
    <3>1. ASSUME NEW i \in 1..(m - n + 1), NEW j \in 1..(m - n + 1), Batch(s, at)[i] = Batch(s, at)[j]
          PROVE  i = j
      <4>1. n + i - 1 = n + j - 1
        BY <1>1, <1>5, <3>1 DEF IsInjective
      <4> QED
        BY <1>3, <4>1
    <3> HIDE DEF m
    <3> QED
      BY <1>5, <3>1 DEF IsInjective
  <2> QED
    BY <2>1, <2>2 DEF Distinct
<1>8. Passed(s, at) = {s[i] : i \in 1..(n - 1)}
  BY DEF Passed, n
<1>9. ASSUME HasMore(s, at)
      PROVE  /\ NextCursor(s, at) \in ToSet(s) /\ NextCursor(s, at) # None
             /\ Passed(s, NextCursor(s, at)) = Passed(s, at) \cup ToSet(Batch(s, at))
  <2>1. n + BatchSize \in 1..Len(s) /\ NextCursor(s, at) = s[n + BatchSize] /\ m = n + BatchSize - 1
    BY <1>1, <1>2, <1>3, <1>9 DEF HasMore, NextCursor, n
  <2>2. NextCursor(s, at) \in ToSet(s) /\ NextCursor(s, at) \in Page /\ NextCursor(s, at) # None
    BY <1>1, <1>2, <2>1 DEF ToSet
  <2>3. From(s, NextCursor(s, at)) = n + BatchSize
    <3>1. \A i \in DOMAIN s : s[i] = NextCursor(s, at) <=> i = n + BatchSize
      BY <1>1, <2>1 DEF IsInjective
    <3> QED
      BY <1>1, <2>1, <2>2, <3>1 DEF From, Place
  <2>4. Passed(s, NextCursor(s, at)) = {s[i] : i \in 1..m}
    BY <1>2, <1>3, <2>1, <2>3 DEF Passed
  <2>5. \A i : i \in 1..m <=> i \in 1..(n - 1) \/ i \in n..m
    BY <1>2, <1>3, <1>4, <2>1
  <2> HIDE DEF m
  <2> QED
    BY <1>6, <1>8, <2>2, <2>4, <2>5
<1>10. ASSUME ~HasMore(s, at)
       PROVE  ToSet(s) = Passed(s, at) \cup ToSet(Batch(s, at))
  <2>1. m = Len(s)
    BY <1>1, <1>2, <1>3, <1>10 DEF HasMore, n
  <2>2. \A i : i \in DOMAIN s <=> i \in 1..(n - 1) \/ i \in n..m
    BY <1>1, <1>3, <2>1
  <2> HIDE DEF m
  <2> QED
    BY <1>6, <1>8, <2>2 DEF ToSet
<1> QED
  BY <1>7, <1>9, <1>10

(* What stands before an item in the list.                                 *)
LEMMA PassedIsBefore ==
  ASSUME ReaderAssumption, NEW s, Distinct(s, Page), NEW at, Honoured(s, at), at # None
  PROVE  \A p : p \in Passed(s, at) <=> Before(s, p, at)
<1>1. s \in Seq(Page) /\ Len(s) \in Nat /\ DOMAIN s = 1..Len(s) /\ IsInjective(s)
  BY DEF Distinct
<1>2. PICK n \in DOMAIN s : s[n] = at
  BY DEF Honoured, ToSet
<1>3. \A i \in DOMAIN s : s[i] = at <=> i = n
  BY <1>1, <1>2 DEF IsInjective
<1>4. From(s, at) = n
  BY <1>2, <1>3 DEF From, Place
<1>5. \A i : i \in 1..(n - 1) <=> i \in DOMAIN s /\ i < n
  BY <1>1, <1>2
<1> QED
  BY <1>2, <1>3, <1>4, <1>5 DEF Passed, Before
-----------------------------------------------------------------------------
(* The invariant, step by step.                                            *)

LEMMA OrdersAreDistinct ==
  ASSUME NEW S, NEW s \in Orders(S)
  PROVE  Distinct(s, S)
<1>1. PICK n \in Int : n >= 0 /\ s \in [1..n -> S] /\ IsInjective(s)
  BY DEF Orders
<1>2. s \in Seq(S)
  BY <1>1
<1> QED
  BY <1>1, <1>2 DEF Distinct

LEMMA ReadingStarts ==
  ASSUME ReaderAssumption, Init
  PROVE  Sound
<1> USE DEF Init
<1>1. None \notin Page /\ MaxAttempts \in Nat \ {0} /\ Target \subseteq Page
  BY Numbers DEF ReaderAssumption, SourceAssumption
<1>2. /\ order \in [Kind -> Seq(Page)] /\ got \in [Kind -> Seq(Page)] /\ link \in [Owners -> Seq(Target)]
      /\ \A k \in Kind : Distinct(order[k], Of(k)) /\ Distinct(got[k], Of(k)) /\ Distinct(order[k], Page)
      /\ \A o \in Owners : Distinct(link[o], Target)
  <2>1. ASSUME NEW k \in Kind
        PROVE  order[k] \in Seq(Page) /\ Distinct(order[k], Of(k)) /\ Distinct(order[k], Page)
    <3>1. Distinct(order[k], Page) /\ ToSet(order[k]) \subseteq Of(k)
      BY OrdersAreDistinct
    <3>2. order[k] \in Seq(Of(k))
      BY <3>1 DEF Distinct, ToSet
    <3> QED
      BY <3>1, <3>2 DEF Distinct
  <2>2. ASSUME NEW o \in Owners
        PROVE  link[o] \in Seq(Target) /\ Distinct(link[o], Target)
    BY OrdersAreDistinct DEF Distinct
  <2>3. \A k \in Kind : got[k] = <<>>
    OBVIOUS
  <2>4. \A S : Distinct(<<>>, S)
    BY DEF Distinct, IsInjective
  <2> QED
    BY <2>1, <2>2, <2>3, <2>4
<1>3. StrictTypeOK
  <2>1. ToSet(todo) = {} /\ Distinct(todo, ToRead) /\ rgot \in Seq(Target)
    BY DEF ToSet, Distinct, IsInjective
  <2>2. links \in Seq(Page \X Target \X (DOMAIN Declared))
    OBVIOUS
  <2>3. evidence \subseteq Page \X (DOMAIN Declared) \X Nat /\ IsFiniteSet(evidence)
        /\ {e[1] : e \in evidence} \subseteq AllPages
    BY FS_EmptySet
  <2>4. cursor \in [Kind -> Page \cup {None}] /\ rcursor \in Page \cup {None}
    OBVIOUS
  <2>5. tries \in [Readers -> 0..MaxAttempts - 1]
    BY <1>1
  <2> QED
    BY <1>2, <2>1, <2>2, <2>3, <2>4, <2>5 DEF StrictTypeOK
<1>4. QueriedSoFar
  <2>1. ASSUME NEW k \in Kind
        PROVE  ToSet(got[k]) = {} /\ cursor[k] = None /\ k \notin complete
    BY DEF ToSet
  <2>2. ASSUME NEW k \in Kind, NEW p, Before(order[k], p, cursor[k])
        PROVE  FALSE
    <3>1. order[k] \in Seq(Page)
      BY <1>2
    <3> QED
      BY <1>1, <2>1, <2>2, <3>1 DEF Before
  <2> QED
    BY <2>1, <2>2 DEF QueriedSoFar
<1>5. CrawledSoFar
  BY DEF CrawledSoFar, IsInjective
<1>6. LinksAreTrue
  BY DEF LinksAreTrue
<1>7. PublishedAsRead
  BY DEF PublishedAsRead
<1> QED
  BY <1>3, <1>4, <1>5, <1>6, <1>7 DEF Sound

(* Steps that only count attempts or end the run without publishing.       *)
LEMMA TroubleMoves ==
  ASSUME ReaderAssumption, Sound, UNCHANGED <<notion, query, crawl, published>>,
         tries' \in [Readers -> 0..MaxAttempts - 1],
         \/ status' = status
         \/ status' = "failed" /\ status # "published"
  PROVE  Sound'
<1> USE DEF notion, query, crawl
<1>1. StrictTypeOK'
  <2>1. AllPages' = AllPages /\ ToRead' = ToRead
    BY DEF AllPages, ToRead
  <2>2. status' \in {"query", "relations", "published", "failed"}
        /\ ((published' # Unpublished) <=> (status' = "published"))
    BY DEF Sound, StrictTypeOK
  <2> QED
    BY <2>1, <2>2 DEF Sound, StrictTypeOK
<1>2. QueriedSoFar'
  BY DEF Sound, QueriedSoFar, Steady
<1>3. CrawledSoFar'
  BY DEF Sound, CrawledSoFar, ToRead, AllPages
<1>4. LinksAreTrue'
  BY DEF Sound, LinksAreTrue, Steady, Item
<1>5. PublishedAsRead'
  BY DEF Sound, PublishedAsRead, Projected, AllPages
<1> QED
  BY <1>1, <1>2, <1>3, <1>4, <1>5 DEF Sound

(* The owner's edits.                                                      *)

LEMMA Unfinished ==
  ASSUME Sound, status \in {"query", "relations"}
  PROVE  published = Unpublished
BY DEF Sound, StrictTypeOK

(* Whatever is done to one page, the others come in the same order.        *)
LEMMA EditMoves ==
  ASSUME ReaderAssumption, Sound, NEW p \in Page, Edits(p),
         NEW s, Distinct(s, Of(KindOf[p])),
         order' = [order EXCEPT ![KindOf[p]] = s],
         \A q : q # p => (q \in ToSet(s) <=> q \in ToSet(order[KindOf[p]])),
         \A q, c : q # p /\ Before(s, q, c) => Before(order[KindOf[p]], q, c),
         UNCHANGED <<link, status, query, tries, crawl, published>>
  PROVE  Sound'
<1> USE DEF query, crawl
<1>1. KindOf[p] \in Kind /\ published = Unpublished /\ touched' = touched \cup {p}
  BY Unfinished DEF ReaderAssumption, ProjectionAssumption, Edits
<1>2. order \in [Kind -> Seq(Page)]
  BY DEF Sound, StrictTypeOK
<1>3. s \in Seq(Page)
  BY DEF Distinct, Of
<1>4. \A k \in Kind : order'[k] = IF k = KindOf[p] THEN s ELSE order[k]
  BY <1>2
<1>5. StrictTypeOK'
  <2>1. order' \in [Kind -> Seq(Page)] /\ \A k \in Kind : Distinct(order'[k], Of(k))
    BY <1>1, <1>2, <1>3, <1>4 DEF Sound, StrictTypeOK
  <2> QED
    <3>1. AllPages' = AllPages /\ ToRead' = ToRead
      BY DEF AllPages, ToRead
    <3>2. touched' \subseteq Page
      BY <1>1 DEF Sound, StrictTypeOK
    <3> QED
      BY <2>1, <3>1, <3>2 DEF Sound, StrictTypeOK
<1>6. Steady' = Steady \ {p}
  BY <1>1 DEF Steady
<1>7. QueriedSoFar'
  <2>1. ASSUME NEW k \in Kind
        PROVE  /\ (ToSet(got[k]) \cap Steady \subseteq ToSet(order[k]))'
               /\ (k \in complete => ToSet(order[k]) \cap Steady \subseteq ToSet(got[k]))'
               /\ \A q \in Steady' : Before(order'[k], q, cursor'[k]) => q \in ToSet(got'[k])
    <3>1. \A q \in Steady' : q \in Steady /\ (q \in ToSet(order'[k]) <=> q \in ToSet(order[k]))
      BY <1>4, <1>6
    <3>2. \A q \in Steady' : \A c : Before(order'[k], q, c) => Before(order[k], q, c)
      BY <1>4, <1>6
    <3> QED
      BY <3>1, <3>2 DEF Sound, QueriedSoFar
  <2> QED
    BY <2>1 DEF Sound, QueriedSoFar
<1>8. CrawledSoFar'
  BY DEF Sound, CrawledSoFar, ToRead, AllPages
<1>9. LinksAreTrue'
  BY <1>6 DEF Sound, LinksAreTrue, Item
<1>10. PublishedAsRead'
  BY <1>1 DEF PublishedAsRead
<1> QED
  BY <1>5, <1>7, <1>8, <1>9, <1>10 DEF Sound

LEMMA OwnerMovesPages ==
  ASSUME ReaderAssumption, Sound, NEW p \in Page, AddPage(p) \/ RemovePage(p) \/ MovePage(p)
  PROVE  Sound'
<1> DEFINE k == KindOf[p]
<1>1. k \in Kind /\ p \in Of(k) /\ Distinct(order[k], Of(k))
  BY DEF ReaderAssumption, ProjectionAssumption, Of, Sound, StrictTypeOK
<1> HIDE DEF k
<1>2. CASE AddPage(p)
  <2>1. p \notin ToSet(order[k])
    BY <1>1, <1>2 DEF AddPage
  <2>2. /\ Distinct(Cons(p, order[k]), Of(k))
        /\ ToSet(Cons(p, order[k])) = ToSet(order[k]) \cup {p}
        /\ \A a, b : a # p /\ Before(Cons(p, order[k]), a, b) => Before(order[k], a, b)
    BY <1>1, <2>1, ConsKeepsOrder
  <2>3. order' = [order EXCEPT ![k] = Cons(p, order[k])]
    BY <1>2 DEF AddPage, k
  <2> QED
    BY <1>2, <2>2, <2>3, EditMoves DEF AddPage, k
<1>3. CASE RemovePage(p)
  <2>1. p \in ToSet(order[k])
    BY <1>3 DEF RemovePage, k
  <2>2. /\ Distinct(Without(order[k], p), Of(k))
        /\ ToSet(Without(order[k], p)) = ToSet(order[k]) \ {p}
        /\ \A a, b : Before(Without(order[k], p), a, b) => Before(order[k], a, b)
    BY <1>1, <2>1, WithoutKeepsOrder
  <2>3. order' = [order EXCEPT ![k] = Without(order[k], p)]
    BY <1>3 DEF RemovePage, k
  <2> QED
    BY <1>3, <2>2, <2>3, EditMoves DEF RemovePage, k
<1>4. CASE MovePage(p)
  <2>1. p \in ToSet(order[k])
    BY <1>4 DEF MovePage, k
  <2> DEFINE w == Without(order[k], p)
  <2>2. /\ Distinct(w, Of(k))
        /\ ToSet(w) = ToSet(order[k]) \ {p}
        /\ \A a, b : Before(w, a, b) => Before(order[k], a, b)
    BY <1>1, <2>1, WithoutKeepsOrder
  <2> HIDE DEF w
  <2>3. /\ Distinct(Cons(p, w), Of(k))
        /\ ToSet(Cons(p, w)) = ToSet(w) \cup {p}
        /\ \A a, b : a # p /\ Before(Cons(p, w), a, b) => Before(w, a, b)
    BY <1>1, <2>2, ConsKeepsOrder
  <2>4. order' = [order EXCEPT ![k] = Cons(p, w)]
    BY <1>4 DEF MovePage, k, w
  <2> QED
    BY <1>4, <2>2, <2>3, <2>4, EditMoves DEF MovePage, k
<1> QED
  BY <1>2, <1>3, <1>4

LEMMA OwnerRelinks ==
  ASSUME ReaderAssumption, Sound, NEW o \in Owners, NEW target \in Target, Relink(o[1], o[2], target)
  PROVE  Sound'
<1> USE DEF query, crawl
<1>1. /\ o[1] \in Page /\ published = Unpublished /\ touched' = touched \cup {o[1]}
      /\ o = <<o[1], o[2]>>
  BY Unfinished DEF Owners, Relink, Edits
<1> DEFINE s == IF target \in ToSet(link[o]) THEN Without(link[o], target) ELSE Cons(target, link[o])
<1>2. /\ link' = [link EXCEPT ![o] = s]
      /\ UNCHANGED <<order, status, query, tries, crawl, published>>
  BY <1>1 DEF Relink
<1>3. link \in [Owners -> Seq(Target)] /\ Distinct(link[o], Target)
  BY DEF Sound, StrictTypeOK
<1>4. Distinct(s, Target)
  <2>1. CASE target \in ToSet(link[o])
    BY <1>3, <2>1, WithoutKeepsOrder
  <2>2. CASE target \notin ToSet(link[o])
    BY <1>3, <2>2, ConsKeepsOrder
  <2> QED
    BY <2>1, <2>2
<1> HIDE DEF s
<1>5. link' \in [Owners -> Seq(Target)] /\ \A x : x # o => link'[x] = link[x]
  BY <1>2, <1>3, <1>4 DEF Distinct
<1>6. AllPages' = AllPages /\ ToRead' = ToRead
  BY <1>2 DEF AllPages, ToRead
<1>7. StrictTypeOK'
  <2>1. \A x \in Owners : Distinct(link'[x], Target)
    BY <1>2, <1>3, <1>4, <1>5 DEF Sound, StrictTypeOK
  <2>2. touched' \subseteq Page
    BY <1>1 DEF Sound, StrictTypeOK
  <2> QED
    BY <1>2, <1>5, <1>6, <2>1, <2>2 DEF Sound, StrictTypeOK
<1>8. Steady' = Steady \ {o[1]}
  BY <1>1 DEF Steady
<1>9. QueriedSoFar'
  BY <1>2, <1>8 DEF Sound, QueriedSoFar
<1>10. CrawledSoFar'
  BY <1>2, <1>6 DEF Sound, CrawledSoFar
<1>11. LinksAreTrue'
  <2>1. \A l : l[1] \in Steady' => l[1] \in Steady /\ link'[OwnerOf(l)] = link[OwnerOf(l)]
    BY <1>1, <1>5, <1>8 DEF OwnerOf
  <2>2. \A e : e[1] \in Steady' => e[1] \in Steady /\ link'[CountedOf(e)] = link[CountedOf(e)]
    BY <1>1, <1>5, <1>8 DEF CountedOf
  <2>3. Item[1] \in Steady' => Item[1] \in Steady /\ link'[Item] = link[Item] /\ Item' = Item
    BY <1>2, <1>5, <1>8 DEF Item
  <2>4. /\ \A i \in DOMAIN links' : links'[i][1] \in Steady' => links'[i][2] \in ToSet(link'[OwnerOf(links'[i])])
        /\ \A e \in evidence' : e[1] \in Steady' =>
              \A t \in ToSet(link'[CountedOf(e)]) : <<e[1], t, e[2]>> \in ToSet(links')
    BY <1>2, <2>1, <2>2 DEF Sound, LinksAreTrue
  <2>5. Item' = Item
    BY <1>2 DEF Item
  <2>6. todo' # <<>> /\ Item[1] \in Steady' =>
          /\ Honoured(link'[Item], rcursor')
          /\ ToSet(rgot') = Passed(link'[Item], rcursor')
    BY <1>2, <2>3 DEF Sound, LinksAreTrue
  <2> QED
    BY <2>4, <2>5, <2>6 DEF LinksAreTrue
<1>12. PublishedAsRead'
  BY <1>1, <1>2 DEF PublishedAsRead
<1> QED
  BY <1>7, <1>9, <1>10, <1>11, <1>12 DEF Sound

(* The queries.                                                            *)

LEMMA ConcatDistinct ==
  ASSUME NEW S, NEW s, Distinct(s, S), NEW t, Distinct(t, S), ToSet(s) \cap ToSet(t) = {}
  PROVE  Distinct(s \o t, S) /\ ToSet(s \o t) = ToSet(s) \cup ToSet(t)
<1>1. /\ s \in Seq(S) /\ Len(s) \in Nat /\ DOMAIN s = 1..Len(s) /\ IsInjective(s)
      /\ t \in Seq(S) /\ Len(t) \in Nat /\ DOMAIN t = 1..Len(t) /\ IsInjective(t)
  BY DEF Distinct
<1> DEFINE c == s \o t
<1>2. /\ c \in Seq(S) /\ DOMAIN c = 1..(Len(s) + Len(t))
      /\ \A i \in 1..(Len(s) + Len(t)) : c[i] = IF i <= Len(s) THEN s[i] ELSE t[i - Len(s)]
  BY <1>1, ConcatProperties
<1> HIDE DEF c
<1>3. \A i \in DOMAIN c : \/ i \in DOMAIN s /\ c[i] = s[i]
                          \/ i - Len(s) \in DOMAIN t /\ i > Len(s) /\ c[i] = t[i - Len(s)]
  BY <1>1, <1>2
<1>4. \A i \in DOMAIN s : i \in DOMAIN c /\ c[i] = s[i]
  BY <1>1, <1>2
<1>5. \A j \in DOMAIN t : j + Len(s) \in DOMAIN c /\ c[j + Len(s)] = t[j]
  BY <1>1, <1>2
<1>6. IsInjective(c)
  <2>1. ASSUME NEW i \in DOMAIN c, NEW j \in DOMAIN c, c[i] = c[j]
        PROVE  i = j
    <3>1. i \in Nat /\ j \in Nat
      BY <1>1, <1>2
    <3>2. CASE i \in DOMAIN s /\ c[i] = s[i] /\ j \in DOMAIN s /\ c[j] = s[j]
      BY <1>1, <2>1, <3>2 DEF IsInjective
    <3>3. CASE /\ i - Len(s) \in DOMAIN t /\ c[i] = t[i - Len(s)]
               /\ j - Len(s) \in DOMAIN t /\ c[j] = t[j - Len(s)]
      <4>1. i - Len(s) = j - Len(s)
        BY <1>1, <2>1, <3>3 DEF IsInjective
      <4> QED
        BY <1>1, <3>1, <4>1
    <3>4. \A a \in DOMAIN s : \A b \in DOMAIN t : s[a] # t[b]
      BY DEF ToSet
    <3> QED
      BY <1>3, <2>1, <3>2, <3>3, <3>4
  <2> QED
    BY <2>1 DEF IsInjective
<1>7. ToSet(c) = ToSet(s) \cup ToSet(t)
  <2>1. \A x \in ToSet(c) : x \in ToSet(s) \/ x \in ToSet(t)
    BY <1>3 DEF ToSet
  <2>2. \A x \in ToSet(s) : x \in ToSet(c)
    BY <1>4 DEF ToSet
  <2>3. \A x \in ToSet(t) : x \in ToSet(c)
    BY <1>5 DEF ToSet
  <2> QED
    BY <2>1, <2>2, <2>3
<1> QED
  BY <1>2, <1>6, <1>7 DEF Distinct, c

LEMMA QueryMoves ==
  ASSUME ReaderAssumption, Sound, NEW k \in Kind, Query(k)
  PROVE  Sound'
<1> DEFINE b == Batch(order[k], cursor[k])
<1>1. /\ status = "query" /\ k \notin complete /\ published = Unpublished
      /\ Honoured(order[k], cursor[k]) /\ ToSet(b) \cap ToSet(got[k]) = {}
  <2>1. status = "query" /\ k \notin complete
    BY DEF Query, Running, ReaderAssumption, SourceAssumption
  <2> QED
    BY <2>1, Unfinished DEF Query, Repeats
<1>2. /\ order \in [Kind -> Seq(Page)] /\ got \in [Kind -> Seq(Page)] /\ cursor \in [Kind -> Page \cup {None}]
      /\ complete \subseteq Kind
      /\ Distinct(order[k], Of(k)) /\ Distinct(order[k], Page) /\ Distinct(got[k], Of(k))
  BY DEF Sound, StrictTypeOK, Distinct, Of
<1>3. /\ Distinct(b, ToSet(order[k])) /\ ToSet(order[k]) \subseteq Of(k)
      /\ HasMore(order[k], cursor[k]) =>
            /\ NextCursor(order[k], cursor[k]) \in ToSet(order[k]) /\ NextCursor(order[k], cursor[k]) # None
            /\ Passed(order[k], NextCursor(order[k], cursor[k])) = Passed(order[k], cursor[k]) \cup ToSet(b)
      /\ ~HasMore(order[k], cursor[k]) => ToSet(order[k]) = Passed(order[k], cursor[k]) \cup ToSet(b)
  BY <1>1, <1>2, BatchContinues, FiniteMembers DEF Distinct
<1>4. Passed(order[k], cursor[k]) \cap Steady \subseteq ToSet(got[k])
  <2>1. CASE cursor[k] = None
    <3>1. Passed(order[k], cursor[k]) = {}
      BY <2>1 DEF Passed, From
    <3> QED
      BY <3>1
  <2>2. CASE cursor[k] # None
    <3>1. \A p : p \in Passed(order[k], cursor[k]) <=> Before(order[k], p, cursor[k])
      BY <1>1, <1>2, <2>2, PassedIsBefore
    <3> QED
      BY <3>1 DEF Sound, QueriedSoFar
  <2> QED
    BY <2>1, <2>2
<1>5. ToSet(b) \subseteq ToSet(order[k]) /\ Distinct(b, Of(k))
  <2>1. ToSet(b) \subseteq ToSet(order[k]) /\ b \in Seq(ToSet(order[k]))
    BY <1>3, FiniteMembers DEF Distinct
  <2>2. b \in Seq(Of(k))
    BY <1>3, <2>1
  <2> QED
    BY <1>3, <2>1, <2>2 DEF Distinct
<1>6. Distinct(got[k] \o b, Of(k)) /\ ToSet(got[k] \o b) = ToSet(got[k]) \cup ToSet(b)
  BY <1>1, <1>2, <1>5, ConcatDistinct
<1>7. /\ got' = [got EXCEPT ![k] = got[k] \o b]
      /\ tries' = [tries EXCEPT ![k] = 0]
      /\ UNCHANGED <<notion, status, crawl, published>>
  BY DEF Query
<1> HIDE DEF b
<1>8. /\ got' \in [Kind -> Seq(Page)] /\ \A x \in Kind : Distinct(got'[x], Of(x))
      /\ got'[k] = got[k] \o b /\ \A x \in Kind : x # k => got'[x] = got[x]
  <2>1. got[k] \o b \in Seq(Page)
    BY <1>6 DEF Distinct, Of
  <2> QED
    BY <1>2, <1>6, <1>7, <2>1 DEF Sound, StrictTypeOK
<1>9. todo = <<>> /\ rcursor = None /\ rgot = <<>> /\ links = <<>> /\ evidence = {}
  BY <1>1 DEF Sound, QueriedSoFar
<1>10. \/ /\ HasMore(order[k], cursor[k])
          /\ cursor' = [cursor EXCEPT ![k] = NextCursor(order[k], cursor[k])]
          /\ complete' = complete
       \/ /\ ~HasMore(order[k], cursor[k])
          /\ cursor' = cursor /\ complete' = complete \cup {k}
  BY DEF Query
<1>11. StrictTypeOK'
  <2>1. ToSet(todo) = {} /\ Distinct(<<>>, ToRead') /\ rgot \in Seq(Target)
    BY <1>9 DEF ToSet, Distinct, IsInjective
  <2>2. cursor' \in [Kind -> Page \cup {None}] /\ complete' \subseteq Kind
    BY <1>2, <1>3, <1>10 DEF Of
  <2>3. tries' \in [Readers -> 0..MaxAttempts - 1]
    <3>1. 0 \in 0..MaxAttempts - 1
      BY DEF ReaderAssumption, SourceAssumption
    <3>2. tries \in [Readers -> 0..MaxAttempts - 1]
      BY DEF Sound, StrictTypeOK
    <3> QED
      BY <1>7, <3>1, <3>2
  <2>4. {e[1] : e \in evidence} = {}
    BY <1>9
  <2> QED
    BY <1>7, <1>8, <1>9, <2>1, <2>2, <2>3, <2>4 DEF Sound, StrictTypeOK, notion, crawl
<1>12. Steady' = Steady /\ order' = order
  BY <1>7 DEF Steady, notion
<1>13. QueriedSoFar'
  <2>1. ASSUME NEW x \in Kind
        PROVE  /\ ToSet(got'[x]) \cap Steady \subseteq ToSet(order[x])
               /\ x \in complete' => ToSet(order[x]) \cap Steady \subseteq ToSet(got'[x])
               /\ \A p \in Steady : Before(order[x], p, cursor'[x]) => p \in ToSet(got'[x])
    <3>1. CASE x # k
      <4>1. got'[x] = got[x] /\ cursor'[x] = cursor[x] /\ (x \in complete' <=> x \in complete)
        BY <1>2, <1>8, <1>10, <3>1
      <4> QED
        BY <4>1 DEF Sound, QueriedSoFar
    <3>2. CASE x = k /\ HasMore(order[k], cursor[k])
      <4>1. cursor'[k] = NextCursor(order[k], cursor[k]) /\ k \notin complete'
        BY <1>1, <1>2, <1>10, <3>2
      <4>2. Honoured(order[k], cursor'[k]) /\ cursor'[k] # None
        BY <1>3, <3>2, <4>1 DEF Honoured
      <4>3. \A p : p \in Passed(order[k], cursor'[k]) <=> Before(order[k], p, cursor'[k])
        BY <1>2, <4>2, PassedIsBefore
      <4>4. Passed(order[k], cursor'[k]) \cap Steady \subseteq ToSet(got'[k])
        BY <1>3, <1>4, <1>6, <1>8, <3>2, <4>1
      <4>5. ToSet(got'[k]) \cap Steady \subseteq ToSet(order[k])
        BY <1>5, <1>6, <1>8 DEF Sound, QueriedSoFar
      <4> QED
        BY <3>2, <4>1, <4>3, <4>4, <4>5
    <3>3. CASE x = k /\ ~HasMore(order[k], cursor[k])
      <4>1. cursor' = cursor
        BY <1>10, <3>3
      <4>2. ToSet(order[k]) \cap Steady \subseteq ToSet(got'[k])
        BY <1>3, <1>4, <1>6, <1>8, <3>3
      <4>3. ToSet(got'[k]) \cap Steady \subseteq ToSet(order[k])
        BY <1>5, <1>6, <1>8 DEF Sound, QueriedSoFar
      <4>4. \A p \in Steady : Before(order[k], p, cursor[k]) => p \in ToSet(got'[k])
        BY <1>6, <1>8 DEF Sound, QueriedSoFar
      <4> QED
        BY <3>3, <4>1, <4>2, <4>3, <4>4
    <3> QED
      BY <3>1, <3>2, <3>3
  <2>2. status' = "query" /\ todo' = <<>> /\ rcursor' = None /\ rgot' = <<>> /\ links' = <<>> /\ evidence' = {}
    BY <1>1, <1>7, <1>9 DEF crawl
  <2> QED
    BY <1>12, <2>1, <2>2 DEF QueriedSoFar
<1>14. CrawledSoFar'
  BY <1>1, <1>7, <1>9 DEF CrawledSoFar, crawl, IsInjective
<1>15. LinksAreTrue'
  BY <1>7, <1>9 DEF LinksAreTrue, crawl
<1>16. PublishedAsRead'
  BY <1>1, <1>7 DEF PublishedAsRead
<1> QED
  BY <1>11, <1>13, <1>14, <1>15, <1>16 DEF Sound

(* The relation properties.                                                *)

LEMMA KindsInOrder ==
  ASSUME ReaderAssumption
  PROVE  \A k \in Kind : /\ Place(SetToSeq(Kind), k) \in 1..Cardinality(Kind)
                         /\ SetToSeq(Kind)[Place(SetToSeq(Kind), k)] = k
<1> DEFINE n == Cardinality(Kind)
           f == SetToSeq(Kind)
<1>1. IsFiniteSet(Kind) /\ n \in Nat /\ ExistsBijection(1..n, Kind)
  BY FS_CardinalityType DEF ReaderAssumption, SourceAssumption
<1>2. \E g \in [1..n -> Kind] : IsInjective(g)
  BY <1>1 DEF ExistsBijection, Bijection, Injection, IsInjective
<1>3. f \in [1..n -> Kind] /\ IsInjective(f)
  BY <1>2 DEF SetToSeq
<1> HIDE DEF f
<1>4. f \in Injection(1..n, Kind)
  BY <1>3 DEF Injection, IsInjective
<1>5. IsFiniteSet(1..n) /\ Cardinality(1..n) = n
  <2>1. IsFiniteSet(1..n) /\ Cardinality(1..n) = IF 1 > n THEN 0 ELSE n - 1 + 1
    BY <1>1, FS_Interval
  <2> HIDE DEF n
  <2> QED
    BY <1>1, <2>1
<1>6. f \in Surjection(1..n, Kind)
  BY <1>1, <1>4, <1>5, FS_Injection
<1>7. \A k \in Kind : \E i \in DOMAIN f : f[i] = k
  BY <1>3, <1>6 DEF Surjection
<1>8. \A k \in Kind : Place(f, k) \in DOMAIN f /\ f[Place(f, k)] = k
  BY <1>7 DEF Place
<1> QED
  BY <1>3, <1>8 DEF f

LEMMA PlaceOfMember ==
  ASSUME NEW S, NEW s \in Seq(S), NEW x \in ToSet(s)
  PROVE  Place(s, x) \in Nat /\ Place(s, x) \in DOMAIN s /\ s[Place(s, x)] = x
<1>1. \E i \in DOMAIN s : s[i] = x
  BY DEF ToSet
<1>2. Place(s, x) \in DOMAIN s /\ s[Place(s, x)] = x
  BY <1>1 DEF Place
<1> QED
  BY <1>2

LEMMA CrawlBegins ==
  ASSUME ReaderAssumption, Sound, BeginCrawl
  PROVE  Sound'
<1>1. /\ status = "query" /\ complete = Kind /\ status' = "relations" /\ todo' = Pending
      /\ UNCHANGED <<notion, query, tries, rcursor, rgot, links, evidence, published>>
      /\ published = Unpublished
  BY Unfinished DEF BeginCrawl, Queried
<1>2. rcursor = None /\ rgot = <<>> /\ links = <<>> /\ evidence = {}
  BY <1>1 DEF Sound, QueriedSoFar
<1>3. ToRead' = ToRead /\ AllPages' = AllPages
  BY <1>1 DEF ToRead, AllPages, query
<1>4. IsFiniteSet(ToRead) /\ ToRead \subseteq Page \X (DOMAIN Declared)
  <2>1. IsFiniteSet(DOMAIN Declared) /\ IsFiniteSet(Page)
    BY Numbers, FS_Interval
  <2>2. IsFiniteSet(Page \X (DOMAIN Declared))
    BY <2>1, FS_Product
  <2>3. ToRead \in SUBSET (Page \X (DOMAIN Declared))
    BY DEF ToRead, Owners
  <2> QED
    BY <2>2, <2>3, FS_Subset
<1> DEFINE key == [o \in ToRead |-> LET k == KindOf[o[1]] IN
                        <<Place(SetToSeq(Kind), k), Place(got[k], o[1]), o[2]>>]
<1>5. ASSUME NEW o \in ToRead
      PROVE  /\ KindOf[o[1]] \in Kind /\ Place(SetToSeq(Kind), KindOf[o[1]]) \in Nat
             /\ SetToSeq(Kind)[Place(SetToSeq(Kind), KindOf[o[1]])] = KindOf[o[1]]
             /\ Place(got[KindOf[o[1]]], o[1]) \in Nat
             /\ got[KindOf[o[1]]][Place(got[KindOf[o[1]]], o[1])] = o[1]
             /\ o[2] \in Nat /\ o = <<o[1], o[2]>>
  <2>1. o[1] \in Page /\ o[1] \in AllPages /\ o[2] \in DOMAIN Declared /\ o = <<o[1], o[2]>>
    BY <1>4 DEF ToRead
  <2>2. KindOf[o[1]] \in Kind /\ o[1] \in ToSet(got[KindOf[o[1]]])
    BY <2>1, PagesByKind DEF Sound
  <2>3. got[KindOf[o[1]]] \in Seq(Page)
    BY <2>2 DEF Sound, StrictTypeOK
  <2>4. /\ Place(got[KindOf[o[1]]], o[1]) \in Nat
        /\ got[KindOf[o[1]]][Place(got[KindOf[o[1]]], o[1])] = o[1]
    BY <2>2, <2>3, PlaceOfMember
  <2>5. o[2] \in Nat
    BY <2>1, Numbers
  <2>6. /\ Place(SetToSeq(Kind), KindOf[o[1]]) \in 1..Cardinality(Kind)
        /\ SetToSeq(Kind)[Place(SetToSeq(Kind), KindOf[o[1]])] = KindOf[o[1]]
    BY <2>2, KindsInOrder
  <2> QED
    BY <2>1, <2>2, <2>4, <2>5, <2>6
<1>6. \A o \in ToRead : key[o] \in Triple
  BY <1>5 DEF Triple
<1>7. ASSUME NEW o \in ToRead, NEW q \in ToRead, key[o] = key[q]
      PROVE  o = q
  <2>1. /\ Place(SetToSeq(Kind), KindOf[o[1]]) = Place(SetToSeq(Kind), KindOf[q[1]])
        /\ Place(got[KindOf[o[1]]], o[1]) = Place(got[KindOf[q[1]]], q[1])
        /\ o[2] = q[2]
    BY <1>7
  <2>2. KindOf[o[1]] = KindOf[q[1]]
    BY <1>5, <2>1
  <2>3. o[1] = q[1]
    BY <1>5, <2>1, <2>2
  <2> QED
    BY <1>5, <2>1, <2>3
<1>8. Pending = Sorted(ToRead, key)
  BY DEF Pending
<1> HIDE DEF key
<1>9. Distinct(Pending, ToRead) /\ ToSet(Pending) = ToRead
  <2>1. /\ Pending \in [1..Cardinality(ToRead) -> ToRead] /\ IsInjective(Pending)
        /\ ToSet(Pending) = ToRead /\ Cardinality(ToRead) \in Nat
    BY <1>4, <1>6, <1>7, <1>8, SortedPermutes
  <2>2. Pending \in Seq(ToRead)
    BY <2>1
  <2> QED
    BY <2>1, <2>2 DEF Distinct
<1>10. StrictTypeOK'
  BY <1>1, <1>3, <1>9 DEF Sound, StrictTypeOK, notion, query
<1>11. QueriedSoFar'
  BY <1>1 DEF Sound, QueriedSoFar, notion, query, Steady
<1>12. CrawledSoFar'
  BY <1>1, <1>2, <1>3, <1>9 DEF CrawledSoFar, IsInjective
<1>13. LinksAreTrue'
  <2>1. ToSet(rgot) = {} /\ Honoured(link[Head(Pending)], None) /\ Passed(link[Head(Pending)], None) = {}
    BY <1>2 DEF ToSet, Honoured, Passed, From
  <2> QED
    BY <1>1, <1>2, <2>1 DEF LinksAreTrue, Item, notion
<1>14. PublishedAsRead'
  BY <1>1 DEF PublishedAsRead
<1> QED
  BY <1>10, <1>11, <1>12, <1>13, <1>14 DEF Sound

LEMMA ConcatMembers ==
  ASSUME NEW S, NEW s \in Seq(S), NEW t \in Seq(S)
  PROVE  s \o t \in Seq(S) /\ ToSet(s \o t) = ToSet(s) \cup ToSet(t)
<1> DEFINE c == s \o t
<1>1. /\ Len(s) \in Nat /\ DOMAIN s = 1..Len(s) /\ Len(t) \in Nat /\ DOMAIN t = 1..Len(t)
      /\ c \in Seq(S) /\ DOMAIN c = 1..(Len(s) + Len(t))
      /\ \A i \in 1..(Len(s) + Len(t)) : c[i] = IF i <= Len(s) THEN s[i] ELSE t[i - Len(s)]
  BY ConcatProperties
<1> HIDE DEF c
<1>2. \A i \in DOMAIN c : \/ i \in DOMAIN s /\ c[i] = s[i]
                          \/ i - Len(s) \in DOMAIN t /\ c[i] = t[i - Len(s)]
  BY <1>1
<1>3. \A i \in DOMAIN s : i \in DOMAIN c /\ c[i] = s[i]
  BY <1>1
<1>4. \A j \in DOMAIN t : j + Len(s) \in DOMAIN c /\ c[j + Len(s)] = t[j]
  BY <1>1
<1>5. \A x \in ToSet(c) : x \in ToSet(s) \/ x \in ToSet(t)
  BY <1>2 DEF ToSet
<1>6. \A x \in ToSet(s) : x \in ToSet(c)
  BY <1>3 DEF ToSet
<1>7. \A x \in ToSet(t) : x \in ToSet(c)
  BY <1>4 DEF ToSet
<1> QED
  BY <1>1, <1>5, <1>6, <1>7 DEF c

(* What has been gathered is what was and what the answer holds; of        *)
(* undirected relations, every target once.                                *)
LEMMA GatheredHolds ==
  ASSUME ReaderAssumption, rgot \in Seq(Target), ~Directed => IsInjective(rgot),
         NEW b, Distinct(b, Target)
  PROVE  /\ Gathered(b) \in Seq(Target) /\ ToSet(Gathered(b)) = ToSet(rgot) \cup ToSet(b)
         /\ ~Directed => IsInjective(Gathered(b))
<1>1. b \in Seq(Target) /\ IsFiniteSet(ToSet(b)) /\ ToSet(b) \subseteq Target
  BY FiniteMembers DEF Distinct
<1>2. CASE Directed
  BY <1>1, <1>2, ConcatMembers DEF Gathered
<1>3. CASE ~Directed
  <2> DEFINE new == ToSet(b) \ ToSet(rgot)
             key == [t \in new |-> <<Place(b, t), 0, 0>>]
  <2>1. IsFiniteSet(new) /\ new \subseteq Target
    <3>1. new \in SUBSET ToSet(b)
      OBVIOUS
    <3> QED
      BY <1>1, <3>1, FS_Subset
  <2>2. \A t \in new : Place(b, t) \in Nat /\ b[Place(b, t)] = t
    BY <1>1, PlaceOfMember
  <2>3. (\A t \in new : key[t] \in Triple) /\ \A t, u \in new : key[t] = key[u] => t = u
    BY <2>2 DEF Triple
  <2>4. Gathered(b) = rgot \o Sorted(new, key)
    BY <1>3 DEF Gathered
  <2>5. new \cap ToSet(rgot) = {} /\ ToSet(rgot) \cup new = ToSet(rgot) \cup ToSet(b)
    OBVIOUS
  <2> HIDE DEF new, key
  <2>6. /\ Sorted(new, key) \in [1..Cardinality(new) -> new] /\ IsInjective(Sorted(new, key))
        /\ ToSet(Sorted(new, key)) = new /\ Cardinality(new) \in Nat
    BY <2>1, <2>3, SortedPermutes
  <2>7. Sorted(new, key) \in Seq(Target)
    <3>1. Sorted(new, key) \in [1..Cardinality(new) -> Target]
      BY <2>1, <2>6
    <3> QED
      BY <2>6, <3>1
  <2>8. Distinct(rgot, Target) /\ Distinct(Sorted(new, key), Target)
    BY <1>3, <2>6, <2>7 DEF Distinct
  <2> QED
    BY <2>4, <2>5, <2>6, <2>8, ConcatDistinct DEF Distinct
<1> QED
  BY <1>2, <1>3

LEMMA TailOfDistinct ==
  ASSUME NEW S, NEW s, Distinct(s, S), s # <<>>
  PROVE  /\ Distinct(Tail(s), S) /\ Head(s) \in S
         /\ ToSet(Tail(s)) = ToSet(s) \ {Head(s)}
<1>1. s \in Seq(S) /\ Len(s) \in Nat \ {0} /\ DOMAIN s = 1..Len(s) /\ IsInjective(s) /\ Head(s) = s[1]
  BY DEF Distinct
<1> DEFINE t == Tail(s)
<1>2. t \in Seq(S) /\ DOMAIN t = 1..(Len(s) - 1) /\ \A i \in 1..(Len(s) - 1) : t[i] = s[i + 1]
  BY <1>1, HeadTailProperties
<1> HIDE DEF t
<1>3. IsInjective(t)
  <2>1. ASSUME NEW i \in DOMAIN t, NEW j \in DOMAIN t, t[i] = t[j]
        PROVE  i = j
    <3>1. i + 1 \in DOMAIN s /\ j + 1 \in DOMAIN s /\ s[i + 1] = s[j + 1]
      BY <1>1, <1>2, <2>1
    <3>2. i + 1 = j + 1
      BY <1>1, <3>1 DEF IsInjective
    <3> QED
      BY <1>1, <1>2, <3>2
  <2> QED
    BY <2>1 DEF IsInjective
<1>4. \A i \in DOMAIN s : i = 1 \/ (i - 1 \in DOMAIN t /\ s[i] = t[i - 1])
  <2>1. ASSUME NEW i \in DOMAIN s, i # 1
        PROVE  i - 1 \in 1..(Len(s) - 1) /\ (i - 1) + 1 = i
    BY <1>1, <2>1
  <2> QED
    BY <1>2, <2>1
<1>5. \A i \in DOMAIN t : i + 1 \in DOMAIN s /\ i + 1 # 1 /\ t[i] = s[i + 1] /\ t[i] # s[1]
  <2>1. ASSUME NEW i \in DOMAIN t
        PROVE  i + 1 \in DOMAIN s /\ i + 1 # 1 /\ 1 \in DOMAIN s /\ t[i] = s[i + 1]
    BY <1>1, <1>2
  <2> QED
    BY <1>1, <2>1 DEF IsInjective
<1>6. ToSet(t) = ToSet(s) \ {s[1]}
  <2>1. ToSet(t) \subseteq ToSet(s) \ {s[1]}
    BY <1>5 DEF ToSet
  <2>2. ToSet(s) \ {s[1]} \subseteq ToSet(t)
    BY <1>4 DEF ToSet
  <2> QED
    BY <2>1, <2>2
<1>7. Head(s) \in S
  BY <1>1
<1> QED
  BY <1>1, <1>2, <1>3, <1>6, <1>7 DEF Distinct, t

(* The links of one property, side by side.                                *)
Block(o, read) == [i \in DOMAIN read |-> <<o[1], read[i], o[2]>>]

LEMMA BlockOfLinks ==
  ASSUME NEW o \in Page \X (DOMAIN Declared), NEW read \in Seq(Target)
  PROVE  /\ Block(o, read) \in Seq(Link) /\ Len(Block(o, read)) = Len(read)
         /\ \A i \in DOMAIN Block(o, read) : OwnerOf(Block(o, read)[i]) = o
         /\ \A t : <<o[1], t, o[2]>> \in ToSet(Block(o, read)) <=> t \in ToSet(read)
         /\ \A i \in DOMAIN Block(o, read) : Block(o, read)[i][2] \in ToSet(read)
         /\ IsInjective(read) => IsInjective(Block(o, read))
<1> DEFINE b == Block(o, read)
<1>1. read \in [1..Len(read) -> Target] /\ Len(read) \in Nat
  OBVIOUS
<1>2. DOMAIN b = 1..Len(read) /\ \A i \in 1..Len(read) : b[i] = <<o[1], read[i], o[2]>>
  BY <1>1 DEF Block
<1>3. b \in [1..Len(read) -> Link]
  BY <1>1 DEF Block, Link
<1>4. b \in Seq(Link) /\ Len(b) = Len(read)
  BY <1>1, <1>3
<1>5. \A i \in DOMAIN b : OwnerOf(b[i]) = o /\ b[i][2] = read[i]
  BY <1>2 DEF OwnerOf
<1>6. \A t : <<o[1], t, o[2]>> \in ToSet(b) <=> t \in ToSet(read)
  BY <1>1, <1>2 DEF ToSet
<1>7. IsInjective(read) => IsInjective(b)
  BY <1>1, <1>2 DEF IsInjective
<1>8. \A i \in DOMAIN b : b[i][2] \in ToSet(read)
  BY <1>1, <1>2, <1>5 DEF ToSet
<1> QED
  BY <1>4, <1>5, <1>6, <1>7, <1>8

PlacesOf(ls, o) == {i \in DOMAIN ls : OwnerOf(ls[i]) = o}

(* Links of one property, behind those of others, are counted apart.       *)
LEMMA BlockIsCounted ==
  ASSUME NEW S, NEW s \in Seq(S), NEW t \in Seq(S), NEW o,
         \A i \in DOMAIN t : OwnerOf(t[i]) = o,
         \A i \in DOMAIN s : OwnerOf(s[i]) # o
  PROVE  /\ \A q : q # o => PlacesOf(s \o t, q) = PlacesOf(s, q)
         /\ Cardinality(PlacesOf(s \o t, o)) = Len(t)
         /\ \A i \in DOMAIN (s \o t) : \/ i \in DOMAIN s /\ (s \o t)[i] = s[i]
                                       \/ i - Len(s) \in DOMAIN t /\ (s \o t)[i] = t[i - Len(s)]
<1> DEFINE c == s \o t
<1>1. /\ Len(s) \in Nat /\ DOMAIN s = 1..Len(s) /\ Len(t) \in Nat /\ DOMAIN t = 1..Len(t)
      /\ c \in Seq(S) /\ DOMAIN c = 1..(Len(s) + Len(t))
      /\ \A i \in 1..(Len(s) + Len(t)) : c[i] = IF i <= Len(s) THEN s[i] ELSE t[i - Len(s)]
  BY ConcatProperties
<1> HIDE DEF c
<1>2. \A i \in DOMAIN c : \/ i \in DOMAIN s /\ c[i] = s[i]
                          \/ i - Len(s) \in DOMAIN t /\ i \notin DOMAIN s /\ c[i] = t[i - Len(s)]
  BY <1>1
<1>3. \A i \in DOMAIN s : i \in DOMAIN c /\ c[i] = s[i]
  BY <1>1
<1>4. ASSUME NEW q, q # o
      PROVE  PlacesOf(c, q) = PlacesOf(s, q)
  BY <1>2, <1>3, <1>4 DEF PlacesOf
<1>5. PlacesOf(c, o) = (Len(s) + 1)..(Len(s) + Len(t))
  <2>1. PlacesOf(c, o) = {i \in DOMAIN c : i \notin DOMAIN s}
    BY <1>2 DEF PlacesOf
  <2>2. \A i : i \in DOMAIN c /\ i \notin DOMAIN s <=> i \in (Len(s) + 1)..(Len(s) + Len(t))
    BY <1>1
  <2> QED
    BY <2>1, <2>2
<1>6. Cardinality((Len(s) + 1)..(Len(s) + Len(t))) = Len(t)
  <2> DEFINE a == Len(s) + 1
             b == Len(s) + Len(t)
  <2>1. a \in Int /\ b \in Int /\ (IF a > b THEN 0 ELSE b - a + 1) = Len(t)
    BY <1>1
  <2> HIDE DEF a, b
  <2>2. Cardinality(a..b) = IF a > b THEN 0 ELSE b - a + 1
    BY <2>1, FS_Interval
  <2> QED
    BY <2>1, <2>2 DEF a, b
<1> QED
  BY <1>2, <1>4, <1>5, <1>6 DEF c

(* The property being read: its page was read, and neither evidence nor    *)
(* links stand for it yet.                                                 *)
LEMMA ItemAtHand ==
  ASSUME ReaderAssumption, Sound, Running(None)
  PROVE  /\ status = "relations" /\ todo # <<>> /\ published = Unpublished
         /\ Item \in ToRead /\ Item \in Owners /\ Item \in Page \X (DOMAIN Declared)
         /\ Item[1] \in AllPages
         /\ Distinct(link[Item], Target) /\ Distinct(link[Item], Page)
         /\ Distinct(Tail(todo), ToRead) /\ ToSet(Tail(todo)) = ToSet(todo) \ {Item}
         /\ Item \in ToSet(todo)
         /\ \A e \in evidence : CountedOf(e) # Item
         /\ links \in Seq(Link) /\ \A i \in DOMAIN links : OwnerOf(links[i]) # Item
<1>1. status = "relations" /\ todo # <<>> /\ published = Unpublished
  <2>1. status = "relations" /\ todo # <<>>
    BY DEF Running, ReaderAssumption, SourceAssumption
  <2> QED
    BY <2>1, Unfinished
<1>2. Distinct(todo, ToRead)
  BY DEF Sound, StrictTypeOK
<1>3. /\ Distinct(Tail(todo), ToRead) /\ ToSet(Tail(todo)) = ToSet(todo) \ {Item} /\ Item \in ToRead
  BY <1>1, <1>2, TailOfDistinct DEF Item
<1>4. Item \in ToSet(todo)
  <2>1. todo \in Seq(ToRead) /\ 1 \in DOMAIN todo /\ todo[1] = Item
    BY <1>1, <1>2 DEF Distinct, Item
  <2> QED
    BY <2>1 DEF ToSet
<1>5. Item \in Owners /\ Item \in Page \X (DOMAIN Declared) /\ Item[1] \in AllPages
  BY <1>3 DEF ToRead, Owners
<1>6. Distinct(link[Item], Target) /\ Distinct(link[Item], Page)
  <2>1. Distinct(link[Item], Target)
    BY <1>5 DEF Sound, StrictTypeOK
  <2> QED
    BY <2>1, Numbers DEF Distinct
<1>7. \A e \in evidence : CountedOf(e) # Item
  BY <1>4 DEF Sound, CrawledSoFar
<1>8. links \in Seq(Link) /\ \A i \in DOMAIN links : OwnerOf(links[i]) # Item
  BY <1>7 DEF Sound, StrictTypeOK, CrawledSoFar, Link
<1> QED
  BY <1>1, <1>3, <1>4, <1>5, <1>6, <1>7, <1>8

(* An answer about a property let alone brings what stands before the next *)
(* cursor, or the rest.                                                    *)
LEMMA RelationAnswered ==
  ASSUME ReaderAssumption, Sound, ReadRelation
  PROVE  LET read == Gathered(Batch(link[Item], rcursor)) IN
         /\ read \in Seq(Target) /\ (~Directed => IsInjective(read))
         /\ HasMore(link[Item], rcursor) =>
               /\ NextCursor(link[Item], rcursor) \in ToSet(link[Item])
               /\ NextCursor(link[Item], rcursor) \in Page
         /\ Item[1] \in Steady =>
               IF HasMore(link[Item], rcursor)
               THEN ToSet(read) = Passed(link[Item], NextCursor(link[Item], rcursor))
               ELSE ToSet(read) = ToSet(link[Item])
<1> DEFINE items == link[Item]
           b == Batch(items, rcursor)
<1>1. Running(None) /\ Honoured(items, rcursor)
  BY DEF ReadRelation
<1>2. Distinct(items, Target) /\ Distinct(items, Page) /\ todo # <<>>
  BY <1>1, ItemAtHand
<1> HIDE DEF items
<1>3. /\ Distinct(b, ToSet(items))
      /\ HasMore(items, rcursor) =>
            /\ NextCursor(items, rcursor) \in ToSet(items)
            /\ Passed(items, NextCursor(items, rcursor)) = Passed(items, rcursor) \cup ToSet(b)
      /\ ~HasMore(items, rcursor) => ToSet(items) = Passed(items, rcursor) \cup ToSet(b)
  BY <1>1, <1>2, BatchContinues
<1>4. ToSet(items) \subseteq Target /\ ToSet(items) \subseteq Page
  BY <1>2, FiniteMembers DEF Distinct
<1> HIDE DEF b
<1>5. Distinct(b, Target)
  BY <1>3, <1>4 DEF Distinct
<1>6. rgot \in Seq(Target) /\ (~Directed => IsInjective(rgot))
  BY DEF Sound, StrictTypeOK, CrawledSoFar
<1>7. /\ Gathered(b) \in Seq(Target) /\ ToSet(Gathered(b)) = ToSet(rgot) \cup ToSet(b)
      /\ ~Directed => IsInjective(Gathered(b))
  BY <1>5, <1>6, GatheredHolds
<1>8. Item[1] \in Steady => ToSet(rgot) = Passed(items, rcursor)
  BY <1>2 DEF Sound, LinksAreTrue, items
<1> QED
  BY <1>3, <1>4, <1>7, <1>8 DEF items, b

LEMMA RelationContinues ==
  ASSUME ReaderAssumption, Sound, ReadRelation, HasMore(link[Item], rcursor)
  PROVE  Sound'
<1> DEFINE read == Gathered(Batch(link[Item], rcursor))
<1>1. /\ rcursor' = NextCursor(link[Item], rcursor) /\ rgot' = read
      /\ UNCHANGED <<todo, links, evidence>>
      /\ tries' = [tries EXCEPT ![None] = 0]
      /\ UNCHANGED <<notion, status, cursor, got, complete, published>>
  BY DEF ReadRelation
<1>2. /\ status = "relations" /\ todo # <<>> /\ published = Unpublished
  BY ItemAtHand DEF ReadRelation
<1>3. /\ read \in Seq(Target) /\ (~Directed => IsInjective(read))
      /\ NextCursor(link[Item], rcursor) \in ToSet(link[Item])
      /\ NextCursor(link[Item], rcursor) \in Page
      /\ Item[1] \in Steady => ToSet(read) = Passed(link[Item], NextCursor(link[Item], rcursor))
  BY RelationAnswered
<1> HIDE DEF read
<1>4. ToRead' = ToRead /\ AllPages' = AllPages /\ Steady' = Steady /\ Item' = Item /\ link' = link
  BY <1>1 DEF ToRead, AllPages, Steady, Item, notion
<1>5. StrictTypeOK'
  <2>1. tries' \in [Readers -> 0..MaxAttempts - 1]
    <3>1. 0 \in 0..MaxAttempts - 1
      BY DEF ReaderAssumption, SourceAssumption
    <3> QED
      BY <1>1, <3>1 DEF Sound, StrictTypeOK
  <2> QED
    BY <1>1, <1>3, <1>4, <2>1 DEF Sound, StrictTypeOK, notion
<1>6. QueriedSoFar'
  BY <1>1, <1>2, <1>4 DEF Sound, QueriedSoFar, notion
<1>7. CrawledSoFar'
  BY <1>1, <1>3, <1>4 DEF Sound, CrawledSoFar
<1>8. LinksAreTrue'
  <2>1. Item'[1] \in Steady' => Honoured(link'[Item'], rcursor') /\ ToSet(rgot') = Passed(link'[Item'], rcursor')
    BY <1>1, <1>3, <1>4 DEF Honoured
  <2>2. /\ \A i \in DOMAIN links' : links'[i][1] \in Steady' => links'[i][2] \in ToSet(link'[OwnerOf(links'[i])])
        /\ \A e \in evidence' : e[1] \in Steady' =>
              \A t \in ToSet(link'[CountedOf(e)]) : <<e[1], t, e[2]>> \in ToSet(links')
    BY <1>1, <1>4 DEF Sound, LinksAreTrue
  <2> QED
    BY <2>1, <2>2 DEF LinksAreTrue
<1>9. PublishedAsRead'
  BY <1>1, <1>2 DEF PublishedAsRead
<1> QED
  BY <1>5, <1>6, <1>7, <1>8, <1>9 DEF Sound

LEMMA RelationEnds ==
  ASSUME ReaderAssumption, Sound, ReadRelation, ~HasMore(link[Item], rcursor)
  PROVE  Sound'
<1> DEFINE read == Gathered(Batch(link[Item], rcursor))
           o == Item
           b == Block(o, read)
           e1 == <<o[1], o[2], Len(read)>>
<1>1. /\ links' = links \o b /\ evidence' = evidence \cup {e1}
      /\ todo' = Tail(todo) /\ rcursor' = None /\ rgot' = <<>>
      /\ tries' = [tries EXCEPT ![None] = 0]
      /\ UNCHANGED <<notion, status, cursor, got, complete, published>>
  BY DEF ReadRelation, Block
<1>2. /\ status = "relations" /\ todo # <<>> /\ published = Unpublished
      /\ o \in ToRead /\ o \in Owners /\ o \in Page \X (DOMAIN Declared) /\ o[1] \in AllPages
      /\ Distinct(Tail(todo), ToRead) /\ ToSet(Tail(todo)) = ToSet(todo) \ {o} /\ o \in ToSet(todo)
      /\ \A e \in evidence : CountedOf(e) # o
      /\ links \in Seq(Link) /\ \A i \in DOMAIN links : OwnerOf(links[i]) # o
  BY ItemAtHand DEF ReadRelation
<1>3. /\ read \in Seq(Target) /\ (~Directed => IsInjective(read))
      /\ o[1] \in Steady => ToSet(read) = ToSet(link[o])
  BY RelationAnswered
<1> HIDE DEF read, o
<1>4. /\ b \in Seq(Link) /\ Len(b) = Len(read)
      /\ \A i \in DOMAIN b : OwnerOf(b[i]) = o /\ b[i][2] \in ToSet(read)
      /\ \A t : <<o[1], t, o[2]>> \in ToSet(b) <=> t \in ToSet(read)
      /\ IsInjective(read) => IsInjective(b)
  BY <1>2, <1>3, BlockOfLinks
<1> HIDE DEF b
<1>5. /\ \A q : q # o => PlacesOf(links \o b, q) = PlacesOf(links, q)
      /\ Cardinality(PlacesOf(links \o b, o)) = Len(b)
      /\ \A i \in DOMAIN (links \o b) : \/ i \in DOMAIN links /\ (links \o b)[i] = links[i]
                                        \/ i - Len(links) \in DOMAIN b /\ (links \o b)[i] = b[i - Len(links)]
  <2>1. links \in Seq(Link) /\ b \in Seq(Link)
    BY <1>2, <1>4
  <2>2. (\A i \in DOMAIN b : OwnerOf(b[i]) = o) /\ \A i \in DOMAIN links : OwnerOf(links[i]) # o
    BY <1>2, <1>4
  <2> QED
    BY <2>1, <2>2, BlockIsCounted
<1>6. links \o b \in Seq(Link) /\ ToSet(links \o b) = ToSet(links) \cup ToSet(b)
  BY <1>2, <1>4, ConcatMembers
<1>7. o = <<o[1], o[2]>> /\ e1 \in Page \X (DOMAIN Declared) \X Nat /\ CountedOf(e1) = o
      /\ e1[1] = o[1] /\ e1[2] = o[2] /\ e1[3] = Len(read)
  <2>1. Len(read) \in Nat
    BY <1>3
  <2> QED
    BY <1>2, <2>1 DEF CountedOf
<1> HIDE DEF e1
<1>8. ToRead' = ToRead /\ AllPages' = AllPages /\ Steady' = Steady /\ link' = link
  BY <1>1 DEF ToRead, AllPages, Steady, notion
<1>9. StrictTypeOK'
  <2>1. tries' \in [Readers -> 0..MaxAttempts - 1]
    <3>1. 0 \in 0..MaxAttempts - 1
      BY DEF ReaderAssumption, SourceAssumption
    <3> QED
      BY <1>1, <3>1 DEF Sound, StrictTypeOK
  <2>2. links' \in Seq(Page \X Target \X (DOMAIN Declared))
    BY <1>1, <1>6 DEF Link
  <2>3. /\ evidence' \subseteq Page \X (DOMAIN Declared) \X Nat
        /\ IsFiniteSet(evidence') /\ {e[1] : e \in evidence'} \subseteq AllPages
    <3>1. IsFiniteSet(evidence) /\ evidence \subseteq Page \X (DOMAIN Declared) \X Nat
          /\ {e[1] : e \in evidence} \subseteq AllPages
      BY DEF Sound, StrictTypeOK
    <3>2. IsFiniteSet(evidence \cup {e1})
      BY <3>1, FS_AddElement
    <3> QED
      BY <1>1, <1>2, <1>7, <3>1, <3>2
  <2>4. Distinct(todo', ToRead) /\ rgot' \in Seq(Target) /\ rcursor' \in Page \cup {None}
    BY <1>1, <1>2
  <2> QED
    BY <1>1, <1>8, <2>1, <2>2, <2>3, <2>4 DEF Sound, StrictTypeOK, notion
<1>10. QueriedSoFar'
  BY <1>1, <1>2, <1>8 DEF Sound, QueriedSoFar, notion
<1>11. CrawledSoFar'
  <2>1. {CountedOf(e) : e \in evidence'} = ToRead \ ToSet(todo')
    <3>1. {CountedOf(e) : e \in evidence} = ToRead \ ToSet(todo)
      BY <1>2 DEF Sound, CrawledSoFar
    <3> QED
      BY <1>1, <1>2, <1>7, <3>1
  <2>2. ASSUME NEW e \in evidence'
        PROVE  CountedOf(e) \notin ToSet(todo') /\ e[3] = Cardinality(PlacesOf(links', CountedOf(e)))
    <3>1. CASE e \in evidence
      <4>1. CountedOf(e) \notin ToSet(todo) /\ e[3] = Cardinality(PlacesOf(links, CountedOf(e)))
        BY <3>1 DEF Sound, CrawledSoFar, PlacesOf
      <4> QED
        BY <1>1, <1>2, <1>5, <3>1, <4>1
    <3>2. CASE e = e1
      BY <1>1, <1>2, <1>4, <1>5, <1>7, <3>2
    <3> QED
      BY <1>1, <3>1, <3>2
  <2>3. ASSUME NEW i \in DOMAIN links'
        PROVE  \E e \in evidence' : CountedOf(e) = OwnerOf(links'[i])
    <3>1. CASE i \in DOMAIN links /\ links'[i] = links[i]
      BY <1>1, <3>1 DEF Sound, CrawledSoFar
    <3>2. CASE i - Len(links) \in DOMAIN b /\ links'[i] = b[i - Len(links)]
      BY <1>1, <1>4, <1>7, <3>2
    <3> QED
      BY <1>1, <1>5, <3>1, <3>2
  <2>4. ASSUME ~Directed
        PROVE  IsInjective(links') /\ IsInjective(rgot')
    <3>1. IsInjective(links) /\ IsInjective(b)
      BY <1>3, <1>4, <2>4 DEF Sound, CrawledSoFar
    <3>2. ToSet(links) \cap ToSet(b) = {}
      BY <1>2, <1>4 DEF ToSet
    <3>3. Distinct(links, Link) /\ Distinct(b, Link)
      BY <1>2, <1>4, <3>1 DEF Distinct
    <3>4. Distinct(links \o b, Link)
      BY <3>2, <3>3, ConcatDistinct
    <3> QED
      BY <1>1, <3>4 DEF Distinct, IsInjective
  <2> QED
    BY <1>8, <2>1, <2>2, <2>3, <2>4 DEF CrawledSoFar, PlacesOf
<1>12. LinksAreTrue'
  <2>1. ASSUME NEW i \in DOMAIN links', links'[i][1] \in Steady
        PROVE  links'[i][2] \in ToSet(link[OwnerOf(links'[i])])
    <3>1. CASE i \in DOMAIN links /\ links'[i] = links[i]
      BY <2>1, <3>1 DEF Sound, LinksAreTrue
    <3>2. CASE i - Len(links) \in DOMAIN b /\ links'[i] = b[i - Len(links)]
      <4>1. OwnerOf(links'[i]) = o /\ links'[i][2] \in ToSet(read)
        BY <1>4, <3>2
      <4>2. links'[i][1] = o[1]
        BY <1>7, <4>1 DEF OwnerOf
      <4> QED
        BY <1>3, <2>1, <4>1, <4>2
    <3> QED
      BY <1>1, <1>5, <3>1, <3>2
  <2>2. ASSUME NEW e \in evidence', e[1] \in Steady, NEW t \in ToSet(link[CountedOf(e)])
        PROVE  <<e[1], t, e[2]>> \in ToSet(links')
    <3>1. CASE e \in evidence
      BY <1>1, <1>6, <2>2, <3>1 DEF Sound, LinksAreTrue
    <3>2. CASE e = e1
      BY <1>1, <1>3, <1>4, <1>6, <1>7, <2>2, <3>2
    <3> QED
      BY <1>1, <3>1, <3>2
  <2>3. Honoured(link'[Item'], rcursor') /\ ToSet(rgot') = Passed(link'[Item'], rcursor')
    BY <1>1 DEF Honoured, Passed, From, ToSet
  <2> QED
    BY <1>8, <2>1, <2>2, <2>3 DEF LinksAreTrue
<1>13. PublishedAsRead'
  BY <1>1, <1>2 DEF PublishedAsRead
<1> QED
  BY <1>9, <1>10, <1>11, <1>12, <1>13 DEF Sound

LEMMA PublicationEnds ==
  ASSUME ReaderAssumption, Sound, Publish
  PROVE  Sound'
<1>1. /\ status = "relations" /\ todo = <<>> /\ Resolved(links, AllPages)
      /\ status' = "published" /\ published' = Projected
      /\ UNCHANGED <<notion, query, tries, crawl>>
  BY DEF Publish, Crawled
<1>2. ToRead' = ToRead /\ AllPages' = AllPages /\ Steady' = Steady
  BY <1>1 DEF ToRead, AllPages, Steady, notion, query
<1>3. Projected # Unpublished
  <2>1. "entities" \in DOMAIN Projected
    BY DEF Projected, Normalize
  <2>2. DOMAIN Unpublished = {}
    BY DEF Unpublished
  <2> QED
    BY <2>1, <2>2
<1>4. Projected' = Projected
  BY <1>1, <1>2 DEF Projected, crawl
<1>5. StrictTypeOK'
  BY <1>1, <1>2, <1>3 DEF Sound, StrictTypeOK, notion, query, crawl
<1>6. QueriedSoFar'
  BY <1>1, <1>2 DEF Sound, QueriedSoFar, notion, query
<1>7. CrawledSoFar'
  BY <1>1, <1>2 DEF Sound, CrawledSoFar, crawl
<1>8. LinksAreTrue'
  BY <1>1, <1>2 DEF Sound, LinksAreTrue, notion, crawl
<1>9. PublishedAsRead'
  BY <1>1, <1>2, <1>4 DEF PublishedAsRead, crawl
<1> QED
  BY <1>5, <1>6, <1>7, <1>8, <1>9 DEF Sound

LEMMA ReadingMoves ==
  ASSUME ReaderAssumption, Sound, [Next]_vars
  PROVE  Sound'
<1>1. tries \in [Readers -> 0..MaxAttempts - 1] /\ MaxAttempts \in Nat \ {0}
  BY DEF Sound, StrictTypeOK, ReaderAssumption, SourceAssumption
<1>2. CASE UNCHANGED vars
  BY <1>1, <1>2, TroubleMoves DEF vars, notion, query, crawl
<1>3. CASE Owner
  <2>1. ASSUME NEW p \in Page, AddPage(p) \/ RemovePage(p) \/ MovePage(p)
        PROVE  Sound'
    BY <2>1, OwnerMovesPages
  <2>2. ASSUME NEW o \in Owners, NEW target \in Target, Relink(o[1], o[2], target)
        PROVE  Sound'
    BY <2>2, OwnerRelinks
  <2> QED
    BY <1>3, <2>1, <2>2 DEF Owner
<1>4. ASSUME Fail, status # "published"
      PROVE  Sound'
  BY <1>1, <1>4, TroubleMoves DEF Fail
<1>5. \A r \in Readers : Running(r) => status # "published"
  BY DEF Running
<1>6. CASE Trouble
  <2>1. CASE Drifted
    BY <1>4, <2>1 DEF Drifted, Queried
  <2>2. ASSUME NEW r \in Readers, Throttled(r)
        PROVE  Sound'
    <3>1. tries[r] + 1 \in 0..MaxAttempts - 1
      BY <1>1, <2>2 DEF Throttled
    <3>2. tries' \in [Readers -> 0..MaxAttempts - 1]
      BY <1>1, <2>2, <3>1 DEF Throttled
    <3> QED
      BY <2>2, <3>2, TroubleMoves DEF Throttled
  <2>3. ASSUME NEW r \in Readers, RequestFails(r)
        PROVE  Sound'
    BY <1>4, <1>5, <2>3 DEF RequestFails
  <2> QED
    BY <1>6, <2>1, <2>2, <2>3 DEF Trouble
<1>7. CASE Reader
  <2>1. ASSUME NEW k \in Kind, Query(k)
        PROVE  Sound'
    BY <2>1, QueryMoves
  <2>2. ASSUME NEW k \in Kind, QueryRefused(k)
        PROVE  Sound'
    BY <1>4, <1>5, <2>2 DEF QueryRefused, Readers
  <2>3. CASE BeginCrawl
    BY <2>3, CrawlBegins
  <2>4. CASE ReadRelation
    BY <2>4, RelationContinues, RelationEnds
  <2>5. CASE RelationRefused
    BY <1>4, <1>5, <2>5 DEF RelationRefused, Readers
  <2>6. CASE Publish
    BY <2>6, PublicationEnds
  <2>7. CASE PublishRefused
    BY <1>4, <2>7 DEF PublishRefused, Crawled
  <2> QED
    BY <1>7, <2>1, <2>2, <2>3, <2>4, <2>5, <2>6, <2>7 DEF Reader
<1> QED
  BY <1>2, <1>3, <1>6, <1>7 DEF Next

LEMMA SoundSuffices ==
  ASSUME ReaderAssumption, Sound
  PROVE  SourceInvariant
BY SoundIsExact, SoundForgetsOrder, SoundAccounts DEF Sound, SourceInvariant

-----------------------------------------------------------------------------
(* Whatever the owner does to the workspace during a run, what the run     *)
(* publishes is exactly what the part of it that was let alone holds, in   *)
(* an order of its own, with evidence for every declared property of every *)
(* page (queryAllNotionDataSource, collectStrictRelationObservations,      *)
(* normalizeProjection).                                                   *)
THEOREM ReadingIsExact ==
  ASSUME ReaderAssumption
  PROVE  Spec => []SourceInvariant
<1>1. Init => Sound
  BY ReadingStarts
<1>2. Sound /\ [Next]_vars => Sound'
  BY ReadingMoves
<1>3. Sound => SourceInvariant
  BY SoundSuffices
<1> QED
  BY <1>1, <1>2, <1>3, PTL DEF Spec
=============================================================================
