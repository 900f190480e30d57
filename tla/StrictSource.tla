---------------------------- MODULE StrictSource ----------------------------
(***************************************************************************)
(* Reading a project out of Notion while its owner edits it.  Every data   *)
(* source is queried page by page, all of them side by side; then, page by *)
(* page, every declared relation property is read, again in pages.  Notion *)
(* offers no snapshot: a cursor names the next item, and items are added,  *)
(* removed and moved between two requests.  The reader publishes what it   *)
(* has read only if it can show it complete, and fails otherwise.          *)
(*                                                                         *)
(* One run.  Edits are not bounded; what is read is.                       *)
(***************************************************************************)
EXTENDS Projection

CONSTANTS
    BatchSize,      \* 100 items in an answer
    MaxAttempts,    \* 6 attempts of a request
    Target,         \* the pages that relations name
    None

SourceAssumption ==
    /\ IsFiniteSet(Kind) /\ IsFiniteSet(Page)
    /\ Target \subseteq Page
    /\ BatchSize \in Nat \ {0} /\ MaxAttempts \in Nat \ {0}
    /\ None \notin Nat /\ None \notin Kind

VARIABLES
    order,      \* the live pages of every data source, in its current order
    link,       \* the targets of every page and declared relation, in order
    touched,    \* pages added, removed, moved or linked since the run began
    status,     \* "query", "relations", "published" or "failed"
    cursor,     \* of every data source: the next page, None before the first
    followed,   \* the cursors of a data source, or of the relation, so far
    got,        \* the pages read from it
    complete,   \* data sources read to the end
    tries,      \* failed attempts of the current request of each reader
    todo,       \* the relation properties still to be read, as <<page, relation>>
    rcursor, rgot,      \* of the first of them: the next item, what was read
    links,      \* the observed links, <<source, target, relation>>
    evidence,   \* <<page, relation, number of items>> of every property read
    published   \* the projection, or Unpublished

notion == <<order, link, touched>>
query  == <<cursor, got, complete, followed>>
crawl  == <<todo, rcursor, rgot, links, evidence>>
vars   == <<order, link, touched, status, cursor, followed, got, complete, tries,
            todo, rcursor, rgot, links, evidence, published>>

-----------------------------------------------------------------------------
Owners  == {o \in Page \X (DOMAIN Declared) : KindOf[o[1]] = Declared[o[2]].owner}
Orders(S) == UNION {{s \in [1..n -> S] : IsInjective(s)} : n \in 0..Cardinality(S)}
Of(k)   == {p \in Page : KindOf[p] = k}
Readers == Kind \cup {None}     \* one of every data source, and the crawler
Unpublished == <<>>

Init ==
    /\ order \in [Kind -> Orders(Page)] /\ \A k \in Kind : ToSet(order[k]) \subseteq Of(k)
    /\ link \in [Owners -> Orders(Target)]
    /\ touched = {}
    /\ status = "query"
    /\ cursor = [k \in Kind |-> None]
    /\ followed = [r \in Readers |-> {}]
    /\ got = [k \in Kind |-> <<>>]
    /\ complete = {}
    /\ tries = [r \in Readers |-> 0]
    /\ todo = <<>> /\ rcursor = None /\ rgot = <<>>
    /\ links = <<>> /\ evidence = {}
    /\ published = Unpublished

-----------------------------------------------------------------------------
(* The owner edits; the reader is not told.  Notion lists the page edited  *)
(* last first; the query asks for no other order.                          *)

Edits(p) == status \in {"query", "relations"} /\ touched' = touched \cup {p}

AddPage(p) ==
    /\ Edits(p)
    /\ \A k \in Kind : p \notin ToSet(order[k])
    /\ order' = [order EXCEPT ![KindOf[p]] = Cons(p, @)]
    /\ UNCHANGED <<link, status, query, tries, crawl, published>>

Place(items, x)   == CHOOSE i \in DOMAIN items : items[i] = x
Without(items, x) == RemoveAt(items, Place(items, x))

RemovePage(p) ==
    /\ Edits(p)
    /\ p \in ToSet(order[KindOf[p]])
    /\ order' = [order EXCEPT ![KindOf[p]] = Without(@, p)]
    /\ UNCHANGED <<link, status, query, tries, crawl, published>>

MovePage(p) ==
    /\ Edits(p)
    /\ p \in ToSet(order[KindOf[p]])
    /\ order' = [order EXCEPT ![KindOf[p]] = Cons(p, Without(@, p))]
    /\ UNCHANGED <<link, status, query, tries, crawl, published>>

Relink(p, d, target) ==
    /\ Edits(p)
    /\ link' = [link EXCEPT ![<<p, d>>] =
                    IF target \in ToSet(@) THEN Without(@, target) ELSE Cons(target, @)]
    /\ UNCHANGED <<order, status, query, tries, crawl, published>>

-----------------------------------------------------------------------------
(* An answer: the items from the cursor on, and the cursor of the rest.    *)
(* A cursor whose item is gone is refused.                                 *)

From(items, at) == IF at = None THEN 1 ELSE Place(items, at)
Honoured(items, at) == at = None \/ at \in ToSet(items)
Batch(items, at) ==
    LET i == From(items, at)
    IN  SubSeq(items, i, IF i + BatchSize - 1 < Len(items) THEN i + BatchSize - 1 ELSE Len(items))
HasMore(items, at) == From(items, at) + BatchSize <= Len(items)
NextCursor(items, at) == items[From(items, at) + BatchSize]

Running(r) ==
    \/ status = "query" /\ r \in Kind \ complete
    \/ status = "relations" /\ r = None /\ todo # <<>>

(* Notion asks to slow down: the request is sent again, a few times.       *)
Throttled(r) ==
    /\ Running(r) /\ tries[r] < MaxAttempts - 1
    /\ tries' = [tries EXCEPT ![r] = @ + 1]
    /\ UNCHANGED <<notion, status, query, crawl, published>>

Fail ==
    /\ status' = "failed"
    /\ UNCHANGED <<notion, query, tries, crawl, published>>

(* Any other failure, a last attempt, or an answer out of its format.      *)
RequestFails(r) == Running(r) /\ Fail

-----------------------------------------------------------------------------
(* The queries.                                                            *)

(* A cursor that was already followed: the reader would go round.          *)
Circles(r, items, at) == HasMore(items, at) /\ NextCursor(items, at) \in followed[r]

(* So does a page that was already read.                                   *)
Repeats_CursorOnly(k) == Circles(k, order[k], cursor[k])

Repeats(k) ==
    \/ ToSet(Batch(order[k], cursor[k])) \cap ToSet(got[k]) # {}
    \/ Circles(k, order[k], cursor[k])

Query(k) ==
    /\ Running(k) /\ Honoured(order[k], cursor[k]) /\ ~Repeats(k)
    /\ got' = [got EXCEPT ![k] = @ \o Batch(order[k], cursor[k])]
    /\ IF HasMore(order[k], cursor[k])
       THEN /\ cursor' = [cursor EXCEPT ![k] = NextCursor(order[k], cursor[k])]
            /\ followed' = [followed EXCEPT ![k] = @ \cup {cursor'[k]}]
            /\ UNCHANGED complete
       ELSE complete' = complete \cup {k} /\ UNCHANGED <<cursor, followed>>
    /\ tries' = [tries EXCEPT ![k] = 0]
    /\ UNCHANGED <<notion, status, crawl, published>>

QueryRefused(k) ==
    /\ Running(k) /\ ~(Honoured(order[k], cursor[k]) /\ ~Repeats(k))
    /\ Fail

AllPages == UNION {ToSet(got[k]) : k \in Kind}

(* Every query has ended: the pages are decoded, and the declared          *)
(* properties of each are to be read.                                      *)
Queried == status = "query" /\ complete = Kind

(* In the order of the answers, and of the declarations.                   *)
ToRead == {o \in Owners : o[1] \in AllPages}
Pending ==
    Sorted(ToRead, [o \in ToRead |-> LET k == KindOf[o[1]] IN
                        <<Place(SetToSeq(Kind), k), Place(got[k], o[1]), o[2]>>])

BeginCrawl ==
    /\ Queried
    /\ status' = "relations"
    /\ todo' = Pending
    /\ UNCHANGED <<notion, query, tries, rcursor, rgot, links, evidence, published>>

(* A property of some page is missing or has another type than the project *)
(* declares: schema drift.                                                 *)
Drifted == Queried /\ Fail

-----------------------------------------------------------------------------
(* The relation properties, one after the other.                           *)

Item == Head(todo)

(* Every target once; kuzushiji-v2 keeps a repeated one, to refuse it.     *)
Gathered(batch) ==
    LET new == ToSet(batch) \ ToSet(rgot)
    IN  rgot \o IF Directed THEN batch ELSE Sorted(new, [t \in new |-> <<Place(batch, t), 0, 0>>])

ReadRelation ==
    /\ Running(None)
    /\ Honoured(link[Item], rcursor) /\ ~Circles(None, link[Item], rcursor)
    /\ LET items == link[Item]
           read == Gathered(Batch(items, rcursor))
       IN  /\ IF HasMore(items, rcursor)
              THEN /\ rcursor' = NextCursor(items, rcursor) /\ rgot' = read
                   /\ followed' = [followed EXCEPT ![None] = @ \cup {rcursor'}]
                   /\ UNCHANGED <<todo, links, evidence>>
              ELSE /\ links' = links \o [i \in DOMAIN read |-> <<Item[1], read[i], Item[2]>>]
                   /\ evidence' = evidence \cup {<<Item[1], Item[2], Len(read)>>}
                   /\ todo' = Tail(todo) /\ rcursor' = None /\ rgot' = <<>>
                   /\ followed' = [followed EXCEPT ![None] = {}]
    /\ tries' = [tries EXCEPT ![None] = 0]
    /\ UNCHANGED <<notion, status, cursor, got, complete, published>>

RelationRefused ==
    /\ Running(None)
    /\ ~(Honoured(link[Item], rcursor) /\ ~Circles(None, link[Item], rcursor))
    /\ Fail

Crawled == status = "relations" /\ todo = <<>>
Projected == Normalize(AllPages, links, evidence)

Publish ==
    /\ Crawled /\ Resolved(links, AllPages) /\ Readable(Projected)
    /\ status' = "published" /\ published' = Projected
    /\ UNCHANGED <<notion, query, tries, crawl>>

PublishRefused ==
    /\ Crawled /\ ~(Resolved(links, AllPages) /\ Readable(Projected))
    /\ Fail

-----------------------------------------------------------------------------
Owner ==
    \/ \E p \in Page : AddPage(p) \/ RemovePage(p) \/ MovePage(p)
    \/ \E o \in Owners, target \in Target : Relink(o[1], o[2], target)

Trouble == Drifted \/ \E r \in Readers : Throttled(r) \/ RequestFails(r)

Reader ==
    \/ \E k \in Kind : Query(k) \/ QueryRefused(k)
    \/ BeginCrawl \/ ReadRelation \/ RelationRefused
    \/ Publish \/ PublishRefused

Next == Owner \/ Trouble \/ Reader

Spec == Init /\ [][Next]_vars

-----------------------------------------------------------------------------
Distinct(s, S) == s \in Seq(S) /\ IsInjective(s)

Live == UNION {ToSet(order[k]) : k \in Kind}
Steady == Page \ touched      \* pages the owner let alone during the run

(* Type invariant.  No query result holds a page twice, and the relation   *)
(* property being read belongs to a page that was read                     *)
(* (queryAllNotionDataSource, collectStrictRelationObservations).          *)
StrictTypeOK ==
    /\ order \in [Kind -> Seq(Page)] /\ got \in [Kind -> Seq(Page)] /\ link \in [Owners -> Seq(Target)]
    /\ \A k \in Kind : Distinct(order[k], Of(k)) /\ Distinct(got[k], Of(k))
    /\ \A o \in Owners : Distinct(link[o], Target)
    /\ touched \subseteq Page
    /\ status \in {"query", "relations", "published", "failed"}
    /\ cursor \in [Kind -> Page \cup {None}] /\ rcursor \in Page \cup {None}
    /\ complete \subseteq Kind
    /\ tries \in [Readers -> 0..MaxAttempts - 1]
    /\ Distinct(todo, ToRead) /\ rgot \in Seq(Target)
    /\ links \in Seq(Page \X Target \X (DOMAIN Declared))
    /\ evidence \subseteq Page \X (DOMAIN Declared) \X Nat /\ IsFiniteSet(evidence)
    /\ {e[1] : e \in evidence} \subseteq AllPages
    /\ (published # Unpublished) <=> (status = "published")

(* However the owner rearranged the workspace during the run, a page the   *)
(* owner let alone is in the published projection exactly when it exists,  *)
(* and its links are those it has in Notion: the pagination lost none and  *)
(* invented none, and the graph draws each whose ends it shows.            *)
SteadyIsExact ==
    published # Unpublished => \A p \in Steady :
        /\ p \in Pages(published) <=> p \in Live
        /\ \A r \in ToSet(published.relations) :
                r[1] = p => r[2] \in ToSet(link[<<p, r[3]>>])
        /\ \A o \in Owners : o[1] = p /\ p \in Live =>
              \A t \in ToSet(link[o]) : {p, t} \subseteq Visible(published) /\ (Directed \/ t # p) =>
                  \E e \in Edges(published) : RelationId(e) = RelationId(<<p, t, o[2]>>)

(* The order in which Notion happened to list pages and links does not     *)
(* reach the projection: reading them in the order of their ids gives the  *)
(* same one, so that its content hash identifies the content               *)
(* (normalizeProjection sorts every collection before hashing).            *)
OrderIsForgotten ==
    published # Unpublished => published = Normalize(AllPages, InOrder(ToSet(links)), evidence)

(* The completeness evidence is worth its name: there is one item for      *)
(* every declared property of every published page, and its count is that  *)
(* of the relations the page has through it, its links to itself included. *)
EvidenceAccounts ==
    published # Unpublished =>
        LET all == ToSet(published.evidence)
        IN  /\ {<<e[1], e[2]>> : e \in all} = Owed(published)
            /\ \A e \in all :
                /\ Related(published, e[1], e[2]) <= e[3]
                /\ e[3] <= Cardinality({r \in ToSet(published.relations) :
                                e[1] \in {r[1], r[2]} /\ r[3] = e[2]})
                           + IF <<e[1], e[1], e[2]>> \in ToSet(links) THEN 1 ELSE 0

Before(items, x, y) == \E i, j \in DOMAIN items : i < j /\ items[i] = x /\ items[j] = y
Passed(items, at)   == {items[i] : i \in 1..(From(items, at) - 1)}

(* Why.  Of a data source, the pages let alone are read up to the cursor,  *)
(* and no page is read that is not there: the owner moves a page only to   *)
(* the front, and the cursor with it.                                      *)
QueriedSoFar ==
    /\ \A k \in Kind :
        /\ ToSet(got[k]) \cap Steady \subseteq ToSet(order[k])
        /\ k \in complete => ToSet(order[k]) \cap Steady \subseteq ToSet(got[k])
        /\ \A p \in Steady : Before(order[k], p, cursor[k]) => p \in ToSet(got[k])
    /\ status = "query" => todo = <<>> /\ rcursor = None /\ rgot = <<>> /\ links = <<>> /\ evidence = {}
    /\ status \in {"relations", "published"} => complete = Kind

OwnerOf(l) == <<l[1], l[3]>>    \* of a link, the property it was read from
CountedOf(e) == <<e[1], e[2]>>  \* of an item of evidence

(* Every property is either still to be read or has its evidence, and with *)
(* the evidence its links, as many as it says.                             *)
CrawledSoFar ==
    /\ status \in {"relations", "published"} =>
          {CountedOf(e) : e \in evidence} = ToRead \ ToSet(todo)
    /\ \A e \in evidence :
          /\ CountedOf(e) \notin ToSet(todo)
          /\ e[3] = Cardinality({i \in DOMAIN links : OwnerOf(links[i]) = CountedOf(e)})
    /\ \A i \in DOMAIN links : \E e \in evidence : CountedOf(e) = OwnerOf(links[i])
    /\ ~Directed => IsInjective(links) /\ IsInjective(rgot)

(* Of a property let alone the links are those it has, and of the one at   *)
(* hand what stands before the cursor has been read.                       *)
LinksAreTrue ==
    /\ \A i \in DOMAIN links : links[i][1] \in Steady => links[i][2] \in ToSet(link[OwnerOf(links[i])])
    /\ \A e \in evidence : e[1] \in Steady =>
          \A t \in ToSet(link[CountedOf(e)]) : <<e[1], t, e[2]>> \in ToSet(links)
    /\ todo # <<>> /\ Item[1] \in Steady =>
          /\ Honoured(link[Item], rcursor)
          /\ ToSet(rgot) = Passed(link[Item], rcursor)

(* What is published is what was read, all of it.                          *)
PublishedAsRead ==
    published # Unpublished =>
        published = Projected /\ Resolved(links, AllPages) /\ todo = <<>>

(* All together.                                                           *)
SourceInvariant ==
    /\ StrictTypeOK /\ SteadyIsExact /\ OrderIsForgotten /\ EvidenceAccounts
    /\ QueriedSoFar /\ CrawledSoFar /\ LinksAreTrue /\ PublishedAsRead
=============================================================================
