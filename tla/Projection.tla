----------------------------- MODULE Projection -----------------------------
(***************************************************************************)
(* What the publisher makes of the pages and links it read from Notion:    *)
(* entities, relations and the evidence that nothing is missing, in one    *)
(* order; what a reader requires of a projection before it shows it; and   *)
(* the graph it draws.                                                     *)
(*                                                                         *)
(* A page is its id, a number: ids are ordered.  Of its text only the      *)
(* title is kept, and of the title only its shape.  The three projects     *)
(* differ by their declared relations and by two rules, named by Project:  *)
(* kuzushiji-v2 has directed relations and checks the evidence again.      *)
(***************************************************************************)
EXTENDS Integers, SequencesExt

CONSTANTS
    Project,   \* "kuzushiji-v2", "western-art-history-v1" or "philosophy-v1"
    Kind,      \* kinds of entities, each one a data source
    Page,
    KindOf,    \* the kind of every page
    Title,     \* the shape of its title
    Bare,      \* pages with no other text
    Declared   \* the declared relations, a sequence of [owner, target] kinds

Shape == {"text", "empty", "space"}

ProjectionAssumption ==
    /\ Project \in {"kuzushiji-v2", "western-art-history-v1", "philosophy-v1"}
    /\ Page \subseteq Nat
    /\ KindOf \in [Page -> Kind]
    /\ Title \in [Page -> Shape]
    /\ Bare \subseteq Page
    /\ Declared \in Seq([owner : Kind, target : Kind])

Directed == Project = "kuzushiji-v2"

-----------------------------------------------------------------------------
(* Order.                                                                  *)

Precedes(a, b) ==   \* of triples of numbers
    \/ a[1] < b[1]
    \/ a[1] = b[1] /\ a[2] < b[2]
    \/ a[1] = b[1] /\ a[2] = b[2] /\ a[3] < b[3]

(* The members of a set in the order of their keys, a triple for each.     *)
Standing(S, key, x) == Cardinality({y \in S : ~Precedes(key[x], key[y])})
Sorted(S, key) == [n \in 1..Cardinality(S) |-> CHOOSE x \in S : Standing(S, key, x) = n]

InOrder(triples) == Sorted(triples, [t \in triples |-> t])

-----------------------------------------------------------------------------
(* From pages and links to a projection.                                   *)

(* Kuzushiji keeps a title as it is; the others replace an empty one.      *)
Display(title) == IF title = "empty" THEN "placeholder" ELSE title

KuzushijiEntity(p)  == [id |-> p, label |-> Title[p]]
ArtEntity(p)        == [id |-> p, label |-> Display(Title[p]), bare |-> p \in Bare]
PhilosophyEntity(p) == [id |-> p, label |-> Display(Title[p])]

Entity(p) ==
    CASE Project = "kuzushiji-v2"           -> KuzushijiEntity(p)
      [] Project = "western-art-history-v1" -> ArtEntity(p)
      [] Project = "philosophy-v1"          -> PhilosophyEntity(p)

(* An observed link is <<source, target, relation>>.                       *)
RelationId(link) ==
    IF Directed \/ link[1] < link[2] THEN link ELSE <<link[2], link[1], link[3]>>

(* Both ends of every link were read, and a directed one was read once.    *)
Resolved(links, pages) ==
    /\ \A i \in DOMAIN links : links[i][1] \in pages /\ links[i][2] \in pages
    /\ Directed => IsInjective(links)

(* Undirected links with the same ends are one relation, in the direction  *)
(* of the first of them; a link of a page to itself is none.               *)
Kept(all) ==
    {l \in all :
        /\ ~Directed => l[1] # l[2]
        /\ \A m \in all : RelationId(m) = RelationId(l) => ~Precedes(m, l)}

Materialize(links) ==
    LET kept == Kept(ToSet(links)) IN Sorted(kept, [l \in kept |-> RelationId(l)])

Listed(pages, k) ==
    LET own == {p \in pages : KindOf[p] = k}
        ids == Sorted(own, [p \in own |-> <<p, 0, 0>>])
    IN  [i \in DOMAIN ids |-> Entity(ids[i])]

(* The normalised projection: every collection in the order of its ids.    *)
Normalize(pages, links, evidence) ==
    [entities  |-> [k \in Kind |-> Listed(pages, k)],
     relations |-> Materialize(links),
     counts    |-> [k \in Kind |-> Cardinality({p \in pages : KindOf[p] = k})],
     evidence  |-> InOrder(evidence)]   \* <<page, relation, number of items>>

-----------------------------------------------------------------------------
(* What a reader requires.                                                 *)

Ids(projection, k) == {projection.entities[k][i].id : i \in DOMAIN projection.entities[k]}
Pages(projection)  == UNION {Ids(projection, k) : k \in Kind}

(* A title is any string in kuzushiji, and not blank in the others.        *)
KuzushijiEntityReadable(entity)  == entity.label \in Shape
ArtEntityReadable(entity)        == entity.label \in {"text", "placeholder"}
PhilosophyEntityReadable(entity) == entity.label \in {"text", "placeholder"}

UniqueIds(projection) ==
    \A k \in Kind : \A i, j \in DOMAIN projection.entities[k] :
        projection.entities[k][i].id = projection.entities[k][j].id => i = j

UniqueRelations(projection) ==
    \A i, j \in DOMAIN projection.relations :
        RelationId(projection.relations[i]) = RelationId(projection.relations[j]) => i = j

UniqueEvidence(projection) ==
    \A i, j \in DOMAIN projection.evidence : LET e == projection.evidence[i] f == projection.evidence[j] IN
        <<e[1], e[2]>> = <<f[1], f[2]>> => i = j

(* The pages whose property for a declared relation had to be read.        *)
Owed(projection) ==
    {o \in Pages(projection) \X (DOMAIN Declared) : KindOf[o[1]] = Declared[o[2]].owner}

Related(projection, p, d) ==
    Cardinality({i \in DOMAIN projection.relations :
                    projection.relations[i][1] = p /\ projection.relations[i][3] = d})

EvidenceReadable(projection) ==
    {<<e[1], e[2]>> : e \in ToSet(projection.evidence)} = Owed(projection)

ContractHolds(projection) ==
    \A r \in ToSet(projection.relations) :
        /\ r[1] \in Ids(projection, Declared[r[3]].owner)
        /\ r[2] \in Ids(projection, Declared[r[3]].target)

Unique(projection) ==
    UniqueIds(projection) /\ UniqueRelations(projection) /\ UniqueEvidence(projection)

AllEntities(projection) == UNION {ToSet(projection.entities[k]) : k \in Kind}

KuzushijiReadable(projection) ==
    /\ \A e \in AllEntities(projection) : KuzushijiEntityReadable(e)
    /\ Unique(projection) /\ ContractHolds(projection) /\ EvidenceReadable(projection)
    /\ \A e \in ToSet(projection.evidence) : e[3] = Related(projection, e[1], e[2])
    /\ \A k \in Kind : projection.counts[k] = Len(projection.entities[k])

ArtReadable(projection) ==
    Unique(projection) /\ \A e \in AllEntities(projection) : ArtEntityReadable(e)

PhilosophyReadable(projection) ==
    Unique(projection) /\ \A e \in AllEntities(projection) : PhilosophyEntityReadable(e)

Readable(projection) ==
    CASE Project = "kuzushiji-v2"           -> KuzushijiReadable(projection)
      [] Project = "western-art-history-v1" -> ArtReadable(projection)
      [] Project = "philosophy-v1"          -> PhilosophyReadable(projection)

-----------------------------------------------------------------------------
(* The graph of a projection: its entities, a label for each, and the      *)
(* relations between them.                                                 *)

KuzushijiNodes(projection) ==
    {[id |-> e.id, label |-> Display(e.label)] : e \in AllEntities(projection)}

(* Western art history hides an entity with neither a title nor any text,  *)
(* unless it is a lecture.                                                 *)
ArtNodes(projection) ==
    {[id |-> e.id, label |-> e.label] :
        e \in {e \in AllEntities(projection) :
                ~(e.label = "placeholder" /\ e.bare /\ KindOf[e.id] # "lecture")}}

PhilosophyNodes(projection) ==
    {[id |-> e.id, label |-> e.label] : e \in AllEntities(projection)}

Nodes(projection) ==
    CASE Project = "kuzushiji-v2"           -> KuzushijiNodes(projection)
      [] Project = "western-art-history-v1" -> ArtNodes(projection)
      [] Project = "philosophy-v1"          -> PhilosophyNodes(projection)

Visible(projection) == {n.id : n \in Nodes(projection)}

Edges(projection) ==
    {r \in ToSet(projection.relations) : {r[1], r[2]} \subseteq Visible(projection)}
=============================================================================
