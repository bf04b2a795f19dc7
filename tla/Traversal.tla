------------------------------ MODULE Traversal ------------------------------
(***************************************************************************)
(* Bounded traversal of relations (_structured_traverse of _operation.py,  *)
(* _compile_traversal and normalize_result of query/__init__.py): the      *)
(* closure of Relation Collections a caller resolved is compared with the  *)
(* registry of its request, and one recursive SQL statement walks their    *)
(* rows.  An iteration of WITH RECURSIVE is one step; the statement sees   *)
(* one snapshot, and a walk is the sequence of edges that made its path.   *)
(***************************************************************************)
EXTENDS Integers, Sequences, FiniteSets

CONSTANTS
    Records,        \* records, naturals in the order of their references: the
                    \* text by which relation rows name each
    Dumped,         \* the text json.dumps gives each record id as a start
    Collections,    \* Relation Collections
    Directed,       \* those whose layout is directed
    Pinned,         \* those the settings have a layout for
    Pool,           \* relation rows of the scope that satisfy the predicates
    Traversals,     \* traversals callers ask for
    RelationBound,  \* max_relation_resources
    DepthBound,     \* the lesser of max_traversal_depth and the capability
    PageSize,
    MaxPaths        \* max_returned_paths

RelationRows == [id : Nat, relation : Collections, source : Records, target : Records]

Query == [start : Records, direction : {"outbound", "inbound", "any"},
          all : BOOLEAN, relations : SUBSET Collections, min : Nat, max : Nat]

\* _structured_traverse asks for pages of at most max_returned_paths.
ASSUME TraversalAssumption ==
    /\ Records \subseteq Nat
    /\ Dumped \in [Records -> Nat]
    /\ \A x \in Records : Dumped[x] = x \/ Dumped[x] \notin Records
    /\ Directed \subseteq Collections /\ Pinned \subseteq Collections
    /\ Pool \subseteq RelationRows /\ IsFiniteSet(Pool)
    /\ Traversals \subseteq Query
    /\ RelationBound \in Nat /\ DepthBound \in Nat
    /\ PageSize \in Nat \ {0} /\ MaxPaths \in Nat
    /\ PageSize <= MaxPaths

VARIABLES
    rows,       \* the relation rows, as the statement finds them
    traversal,
    registry,   \* the Relation Collections registered by now
    phase,
    closure,    \* the Relation Collections the traversal was resolved to
    resolved,   \* the registry it was resolved against
    requested,  \* the registry of the request that carries it
    walk,       \* the rows of the recursive table
    working,    \* those of the last iteration
    level,      \* iterations so far
    answer      \* the rows of the page

request == <<rows, traversal, registry, closure, resolved, requested>>
statement == <<walk, working, level, answer>>
traversalVars == <<request, phase, statement>>

-----------------------------------------------------------------------------
(* Edges and walks                                                         *)

Edge == [row : RelationRows, from : Records, to : Records]

Forward(r) == [row |-> r, from |-> r.source, to |-> r.target]
Reverse(r) == [row |-> r, from |-> r.target, to |-> r.source]

\* The edges CTE over the given Relation Collections.
EdgesOf(relations) ==
    LET selected == {r \in rows : r.relation \in relations}
        Walked(direction) == {r \in selected : \/ traversal.direction \in {direction, "any"}
                                               \/ r.relation \notin Directed}
    IN  {Forward(r) : r \in Walked("outbound")} \cup {Reverse(r) : r \in Walked("inbound")}

Edges == EdgesOf(closure)

Origin == Dumped[traversal.start]

\* The record a walk has reached, and all of its path.
End(w) == IF w = <<>> THEN Origin ELSE w[Len(w)].to
Path(w) == {Origin} \cup {w[i].to : i \in 1 .. Len(w)}

\* Mutant: only the record the walk is at is known as visited.
NewToEnd(w, x) == x # End(w)

\* NOT target = ANY(path)
New(w, x) == x \notin Path(w)

\* The recursive term: the walks of the working table, one edge longer.
Extensions(S) ==
    UNION {{Append(w, e) : e \in {x \in Edges : x.from = End(w) /\ New(w, x.to)}} :
               w \in {v \in S : Len(v) < traversal.max}}

-----------------------------------------------------------------------------

TraversalTypeOK ==
    /\ rows \subseteq Pool
    /\ traversal \in Traversals
    /\ registry \subseteq Collections
    /\ phase \in {"asked", "resolved", "walking", "answered", "refused"}
    /\ closure \subseteq Collections
    /\ resolved \subseteq Collections /\ requested \subseteq Collections
    /\ walk \subseteq Seq(Edge)
    /\ working \subseteq walk
    /\ level \in Nat
    /\ answer \subseteq walk
    /\ Cardinality(answer) <= PageSize

TraversalInit ==
    /\ rows \in SUBSET Pool
    /\ traversal \in Traversals
    /\ registry \in SUBSET Collections
    /\ phase = "asked"
    /\ closure = {} /\ resolved = {} /\ requested = {}
    /\ walk = {} /\ working = {} /\ level = 0
    /\ answer = {}

\* The host registers another Relation Collection.
Register(c) ==
    /\ c \notin registry
    /\ registry' = registry \cup {c}
    /\ UNCHANGED <<rows, traversal, closure, resolved, requested, phase, statement>>

\* The caller names the Relation Collections, or takes all there are and the
\* registry's fingerprint with them.
Resolve ==
    /\ phase = "asked"
    /\ closure' = IF traversal.all THEN registry ELSE traversal.relations
    /\ resolved' = registry
    /\ phase' = "resolved"
    /\ UNCHANGED <<rows, traversal, registry, requested, statement>>

\* Mutant: the closure's fingerprint is not compared.
RefusedUnlessStale ==
    \/ closure = {}
    \/ Cardinality(closure) > RelationBound
    \/ traversal.max > DepthBound
    \/ ~(closure \subseteq Pinned)

\* The errors of translation, under the registry fingerprint of the request.
Refused ==
    \/ closure = {}
    \/ traversal.all /\ resolved # registry
    \/ Cardinality(closure) > RelationBound
    \/ traversal.max > DepthBound
    \/ ~(closure \subseteq Pinned)

Refuse ==
    /\ phase = "resolved"
    /\ Refused
    /\ requested' = registry
    /\ phase' = "refused"
    /\ UNCHANGED <<rows, traversal, registry, closure, resolved, statement>>

\* The statement is translated, and starts with the row of depth 0.
Start ==
    /\ phase = "resolved"
    /\ ~Refused
    /\ requested' = registry
    /\ phase' = "walking"
    /\ walk' = {<<>>} /\ working' = {<<>>} /\ level' = 0
    /\ UNCHANGED <<rows, traversal, registry, closure, resolved, answer>>

\* UNION ALL of the recursive term on the working table.
Iterate ==
    /\ phase = "walking"
    /\ working # {}
    /\ walk' = walk \cup Extensions(working)
    /\ working' = Extensions(working)
    /\ level' = level + 1
    /\ UNCHANGED <<request, phase, answer>>

Candidates == {w \in walk : traversal.min <= Len(w) /\ Len(w) <= traversal.max}

\* ORDER BY depth, collection_ref, record_id
RowBefore(w, v) == Len(w) < Len(v) \/ (Len(w) = Len(v) /\ End(w) < End(v))

Least(a, b) == IF a < b THEN a ELSE b

\* Mutant: the row that tells of more rows is returned as well.
FetchedRows == Least(PageSize, MaxPaths) + 1

\* LIMIT ... + 1, of which normalize_result keeps a page and signs no cursor.
PageRows == Least(PageSize, Least(PageSize, MaxPaths) + 1)

Answer ==
    /\ phase = "walking"
    /\ working = {}
    /\ answer' \in SUBSET Candidates
    /\ Cardinality(answer') = Least(PageRows, Cardinality(Candidates))
    /\ \A w \in answer', v \in Candidates \ answer' : ~RowBefore(v, w)
    /\ phase' = "answered"
    /\ UNCHANGED <<request, walk, working, level>>

TraversalNext ==
    \/ \E c \in Collections : Register(c)
    \/ Resolve \/ Refuse \/ Start \/ Iterate \/ Answer

TraversalSpec == TraversalInit /\ [][TraversalNext]_traversalVars

-----------------------------------------------------------------------------
(* Properties                                                              *)

\* A walk by the definition of one: edges that join, from the start, and no record
\* twice.
IsPath(w) ==
    /\ w # <<>> => w[1].from = Origin
    /\ \A i \in 2 .. Len(w) : w[i].from = w[i - 1].to
    /\ \A i \in 1 .. Len(w) : w[i].to # Origin
    /\ \A i \in 1 .. Len(w) : \A j \in 1 .. i - 1 : w[i].to # w[j].to

SequencesUpTo(n) == UNION {[1 .. k -> Edges] : k \in 0 .. n}

\* The recursion ends with all paths of at most maxDepth edges and no others, each
\* once, however the relations run in circles.
WalkIsExact ==
    phase = "answered" => walk = {w \in SequencesUpTo(traversal.max) : IsPath(w)}

\* The records within n edges of the start, over the Relation Collections of the
\* request.
Reach ==
    LET edges == EdgesOf(IF traversal.all THEN requested ELSE traversal.relations)
        within[n \in 0 .. traversal.max] ==
            IF n = 0 THEN {traversal.start}
            ELSE within[n - 1] \cup {e.to : e \in {f \in edges : f.from \in within[n - 1]}}
    IN  within

\* "bounded recursive relation traversal over the Registry-resolved Relation
\* Collection set": a record whose distance is within the query's depths is
\* answered at that distance, unless the page is full of records no farther: a
\* page that is not full omits nothing, although no cursor says so.  (For a start
\* whose id json.dumps writes as jsonb does.)
NearestIsFound ==
    phase = "answered" /\ Dumped[traversal.start] = traversal.start =>
        \A n \in traversal.min .. traversal.max : n > 0 =>
            \A x \in Reach[n] \ Reach[n - 1] :
                \/ \E w \in answer : Len(w) = n /\ End(w) = x
                \/ /\ Cardinality(answer) = PageSize
                   /\ \A w \in answer : Len(w) <= n
=============================================================================
