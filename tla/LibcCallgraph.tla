---------------------------- MODULE LibcCallgraph ---------------------------
(***************************************************************************)
(* struct LibcCallgraph: a directed graph of named vertices with labelled  *)
(* edges, kept in graaf::directed_graph, which holds at most one edge from *)
(* one vertex to another and ignores a second one.  vertex_id_map is a     *)
(* bijection between the names and the ids of graaf, so vertices are       *)
(* identified by their names here; func_call_map only colours the dot file.*)
(***************************************************************************)
EXTENDS Integers, Sequences, FiniteSets

CONSTANT Buckets    \* the numbers of buckets of a hash table, as it grows

\* An edge is labelled with a call or is plain control flow.
Control == [kind |-> "control", name |-> "control"]

NoGraph == [vertices |-> {}, edges |-> <<>>]

\* graaf's add_edge: the edge that is already there stays.
Emplace(edges, e, label) ==
    [d \in DOMAIN edges \cup {e} |-> IF d \in DOMAIN edges THEN edges[d] ELSE label]

\* An edge between vertices that do not both exist is silently left out.
add_edge(g, lhs, rhs, label) ==
    IF {lhs, rhs} \subseteq g.vertices
    THEN [g EXCEPT !.edges = Emplace(@, <<lhs, rhs>>, label)]
    ELSE g

\* Mutant: the vertex stays.
remove_vertex_not(g, v) == g

\* Mutant: the edges at the vertex stay.
remove_vertex_keeps_edges(g, v) == [g EXCEPT !.vertices = @ \ {v}]

\* graaf removes the edges at the vertex with it.
remove_vertex(g, v) ==
    [vertices |-> g.vertices \ {v},
     edges    |-> [e \in {e \in DOMAIN g.edges : v \notin {e[1], e[2]}} |-> g.edges[e]]]

\* The edge of g that combine_vertex turns into edge e, if e is not in g: an
\* edge of rhs with lhs in its place.
Moved(lhs, rhs, e) ==
    CASE e[1] = lhs /\ e[2] = lhs -> <<rhs, lhs>>
      [] e[1] = lhs /\ e[2] # lhs -> <<rhs, e[2]>>
      [] OTHER                    -> <<e[1], rhs>>

\* Mutant: the edges that lead to rhs are forgotten.
Gained_outgoing(D, V, lhs, rhs) == {e \in {lhs} \X V : Moved(lhs, rhs, e) \in D}

\* The edges that lhs gets, where D are the edges there are.
Gained(D, V, lhs, rhs) == {e \in ({lhs} \X V) \cup (V \X {lhs}) : Moved(lhs, rhs, e) \in D}

\* The loop of combine_vertex adds to the edge table while it iterates over it: a
\* self loop of rhs first becomes an edge from rhs to lhs, which the loop itself
\* reaches or not (late); only then does the self loop get to lhs.
InLoop(g, lhs, rhs, late) ==
    IF late /\ <<rhs, rhs>> \in DOMAIN g.edges
    THEN Emplace(g.edges, <<rhs, lhs>>, g.edges[<<rhs, rhs>>])
    ELSE g.edges

\* A table of this many edges gets new buckets when it holds that many, unless it
\* had them already.
Rehashed(before, after) ==
    \E b \in Buckets : Cardinality(before) <= b /\ b < Cardinality(after)

\* The sets of edges that may be passed over: none, or, when the table gets new
\* buckets under the iterator, edges of rhs it had not come to.
Missable(g, lhs, rhs, late) ==
    LET E   == DOMAIN InLoop(g, lhs, rhs, late)
        new == Gained(E, g.vertices, lhs, rhs) \ E
    IN  {M \in SUBSET new :
            M # {} => Rehashed(DOMAIN g.edges, DOMAIN InLoop(g, lhs, rhs, TRUE) \cup (new \ M))}

\* combine_vertex: the edges of rhs, but for those missed, are given to lhs, then
\* rhs is removed.
combine_vertex(g, lhs, rhs, late, missed) ==
    LET E == InLoop(g, lhs, rhs, late)
        D == DOMAIN E \cup (Gained(DOMAIN E, g.vertices, lhs, rhs) \ missed)
    IN  IF {lhs, rhs} \subseteq g.vertices
        THEN remove_vertex([g EXCEPT !.edges = [e \in D |->
                               IF e \in DOMAIN E THEN E[e] ELSE E[Moved(lhs, rhs, e)]]], rhs)
        ELSE g

get_neighbors(g, v) == {w \in g.vertices : <<v, w>> \in DOMAIN g.edges}

\* Mutant: the kind of the edge is not looked at.
NeighborsBy_any(g, v, kind) == get_neighbors(g, v)

\* get_control_edge_neighbors and get_user_edge_neighbors.
NeighborsBy(g, v, kind) ==
    {w \in get_neighbors(g, v) : g.edges[<<v, w>>].kind = kind}

\* Mutant: the edges of a graph that was inserted are forgotten.
insert_graph_vertices_only(g, other) == [g EXCEPT !.vertices = @ \cup other.vertices]

insert_graph(g, other) ==
    [vertices |-> g.vertices \cup other.vertices,
     edges    |-> [e \in DOMAIN g.edges \cup DOMAIN other.edges |->
                      IF e \in DOMAIN g.edges THEN g.edges[e] ELSE other.edges[e]]]

=============================================================================
