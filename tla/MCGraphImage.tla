---------------------------- MODULE MCGraphImage ----------------------------
(* Instances of GraphImage for TLC. *)
EXTENDS GraphImage, FiniteSets, Functions

Libc(n) == [kind |-> "libc", name |-> n]
Other   == [kind |-> "other", name |-> 9]

\* The graph of these edges: a self loop is an intrinsic, other edges are library
\* calls, which differ among the edges of a vertex.
Labelled(V, E) == [vertices |-> V, edges |-> [e \in E |-> IF e[1] = e[2] THEN Other ELSE Libc(e[2])]]

\* Every such graph of two vertices, a graph of none, and some of three to five.
Small == {Labelled(1..2, E) : E \in SUBSET ((1..2) \X (1..2))}
Chain(n) == Labelled(1..n, {<<k, k + 1>> : k \in 1..(n - 1)} \cup {<<n, 1>>})
Fork == Labelled(1..3, {<<1, 2>>, <<1, 3>>, <<3, 3>>})
Final == Small \cup {Labelled({}, {}), Chain(3), Fork, Chain(4), Chain(5)}

Lasts(g) == {l \in [g.vertices -> g.vertices] :
               \A v \in g.vertices : \/ l[v] \in get_neighbors(g, v)
                                     \/ get_neighbors(g, v) = {} /\ l[v] = v}

\* Every order of the vertices, every hash, every choice of the last neighbour.
MCInputs == UNION {[graph : {g}, last : Lasts(g), hash : [g.vertices -> 0..(MODULUS - 1)],
                    vertices : Bijection(1..Cardinality(g.vertices), g.vertices)] : g \in Final}

\* One library call between two states; the ids are the positions of the nodes.
MCOneCall == {[graph |-> Labelled(1..2, {<<1, 2>>}), last |-> <<2, 2>>,
               hash |-> <<0, 1>>, vertices |-> <<1, 2>>]}

=============================================================================
