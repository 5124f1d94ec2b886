----------------------------- MODULE GraphImage -----------------------------
(***************************************************************************)
(* GenerateInMemoryGraph: the final graph of the pass is written, vertex   *)
(* by vertex, with the calls of memgraphlib, and the pool is copied into a *)
(* data section of the program.  The library is UserGraph itself: its      *)
(* actions are steps of this module.                                       *)
(*                                                                         *)
(* numOutEdges is not reset between vertices, so the local arrays grow by  *)
(* an entry per vertex in every round; only the assert limits them.        *)
(***************************************************************************)
EXTENDS UserGraph, LibcCallgraph

CONSTANTS MAX_NEIGHBORS, MODULUS,
          NotFound,   \* -1, the value of a name that is not in the map, as unsigned
          Junk,       \* what an array entry that was never written may hold
          Inputs      \* the graphs, orders and hashes the pass may meet

\* The id of the call an edge is labelled with: intrinsics and other declarations
\* are not in the listing.
LibcId(label) == IF label.kind = "libc" THEN label.name ELSE NotFound

\* graph: the final graph; vertices: the order in which its hash table lists
\* them; hash: the hash of each name modulo MODULUS; last: for a vertex with
\* neighbours, the one its hash table lists last.
Input(in) ==
    /\ in.vertices \in Seq(in.graph.vertices)
    /\ \A v \in in.graph.vertices : \E n \in 1..Len(in.vertices) : in.vertices[n] = v
    /\ in.hash \in [in.graph.vertices -> 0..(MODULUS - 1)]
    /\ \A e \in DOMAIN in.graph.edges : LibcId(in.graph.edges[e]) \in Nat
    /\ \A v \in in.graph.vertices :
          get_neighbors(in.graph, v) # {} => in.last[v] \in get_neighbors(in.graph, v)

\* Twice what the first r of n nodes take in the pool: node k has k * n edges.
TwiceSize(r, n) == 2 * r + n * r * (r + 1)

\* The sizes in the code: a chunk of 4096 for ids below 1000; fewer than 1000
\* edges, so that the nodes written take at most 16031 of the pool's 43687 cells.
ASSUME ImageAssumption ==
    /\ MAX_NEIGHBORS \in Nat \ {0} /\ MODULUS \in Nat /\ MODULUS <= Chunk
    /\ NotFound \in Nat /\ Junk \subseteq Nat
    /\ \A n \in 0..MAX_NEIGHBORS : \A r \in 0..n :
          r * n < MAX_NEIGHBORS => TwiceSize(r, n) <= 2 * PoolCells
    /\ \A in \in Inputs : Input(in)

VARIABLES input,
          at_vertex, at_inner,                  \* positions in the two loops
          numOutEdges, edgeList, neighborList,  \* locals of GenerateInMemoryGraph
          image,                                \* SanboxInitData, NULL before
          step   \* "start", "gather", "finalize", "embed", "done", "aborted"

library == vars
locals  == <<at_vertex, at_inner, numOutEdges, edgeList, neighborList>>
ivars   == <<library, input, locals, image, step>>

Vertex(n) == input.vertices[n]
Count == Len(input.vertices)

ImageInit ==
    /\ Init
    /\ input \in Inputs
    /\ at_vertex = 1 /\ at_inner = 1 /\ numOutEdges = 0
    /\ \E j \in Junk : /\ edgeList = [n \in 0..(MAX_NEIGHBORS - 1) |-> j]
                       /\ neighborList = [n \in 0..(MAX_NEIGHBORS - 1) |-> j]
    /\ image = NULL /\ step = "start"

\* Mutant: the last vertex is left out.
NextVertex_but_last(n) == step' = IF n < Count THEN "gather" ELSE "finalize"

\* The outer loop goes on with vertex n, or is over.
NextVertex(n) == step' = IF n <= Count THEN "gather" ELSE "finalize"

generate ==
    /\ step = "start"
    /\ initialize_empty
    /\ NextVertex(1)
    /\ UNCHANGED <<input, locals, image>>

\* Mutant: the assert lets numOutEdges reach the size of the arrays.
RoomLeft_one_more(n) == n <= MAX_NEIGHBORS

\* assert (numOutEdges < MAX_NEIGHBORS)
RoomLeft(n) == n < MAX_NEIGHBORS

\* One turn of the inner loop: of the edges of a vertex only the last one stays
\* in the entry, and a vertex without edges leaves in it what was there.
gather ==
    /\ step = "gather" /\ at_inner <= Count
    /\ LET v == Vertex(at_inner)
       IN  IF get_neighbors(input.graph, v) = {}
           THEN UNCHANGED <<edgeList, neighborList>>
           ELSE /\ edgeList' = [edgeList EXCEPT ![numOutEdges] =
                                  LibcId(input.graph.edges[<<v, input.last[v]>>])]
                /\ neighborList' = [neighborList EXCEPT ![numOutEdges] =
                                      input.hash[input.last[v]]]
    /\ numOutEdges' = numOutEdges + 1
    /\ at_inner' = at_inner + 1
    /\ step' = IF RoomLeft(numOutEdges') THEN "gather" ELSE "aborted"
    /\ UNCHANGED <<library, input, at_vertex, image>>

\* The edges handed to alloc_node: its parameters are the successors and the
\* calls, the arguments are edgeList and neighborList.
OutEdges == [j \in 1..numOutEdges |-> [libcallid      |-> neighborList[j - 1],
                                       next_progstate |-> edgeList[j - 1]]]

emit ==
    /\ step = "gather" /\ at_inner > Count
    /\ alloc_node(input.hash[Vertex(at_vertex)], OutEdges)
    /\ at_vertex' = at_vertex + 1 /\ at_inner' = 1
    /\ NextVertex(at_vertex')
    /\ UNCHANGED <<input, numOutEdges, edgeList, neighborList, image>>

finalize ==
    /\ step = "finalize"
    /\ finalize_graph
    /\ step' = "embed"
    /\ UNCHANGED <<input, locals, image>>

\* SectionAddressHandler copies the pool; then the graph is destroyed.
embed ==
    /\ step = "embed"
    /\ image' = [pool |-> pool, table |-> table]
    /\ destroy_graph
    /\ step' = "done"
    /\ UNCHANGED <<input, locals>>

ImageNext == generate \/ gather \/ emit \/ finalize \/ embed

ImageSpec == ImageInit /\ [][ImageNext]_ivars

-----------------------------------------------------------------------------
(* Properties. *)

\* No array is overrun: the assert on numOutEdges keeps the graph inside the
\* pool, which alloc_node does not check, and ids below MODULUS inside the listing.
ImageInBounds ==
    /\ pc \notin {"pool", "listing"}
    /\ step = "gather" => numOutEdges < MAX_NEIGHBORS

\* What is embedded is a graph that verify_graph accepts when sandbox_init
\* hands it over: finalized, one node per vertex, each with its edges after it.
EmbeddedVerifies ==
    image # NULL => /\ HeaderVerdict(image.pool) = 1
                    /\ image.pool.num_nodes = Count
                    /\ WellFormed(image.pool, image.table)

\* README.md:62 "Generates the In-memory graph, which is to be embedded in
\* executable for sand-boxing": every call that labels an edge of the final graph
\* is the call of an edge of the image, leaving the node of its vertex.
EmbeddedEdges ==
    image # NULL => \A e \in DOMAIN input.graph.edges :
        \E k \in 0..(Count - 1) : \E j \in 1..CellAt(image.pool, image.table[k]).val :
            /\ CellAt(image.pool, image.table[k]).key = input.hash[e[1]]
            /\ CellAt(image.pool, image.table[k] + j) =
                  EdgeCell([libcallid      |-> LibcId(input.graph.edges[e]),
                            next_progstate |-> input.hash[e[2]]])

-----------------------------------------------------------------------------
(* What the proofs rest on. *)

\* Where the two loops stand: every round adds Count entries to the arrays, so
\* the node of round k takes 1 + k * Count cells.
LoopsInv ==
    /\ step = "start" => pool = NULL /\ at_vertex = 1 /\ at_inner = 1 /\ numOutEdges = 0
    /\ step = "gather" => /\ at_vertex <= Count /\ at_inner <= Count + 1
                          /\ numOutEdges = (at_vertex - 1) * Count + at_inner - 1
                          /\ numOutEdges < MAX_NEIGHBORS
                          /\ 2 * pool_edge = TwiceSize(at_vertex - 1, Count)
    /\ step \in {"gather", "finalize", "embed"} =>
          pool # NULL /\ origin = "built" /\ pool.num_nodes = at_vertex - 1
    /\ step \in {"finalize", "embed"} => at_vertex = Count + 1
    /\ step = "embed" => pool.graph_finalized = 1

LocalsType ==
    /\ Input(input)
    /\ at_vertex \in Nat \ {0} /\ at_inner \in Nat \ {0} /\ numOutEdges \in Nat
    /\ edgeList \in [0..(MAX_NEIGHBORS - 1) -> Nat]
    /\ neighborList \in [0..(MAX_NEIGHBORS - 1) -> Nat]
    /\ step \in {"start", "gather", "finalize", "embed", "done", "aborted"}

\* The strengthening behind ImageInBounds and EmbeddedVerifies: the invariant of
\* the library, the loops, and a listing that never shrinks below a chunk.
GenerationInv ==
    /\ IndInv /\ pc = "idle"
    /\ LocalsType /\ LoopsInv
    /\ nodes # NoListing => nodes.cap >= Chunk
    /\ EmbeddedVerifies

=============================================================================
