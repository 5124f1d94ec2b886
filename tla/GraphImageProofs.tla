-------------------------- MODULE GraphImageProofs --------------------------
(***************************************************************************)
(* GenerateInMemoryGraph for final graphs, arrays, chunks and pools of     *)
(* every size that ImageAssumption allows.  The library is UserGraph, and  *)
(* its inductive invariant is part of the one used here.                   *)
(***************************************************************************)
EXTENDS GraphImage, UserGraphProofs

\* What the sizes are.
LEMMA Sizes ==
    ASSUME Input(input)
    PROVE  /\ Count \in Nat /\ MAX_NEIGHBORS \in Nat /\ MAX_NEIGHBORS > 0
           /\ PoolCells \in Nat /\ Chunk \in Nat /\ Chunk > 1 /\ MODULUS \in Nat /\ MODULUS <= Chunk
           /\ \A n \in 1..Count : Vertex(n) \in input.graph.vertices
           /\ \A v \in input.graph.vertices : input.hash[v] \in 0..(MODULUS - 1)
  <1>1. /\ MAX_NEIGHBORS \in Nat /\ MAX_NEIGHBORS > 0 /\ PoolCells \in Nat
        /\ Chunk \in Nat /\ Chunk > 1 /\ MODULUS \in Nat /\ MODULUS <= Chunk
    BY ImageAssumption, ClientAssumption, PoolAssumption
  <1>2. input.vertices \in Seq(input.graph.vertices)
    BY DEF Input
  <1>3. Count \in Nat /\ \A n \in 1..Count : Vertex(n) \in input.graph.vertices
    BY <1>2 DEF Count, Vertex
  <1>4. \A v \in input.graph.vertices : input.hash[v] \in 0..(MODULUS - 1)
    BY DEF Input
  <1> QED
    BY <1>1, <1>3, <1>4

\* The pool has room for the node of round k as long as its entries fit the arrays.
LEMMA RoomInPool ==
    ASSUME NEW c \in Nat, NEW k \in Nat, 1 <= k, k <= c, k * c < MAX_NEIGHBORS,
           NEW e \in Nat, 2 * e = TwiceSize(k - 1, c)
    PROVE  /\ 2 * (e + 1 + k * c) = TwiceSize(k, c)
           /\ e + 1 + k * c <= PoolCells
  <1>1. MAX_NEIGHBORS \in Nat /\ PoolCells \in Nat /\ k * c \in Nat
    BY ImageAssumption, PoolAssumption
  <1>2. c <= k * c
    <2>1. k * c = c + (k - 1) * c /\ (k - 1) * c \in Nat
      OBVIOUS
    <2> QED
      BY <2>1
  <1>3. c \in 0..MAX_NEIGHBORS /\ k \in 0..c
    BY <1>1, <1>2
  <1>4. TwiceSize(k, c) <= 2 * PoolCells
    BY <1>3, ImageAssumption
  <1>5. 2 * (e + 1 + k * c) = TwiceSize(k, c)
    BY DEF TwiceSize
  <1>6. TwiceSize(k, c) \in Nat
    BY DEF TwiceSize
  <1> QED
    BY <1>1, <1>4, <1>5, <1>6

\* alloc_node has a listing of at least one chunk to write to.
LEMMA GrownListingChunk ==
    ASSUME IndInv, pool # NULL, nodes # NoListing => nodes.cap >= Chunk
    PROVE  GrownListing.cap >= Chunk
  <1>1. Chunk \in Nat /\ num_nodes_listings \in Nat
    BY ClientAssumption DEF IndInv, TypeOK, ListingType
  <1> QED
    BY <1>1 DEF GrownListing, NewListing, Resize

\* The pass starts with empty arrays and no graph.
LEMMA GenerationStarts ==
    ASSUME ImageInit
    PROVE  GenerationInv
  <1>1. IndInv
    BY InitInd DEF ImageInit
  <1>2. LocalsType
    BY ImageAssumption DEF ImageInit, LocalsType
  <1> QED
    BY <1>1, <1>2 DEF ImageInit, Init, GenerationInv, LoopsInv, EmbeddedVerifies

\* initialize_graph(NULL, 0): an empty pool, and the first round.
LEMMA GenerationGenerate ==
    ASSUME GenerationInv, generate
    PROVE  GenerationInv'
  <1> USE DEF generate, locals
  <1>1. IndInv' /\ pc' = "idle"
    BY InitializeEmptyInd DEF GenerationInv, initialize_empty
  <1>2. LocalsType'
    BY DEF GenerationInv, LocalsType, NextVertex
  <1>3. /\ pool' = EmptyPool /\ pool_edge' = 0 /\ nodes' = NoListing /\ origin' = "built"
        /\ at_vertex' = 1 /\ at_inner' = 1 /\ numOutEdges' = 0 /\ input' = input
    BY DEF GenerationInv, LoopsInv, initialize_empty
  <1>4. pool' # NULL /\ pool'.num_nodes = 0
    BY <1>3, WellFormedEmpty, PoolAssumption DEF EmptyPool
  <1>5. Count \in Nat /\ MAX_NEIGHBORS > 0 /\ Count' = Count
    BY <1>3, Sizes DEF GenerationInv, LocalsType, Count
  <1>6. LoopsInv'
    <2>1. TwiceSize(0, Count) = 0
      BY <1>5 DEF TwiceSize
    <2>2. 0 * Count = 0
      BY <1>5
    <2>3. step' = IF 1 <= Count THEN "gather" ELSE "finalize"
      BY DEF NextVertex
    <2> QED
      BY <1>3, <1>4, <1>5, <2>1, <2>2, <2>3 DEF LoopsInv
  <1>7. EmbeddedVerifies'
    BY <1>5 DEF GenerationInv, EmbeddedVerifies
  <1> QED
    BY <1>1, <1>2, <1>3, <1>6, <1>7 DEF GenerationInv

\* One turn of the inner loop fills one entry of the arrays.
LEMMA GenerationGather ==
    ASSUME GenerationInv, gather
    PROVE  GenerationInv'
  <1>1. /\ UNCHANGED vars /\ UNCHANGED <<input, at_vertex, image>>
        /\ step = "gather" /\ at_inner <= Count
        /\ numOutEdges' = numOutEdges + 1 /\ at_inner' = at_inner + 1
        /\ step' = IF RoomLeft(numOutEdges') THEN "gather" ELSE "aborted"
    BY DEF gather, library
  <1>2. IndInv'
    BY <1>1, StutterInd DEF GenerationInv
  <1>3. UNCHANGED <<pool, pool_edge, nodes, origin, pc>>
    BY <1>1 DEF vars, statics, history
  <1>4. /\ Input(input) /\ at_vertex \in Nat \ {0} /\ at_inner \in Nat \ {0} /\ numOutEdges \in Nat
        /\ edgeList \in [0..(MAX_NEIGHBORS - 1) -> Nat]
        /\ neighborList \in [0..(MAX_NEIGHBORS - 1) -> Nat]
    BY DEF GenerationInv, LocalsType
  <1>5. /\ Count \in Nat /\ MAX_NEIGHBORS \in Nat /\ Count' = Count
    BY <1>1, <1>4, Sizes DEF Count
  <1> DEFINE v == Vertex(at_inner)
             w == input.last[v]
  <1>6. v \in input.graph.vertices
    BY <1>1, <1>4, <1>5, Sizes
  <1>7. ASSUME get_neighbors(input.graph, v) # {}
        PROVE  LibcId(input.graph.edges[<<v, w>>]) \in Nat /\ input.hash[w] \in Nat
    <2>1. w \in get_neighbors(input.graph, v)
      BY <1>4, <1>6, <1>7 DEF Input
    <2>2. w \in input.graph.vertices /\ <<v, w>> \in DOMAIN input.graph.edges
      BY <2>1 DEF get_neighbors
    <2>3. input.hash[w] \in 0..(MODULUS - 1) /\ MODULUS \in Nat
      BY <1>4, <2>2, Sizes
    <2>4. \A e \in DOMAIN input.graph.edges : LibcId(input.graph.edges[e]) \in Nat
      BY <1>4 DEF Input
    <2> HIDE DEF v, w
    <2> QED
      BY <2>2, <2>3, <2>4
  <1>8. edgeList' \in [0..(MAX_NEIGHBORS - 1) -> Nat] /\ neighborList' \in [0..(MAX_NEIGHBORS - 1) -> Nat]
    <2>1. CASE get_neighbors(input.graph, v) = {}
      BY <1>4, <2>1 DEF gather
    <2>2. CASE get_neighbors(input.graph, v) # {}
      <3>1. /\ edgeList' = [edgeList EXCEPT ![numOutEdges] = LibcId(input.graph.edges[<<v, w>>])]
            /\ neighborList' = [neighborList EXCEPT ![numOutEdges] = input.hash[w]]
        BY <2>2 DEF gather
      <3> HIDE DEF v, w
      <3> QED
        BY <1>4, <1>7, <2>2, <3>1
    <2> QED
      BY <2>1, <2>2
  <1>9. LocalsType'
    BY <1>1, <1>4, <1>8 DEF LocalsType
  <1>10. LoopsInv'
    <2>1. /\ at_vertex <= Count /\ numOutEdges = (at_vertex - 1) * Count + at_inner - 1
          /\ 2 * pool_edge = TwiceSize(at_vertex - 1, Count)
          /\ pool # NULL /\ origin = "built" /\ pool.num_nodes = at_vertex - 1
      BY <1>1 DEF GenerationInv, LoopsInv
    <2>2. (at_vertex - 1) * Count \in Nat
      BY <1>4, <1>5
    <2>3. numOutEdges' = (at_vertex - 1) * Count + at_inner' - 1 /\ at_inner' <= Count + 1
      BY <1>1, <1>4, <1>5, <2>1, <2>2
    <2> QED
      BY <1>1, <1>3, <1>5, <2>1, <2>3 DEF LoopsInv, RoomLeft
  <1>11. EmbeddedVerifies'
    BY <1>1, <1>5 DEF GenerationInv, EmbeddedVerifies
  <1> QED
    BY <1>2, <1>3, <1>9, <1>10, <1>11 DEF GenerationInv

\* What is handed to alloc_node at the end of a round.
LEMMA OutEdgesType ==
    ASSUME LocalsType, numOutEdges < MAX_NEIGHBORS
    PROVE  OutEdges \in Seq(Edge(Nat, Nat)) /\ Len(OutEdges) = numOutEdges
  <1>1. MAX_NEIGHBORS \in Nat /\ numOutEdges \in Nat
    BY ImageAssumption DEF LocalsType
  <1>2. ASSUME NEW j \in 1..numOutEdges
        PROVE  neighborList[j - 1] \in Nat /\ edgeList[j - 1] \in Nat
    <2>1. j - 1 \in 0..(MAX_NEIGHBORS - 1)
      BY <1>1
    <2> QED
      BY <2>1 DEF LocalsType
  <1>3. OutEdges = [j \in 1..numOutEdges |-> OutEdges[j]]
        /\ \A j \in 1..numOutEdges : OutEdges[j] \in Edge(Nat, Nat)
    BY <1>2 DEF OutEdges, Edge
  <1> HIDE DEF OutEdges
  <1> QED
    BY <1>1, <1>3

\* The end of a round writes one node, inside the pool and inside the listing.
LEMMA GenerationEmit ==
    ASSUME GenerationInv, emit
    PROVE  GenerationInv'
  <1> DEFINE id == input.hash[Vertex(at_vertex)]
             end == pool_edge + 1 + at_vertex * Count
  <1>1. /\ step = "gather" /\ at_inner > Count /\ alloc_node(id, OutEdges)
        /\ at_vertex' = at_vertex + 1 /\ at_inner' = 1 /\ NextVertex(at_vertex')
        /\ UNCHANGED <<input, numOutEdges, edgeList, neighborList, image>>
    BY DEF emit
  <1>2. /\ Input(input) /\ at_vertex \in Nat \ {0} /\ at_inner \in Nat \ {0} /\ numOutEdges \in Nat
        /\ LocalsType
    BY DEF GenerationInv, LocalsType
  <1>3. /\ Count \in Nat /\ Count' = Count /\ MODULUS \in Nat /\ MODULUS <= Chunk /\ Chunk \in Nat
        /\ MAX_NEIGHBORS \in Nat /\ PoolCells \in Nat
    BY <1>1, <1>2, Sizes DEF Count
  <1>4. /\ at_vertex <= Count /\ at_inner <= Count + 1
        /\ numOutEdges = (at_vertex - 1) * Count + at_inner - 1
        /\ numOutEdges < MAX_NEIGHBORS /\ 2 * pool_edge = TwiceSize(at_vertex - 1, Count)
        /\ pool # NULL /\ origin = "built" /\ pool.num_nodes = at_vertex - 1
    BY <1>1 DEF GenerationInv, LoopsInv
  <1>5. numOutEdges = at_vertex * Count
    <2>1. at_inner = Count + 1
      BY <1>1, <1>2, <1>3, <1>4
    <2>2. (at_vertex - 1) * Count + Count = at_vertex * Count
      BY <1>2, <1>3
    <2>3. (at_vertex - 1) * Count \in Nat
      BY <1>2, <1>3
    <2> QED
      BY <1>3, <1>4, <2>1, <2>2, <2>3
  <1>6. OutEdges \in Seq(Edge(Nat, Nat)) /\ Len(OutEdges) = at_vertex * Count
    BY <1>2, <1>4, <1>5, OutEdgesType
  <1>7. id \in Nat /\ id < MODULUS
    <2>1. Vertex(at_vertex) \in input.graph.vertices
      BY <1>2, <1>3, <1>4, Sizes
    <2>2. id \in 0..(MODULUS - 1)
      BY <1>2, <2>1, Sizes
    <2> HIDE DEF id
    <2> QED
      BY <1>3, <2>2
  <1>8. pool_edge \in Nat /\ pool \in Pool
    BY <1>3, <1>4 DEF GenerationInv, IndInv, TypeOK, PoolType
  <1>9. 2 * end = TwiceSize(at_vertex, Count) /\ end <= PoolCells /\ end \in Nat
    BY <1>2, <1>3, <1>4, <1>5, <1>8, RoomInPool
  <1> HIDE DEF id, end
  <1>10. IndInv'
    BY <1>1, <1>6, <1>7, AllocInd DEF GenerationInv
  <1>11. GrownListing.cap >= Chunk /\ GrownListing.cap \in Nat
    BY <1>4, GrownListingChunk, GrownListingRoom DEF GenerationInv
  <1>12. NodeEnd(pool_edge, OutEdges) = end /\ ~(end > PoolCells) /\ ~(id >= GrownListing.cap)
    BY <1>3, <1>6, <1>7, <1>9, <1>11 DEF NodeEnd, end
  <1>13. /\ nodes' = SetSlot(GrownListing, id, pool_edge) /\ pool_edge' = end
         /\ pool' = [pool EXCEPT !.num_nodes = pool.num_nodes + 1,
                       !.cells = WriteNode(pool.cells, pool_edge, id, OutEdges)]
         /\ origin' = "built" /\ pc' = pc
    BY <1>1, <1>4, <1>12 DEF alloc_node
  <1>14. pool'.num_nodes = at_vertex' - 1 /\ pool' # NULL
    <2>1. pool'.num_nodes = pool.num_nodes + 1
      BY <1>8, <1>13 DEF Pool
    <2>2. nodes' # NoListing
      BY <1>11, <1>13 DEF SetSlot, NoListing
    <2>3. pool' # NULL
      BY <1>10, <2>2 DEF IndInv, StatusInv
    <2> QED
      BY <1>1, <1>2, <1>4, <2>1, <2>3
  <1>15. nodes'.cap >= Chunk
    BY <1>11, <1>13 DEF SetSlot
  <1>16. step' = IF at_vertex' <= Count THEN "gather" ELSE "finalize"
    BY <1>1 DEF NextVertex
  <1>17. LocalsType'
    BY <1>1, <1>2, <1>16 DEF LocalsType
  <1>18. LoopsInv'
    <2>1. at_vertex' - 1 = at_vertex /\ at_vertex' \in Nat /\ (~(at_vertex' <= Count) => at_vertex' = Count + 1)
      BY <1>1, <1>2, <1>3, <1>4
    <2>2. numOutEdges' = (at_vertex' - 1) * Count + at_inner' - 1 /\ numOutEdges' < MAX_NEIGHBORS
      <3>1. at_vertex * Count \in Nat
        BY <1>2, <1>3
      <3> QED
        BY <1>1, <1>4, <1>5, <2>1, <3>1
    <2>3. 2 * pool_edge' = TwiceSize(at_vertex' - 1, Count)
      BY <1>9, <1>13, <2>1
    <2>4. at_inner' <= Count + 1
      BY <1>1, <1>3
    <2> QED
      BY <1>3, <1>13, <1>14, <1>16, <2>1, <2>2, <2>3, <2>4 DEF LoopsInv
  <1>19. EmbeddedVerifies'
    BY <1>1, <1>3 DEF GenerationInv, EmbeddedVerifies
  <1>20. pc' = "idle"
    BY <1>13 DEF GenerationInv
  <1> QED
    BY <1>10, <1>15, <1>17, <1>18, <1>19, <1>20 DEF GenerationInv

\* finalize_graph after the last round.
LEMMA GenerationFinalize ==
    ASSUME GenerationInv, finalize
    PROVE  GenerationInv'
  <1>1. /\ step = "finalize" /\ finalize_graph /\ step' = "embed"
        /\ UNCHANGED <<input, at_vertex, at_inner, numOutEdges, edgeList, neighborList, image>>
    BY DEF finalize, locals
  <1>2. IndInv'
    BY <1>1, FinalizeInd DEF GenerationInv
  <1>3. /\ pool' = [pool EXCEPT !.graph_finalized = 1] /\ UNCHANGED <<nodes, pc, origin>>
    BY <1>1 DEF finalize_graph, history
  <1>4. pool # NULL /\ pool \in Pool /\ origin = "built" /\ pool.num_nodes = at_vertex - 1 /\ at_vertex = Count + 1
    BY <1>1 DEF GenerationInv, LoopsInv, IndInv, TypeOK, PoolType
  <1>5. pool' \in Pool /\ pool' # NULL /\ pool'.graph_finalized = 1 /\ pool'.num_nodes = pool.num_nodes
    <2>1. pool' \in Pool /\ pool'.graph_finalized = 1 /\ pool'.num_nodes = pool.num_nodes
      BY <1>3, <1>4 DEF Pool
    <2> QED
      BY <2>1, PoolAssumption
  <1>6. LocalsType' /\ Count' = Count
    BY <1>1 DEF GenerationInv, LocalsType, Count
  <1>7. LoopsInv'
    BY <1>1, <1>3, <1>4, <1>5, <1>6 DEF LoopsInv
  <1>8. EmbeddedVerifies'
    BY <1>1, <1>6 DEF GenerationInv, EmbeddedVerifies
  <1> QED
    BY <1>2, <1>3, <1>6, <1>7, <1>8 DEF GenerationInv

\* The pool that is copied is a finalized graph with a node per vertex.
LEMMA GenerationEmbed ==
    ASSUME GenerationInv, embed
    PROVE  GenerationInv'
  <1>1. /\ step = "embed" /\ destroy_graph /\ step' = "done"
        /\ image' = [pool |-> pool, table |-> table]
        /\ UNCHANGED <<input, at_vertex, at_inner, numOutEdges, edgeList, neighborList>>
    BY DEF embed, locals
  <1>2. IndInv'
    BY <1>1, DestroyInd DEF GenerationInv
  <1>3. nodes' = NoListing /\ pc' = pc
    BY <1>1 DEF destroy_graph
  <1>4. /\ pool # NULL /\ origin = "built" /\ pool.num_nodes = at_vertex - 1 /\ at_vertex = Count + 1
        /\ pool.graph_finalized = 1
    BY <1>1 DEF GenerationInv, LoopsInv
  <1>5. pool.magic = "graph" /\ WellFormed(pool, table)
    BY <1>4 DEF GenerationInv, IndInv, StatusInv, TableWellFormed
  <1>6. LocalsType' /\ LoopsInv' /\ Count' = Count
    BY <1>1 DEF GenerationInv, LocalsType, LoopsInv, Count
  <1>7. Count \in Nat
    BY Sizes DEF GenerationInv, LocalsType
  <1>8. pool.num_nodes = Count
    BY <1>4, <1>7
  <1>9. HeaderVerdict(pool) = 1
    BY <1>4, <1>5 DEF HeaderVerdict
  <1>10. EmbeddedVerifies'
    BY <1>1, <1>5, <1>6, <1>8, <1>9 DEF EmbeddedVerifies
  <1> QED
    BY <1>2, <1>3, <1>6, <1>10 DEF GenerationInv

\* The whole generation keeps GenerationInv.
LEMMA GenerationStep ==
    ASSUME GenerationInv, [ImageNext]_ivars
    PROVE  GenerationInv'
  <1>1. CASE UNCHANGED ivars
    <2>1. UNCHANGED vars /\ UNCHANGED <<input, at_vertex, at_inner, numOutEdges, edgeList, neighborList, image, step>>
      BY <1>1 DEF ivars, library, locals
    <2>2. IndInv'
      BY <2>1, StutterInd DEF GenerationInv
    <2>3. UNCHANGED <<pool, pool_edge, nodes, origin, pc>>
      BY <2>1 DEF vars, statics, history
    <2> QED
      BY <2>1, <2>2, <2>3 DEF GenerationInv, LocalsType, LoopsInv, EmbeddedVerifies, Count
  <1>2. CASE ImageNext
    BY <1>2, GenerationGenerate, GenerationGather, GenerationEmit, GenerationFinalize,
       GenerationEmbed DEF ImageNext
  <1> QED
    BY <1>1, <1>2

\* GenerationInv holds throughout GenerateInMemoryGraph.
THEOREM GenerationInductive == ImageSpec => []GenerationInv
  <1>1. ImageInit => GenerationInv
    BY GenerationStarts
  <1>2. GenerationInv /\ [ImageNext]_ivars => GenerationInv'
    BY GenerationStep
  <1> QED
    BY <1>1, <1>2, PTL DEF ImageSpec

\* Whatever the final graph, GenerateInMemoryGraph overruns neither its arrays nor
\* the pool nor the listing: the assert on numOutEdges stops it before.
THEOREM ImageSafe == ImageSpec => []ImageInBounds
  <1>1. GenerationInv => ImageInBounds
    BY DEF GenerationInv, LoopsInv, ImageInBounds
  <1> QED
    BY <1>1, GenerationInductive, PTL

\* Whatever the final graph, what is embedded in the program is a graph that
\* verify_graph accepts, with one node per vertex.
THEOREM EmbeddedCorrect == ImageSpec => []EmbeddedVerifies
  <1>1. GenerationInv => EmbeddedVerifies
    BY DEF GenerationInv
  <1> QED
    BY <1>1, GenerationInductive, PTL

=============================================================================
