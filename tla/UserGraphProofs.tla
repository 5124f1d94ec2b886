--------------------------- MODULE UserGraphProofs --------------------------
(***************************************************************************)
(* TLAPS proofs about UserGraph, for pools, chunks, ids, edge lists and    *)
(* graphs of every size.                                                   *)
(***************************************************************************)
EXTENDS UserGraph, MemGraphProofs

-----------------------------------------------------------------------------
(* Graphs in the pool. *)

\* Appending a node at the end of a well-formed table keeps it well formed.
LEMMA WellFormedExtend ==
    ASSUME NEW p \in Pool, NEW q \in Pool, NEW t \in [0..p.num_nodes -> Nat],
           NEW id \in Nat, NEW edges \in Seq(Edge(Nat, Nat)),
           WellFormed(p, t),
           t[p.num_nodes] + 1 + Len(edges) <= PoolCells,
           q.num_nodes = p.num_nodes + 1,
           q.cells = WriteNode(p.cells, t[p.num_nodes], id, edges)
    PROVE  WellFormed(q, [k \in 0..(p.num_nodes + 1) |->
                             IF k <= p.num_nodes THEN t[k]
                             ELSE t[p.num_nodes] + 1 + Len(edges)])
  <1> DEFINE n   == p.num_nodes
             end == t[n] + 1 + Len(edges)
             u   == [k \in 0..(n + 1) |-> IF k <= n THEN t[k] ELSE end]
  <1>1. n \in Nat /\ Len(edges) \in Nat /\ t[n] \in Nat /\ end \in Nat
    BY DEF Pool
  <1>2. /\ DOMAIN u = 0..(n + 1) /\ u[n + 1] = end
        /\ \A k \in 0..n : u[k] = t[k] /\ t[k] \in Nat
    <2> HIDE DEF end
    <2>1. ASSUME NEW k \in 0..n
          PROVE  u[k] = t[k] /\ t[k] \in Nat
      BY <1>1
    <2>2. u[n + 1] = end
      BY <1>1
    <2> QED
      BY <2>1, <2>2
  <1>3. /\ NodeOK(q, t[n]) /\ EdgesOK(q, t[n]) /\ NextNode(q, t[n]) = end
        /\ \A b \in Nat : b < t[n] => CellAt(q, b) = CellAt(p, b)
    BY <1>1, WriteNodeEffect
  <1>4. ASSUME NEW k \in 0..(n - 1)
        PROVE  /\ NodeOK(q, u[k]) /\ EdgesOK(q, u[k])
               /\ u[k + 1] = NextNode(q, u[k]) /\ u[k + 1] <= end
    <2>1. /\ NodeOK(p, t[k]) /\ EdgesOK(p, t[k])
          /\ t[k + 1] = t[k] + 1 + CellAt(p, t[k]).val /\ t[k + 1] <= t[n]
      BY DEF WellFormed, NextNode
    <2>2. t[k] \in Nat /\ CellAt(p, t[k]).val \in Nat /\ t[k + 1] \in Nat
      <3>1. k \in 0..n /\ k + 1 \in 0..n
        BY <1>1
      <3>2. t[k] \in Nat /\ t[k + 1] \in Nat
        BY <3>1
      <3> QED
        BY <3>2, CellAtType
    <2>3. CellAt(q, t[k]) = CellAt(p, t[k])
      BY <1>1, <1>3, <2>1, <2>2
    <2>4. ASSUME NEW j \in 1..CellAt(p, t[k]).val
          PROVE  CellAt(q, t[k] + j) = CellAt(p, t[k] + j)
      BY <1>1, <1>3, <2>1, <2>2
    <2>5. u[k] = t[k] /\ u[k + 1] = t[k + 1]
      BY <1>1, <1>2
    <2>6. NodeOK(q, t[k])
      BY <2>1, <2>3 DEF NodeOK
    <2>7. EdgesOK(q, t[k])
      BY <2>1, <2>3, <2>4 DEF EdgesOK
    <2> QED
      BY <1>1, <2>1, <2>2, <2>3, <2>5, <2>6, <2>7 DEF NextNode
  <1>5. /\ NodeOK(q, u[n]) /\ EdgesOK(q, u[n])
        /\ u[n + 1] = NextNode(q, u[n]) /\ u[n + 1] <= end
    BY <1>1, <1>2, <1>3
  <1>6. \A k \in 0..((n + 1) - 1) : k = n \/ k \in 0..(n - 1)
    BY <1>1
  <1>7. u[0] = 0
    BY <1>1, <1>2 DEF WellFormed
  <1>8. q.num_nodes = n + 1
    OBVIOUS
  <1> HIDE DEF u, n, end
  <1>9. WellFormed(q, u)
    <2>1. u[n + 1] <= PoolCells
      BY <1>2 DEF end, n
    <2>2. \A k \in 0..((n + 1) - 1) :
             /\ NodeOK(q, u[k]) /\ EdgesOK(q, u[k])
             /\ u[k + 1] = NextNode(q, u[k]) /\ u[k + 1] <= u[n + 1]
      BY <1>2, <1>4, <1>5, <1>6
    <2> QED
      BY <1>2, <1>7, <1>8, <2>1, <2>2 DEF WellFormed
  <1> QED
    BY <1>9 DEF u, n, end

\* Well-formedness looks only at the number of nodes and the cells.
LEMMA WellFormedSameCells ==
    ASSUME NEW p, NEW q, NEW t, WellFormed(p, t),
           q.num_nodes = p.num_nodes, q.cells = p.cells
    PROVE  WellFormed(q, t)
  <1>1. \A a : CellAt(q, a) = CellAt(p, a)
    BY DEF CellAt
  <1> QED
    BY <1>1 DEF WellFormed, NodeOK, EdgesOK, NextNode

\* The empty pool is a well-formed graph of no nodes.
LEMMA WellFormedEmpty == EmptyPool \in Pool /\ WellFormed(EmptyPool, EmptyTable)
  <1>1. EmptyPool \in Pool
    BY DEF EmptyPool, Pool, ZeroCell, Cell
  <1>2. EmptyPool.num_nodes = 0
    BY DEF EmptyPool
  <1>3. DOMAIN EmptyTable = 0..0 /\ EmptyTable[0] = 0
    BY DEF EmptyTable
  <1> QED
    BY <1>1, <1>2, <1>3, PoolAssumption DEF WellFormed

-----------------------------------------------------------------------------
(* The invariant is inductive: one lemma per action. *)

\* The statics of memgraph.c start out in the invariant.
LEMMA InitInd == Init => IndInv
  <1> SUFFICES ASSUME Init PROVE IndInv
    OBVIOUS
  <1> USE DEF Init
  <1>1. TypeOK
    <2>1. PoolType /\ ListingType /\ SavedType /\ ControlType
      BY PoolAssumption DEF PoolType, ListingType, SavedType, ControlType
    <2>2. FlagType
      BY DEF FlagType
    <2> QED
      BY <2>1, <2>2 DEF TypeOK
  <1>2. StatusInv /\ LoopInv /\ FreshInv
    BY DEF StatusInv, LoopInv, FreshInv
  <1>3. TableWellFormed /\ EdgeAtEnd /\ VerifyAcceptsBuilt
    BY DEF TableWellFormed, EdgeAtEnd, VerifyAcceptsBuilt
  <1>4. VerifiedListingMatches /\ WalkInGraph
    BY DEF VerifiedListingMatches, WalkInGraph
  <1> QED
    BY <1>1, <1>2, <1>3, <1>4 DEF IndInv

\* initialize_graph(NULL, 0) keeps the invariant, whether the pool exists or not.
LEMMA InitializeEmptyInd ==
    ASSUME IndInv, initialize_empty
    PROVE  IndInv'
  <1> USE DEF initialize_empty, frame
  <1>0. /\ EmptyPool.num_nodes = 0 /\ EmptyPool.magic = "graph"
        /\ EmptyTable \in [0..0 -> Nat] /\ EmptyTable[0] = 0
    BY DEF EmptyPool, EmptyTable
  <1>1. TypeOK'
    <2>1. PoolType'
      <3>1. CASE pool = NULL
        <4>1. pool' \in Pool /\ pool'.num_nodes = 0 /\ table' \in [0..0 -> Nat]
          BY <1>0, <3>1, WellFormedEmpty
        <4>2. pool_edge' = 0
          BY <3>1
        <4> QED
          BY <4>1, <4>2, PoolAssumption, ClientAssumption DEF PoolType
      <3>2. CASE pool # NULL
        BY <3>2 DEF IndInv, TypeOK, PoolType
      <3> QED
        BY <3>1, <3>2
    <2>2. ListingType'
      BY DEF IndInv, TypeOK, ListingType
    <2>3. SavedType'
      BY DEF IndInv, TypeOK, SavedType, PoolType
    <2>4. ControlType'
      BY DEF IndInv, TypeOK, ControlType
    <2>5. FlagType'
      BY DEF IndInv, TypeOK, FlagType
    <2> QED
      BY <2>1, <2>2, <2>3, <2>4, <2>5 DEF TypeOK
  <1>2. StatusInv'
    BY <1>0 DEF IndInv, StatusInv
  <1>3. LoopInv' /\ FreshInv'
    BY <1>0 DEF IndInv, LoopInv, FreshInv
  <1>4. TableWellFormed'
    BY WellFormedEmpty DEF IndInv, TableWellFormed
  <1>5. EdgeAtEnd' /\ VerifyAcceptsBuilt' /\ VerifiedListingMatches' /\ WalkInGraph'
    BY <1>0 DEF IndInv, EdgeAtEnd, VerifyAcceptsBuilt, VerifiedListingMatches, WalkInGraph
  <1> QED
    BY <1>1, <1>2, <1>3, <1>4, <1>5 DEF IndInv

\* initialize_graph from a buffer and load_graph keep it: the stored image is
\* well formed, and the verification that follows starts from the beginning.
LEMMA InitializeFromImageInd ==
    ASSUME IndInv, initialize_from_image
    PROVE  IndInv'
  <1> USE DEF initialize_from_image
  <1>1. TypeOK'
    <2>1. PoolType'
      BY PoolAssumption DEF IndInv, TypeOK, PoolType, SavedType
    <2>2. ListingType'
      BY DEF IndInv, TypeOK, ListingType
    <2>3. SavedType'
      BY DEF IndInv, TypeOK, SavedType, PoolType
    <2>4. ControlType'
      BY DEF IndInv, TypeOK, ControlType
    <2>5. FlagType'
      BY DEF IndInv, TypeOK, FlagType
    <2> QED
      BY <2>1, <2>2, <2>3, <2>4, <2>5 DEF TypeOK
  <1>2. StatusInv'
    BY PoolAssumption DEF IndInv, TypeOK, SavedType, StatusInv
  <1>3. LoopInv' /\ FreshInv'
    BY DEF IndInv, LoopInv, FreshInv
  <1>4. TableWellFormed'
    BY DEF IndInv, StatusInv, TableWellFormed
  <1>5. EdgeAtEnd' /\ VerifyAcceptsBuilt' /\ VerifiedListingMatches' /\ WalkInGraph'
    BY DEF IndInv, EdgeAtEnd, VerifyAcceptsBuilt, VerifiedListingMatches, WalkInGraph
  <1> QED
    BY <1>1, <1>2, <1>3, <1>4, <1>5 DEF IndInv

\* destroy_graph keeps it: pool and listing go together.
LEMMA DestroyInd ==
    ASSUME IndInv, destroy_graph
    PROVE  IndInv'
  <1> USE DEF destroy_graph, frame
  <1>1. TypeOK'
    <2>1. PoolType'
      BY PoolAssumption DEF IndInv, TypeOK, PoolType, SavedType
    <2>2. ListingType'
      BY DEF IndInv, TypeOK, ListingType
    <2>3. SavedType'
      BY DEF IndInv, TypeOK, SavedType, PoolType
    <2>4. ControlType'
      BY DEF IndInv, TypeOK, ControlType
    <2>5. FlagType'
      BY DEF IndInv, TypeOK, FlagType
    <2> QED
      BY <2>1, <2>2, <2>3, <2>4, <2>5 DEF TypeOK
  <1>2. StatusInv' /\ LoopInv' /\ FreshInv'
    BY DEF IndInv, StatusInv, LoopInv, FreshInv
  <1>3. TableWellFormed' /\ EdgeAtEnd' /\ VerifyAcceptsBuilt'
    BY DEF TableWellFormed, EdgeAtEnd, VerifyAcceptsBuilt
  <1>4. VerifiedListingMatches' /\ WalkInGraph'
    BY DEF VerifiedListingMatches, WalkInGraph
  <1> QED
    BY <1>1, <1>2, <1>3, <1>4 DEF IndInv

\* store_graph keeps it: what is written is well formed.
LEMMA StoreInd ==
    ASSUME IndInv, store_graph
    PROVE  IndInv'
  <1> USE DEF store_graph, statics, cursor, frame, history
  <1>1. TypeOK'
    <2>1. PoolType'
      BY DEF IndInv, TypeOK, PoolType, SavedType
    <2>2. ListingType'
      BY DEF IndInv, TypeOK, ListingType
    <2>3. SavedType'
      BY DEF IndInv, TypeOK, SavedType, PoolType
    <2>4. ControlType'
      BY DEF IndInv, TypeOK, ControlType
    <2>5. FlagType'
      BY DEF IndInv, TypeOK, FlagType
    <2> QED
      BY <2>1, <2>2, <2>3, <2>4, <2>5 DEF TypeOK
  <1>2. StatusInv'
    BY DEF IndInv, StatusInv, TableWellFormed, ListingMatches
  <1>3. LoopInv' /\ FreshInv'
    BY DEF IndInv, LoopInv, FreshInv
  <1>4. TableWellFormed' /\ EdgeAtEnd' /\ VerifyAcceptsBuilt'
    BY DEF IndInv, TableWellFormed, EdgeAtEnd, VerifyAcceptsBuilt
  <1>5. VerifiedListingMatches' /\ WalkInGraph'
    BY DEF IndInv, VerifiedListingMatches, ListingMatches, WalkInGraph, Closed
  <1> QED
    BY <1>1, <1>2, <1>3, <1>4, <1>5 DEF IndInv

\* A failure that ends the process keeps it.
LEMMA ErrorInd ==
    ASSUME IndInv, file_or_memory_error
    PROVE  IndInv'
  <1> USE DEF file_or_memory_error, statics, cursor, frame, history
  <1>1. TypeOK'
    <2>1. PoolType'
      BY DEF IndInv, TypeOK, PoolType, SavedType
    <2>2. ListingType'
      BY DEF IndInv, TypeOK, ListingType
    <2>3. SavedType'
      BY DEF IndInv, TypeOK, SavedType, PoolType
    <2>4. ControlType'
      BY DEF IndInv, TypeOK, ControlType
    <2>5. FlagType'
      BY DEF IndInv, TypeOK, FlagType
    <2> QED
      BY <2>1, <2>2, <2>3, <2>4, <2>5 DEF TypeOK
  <1>2. StatusInv'
    BY DEF IndInv, StatusInv, ListingMatches
  <1>3. LoopInv' /\ FreshInv'
    BY DEF IndInv, LoopInv, FreshInv
  <1>4. TableWellFormed' /\ EdgeAtEnd' /\ VerifyAcceptsBuilt'
    BY DEF IndInv, TableWellFormed, EdgeAtEnd, VerifyAcceptsBuilt
  <1>5. VerifiedListingMatches' /\ WalkInGraph'
    BY DEF IndInv, VerifiedListingMatches, ListingMatches, WalkInGraph, Closed
  <1> QED
    BY <1>1, <1>2, <1>3, <1>4, <1>5 DEF IndInv

\* A new process, with fresh statics and the old file, starts in it.
LEMMA RestartInd ==
    ASSUME IndInv, restart
    PROVE  IndInv'
  <1> USE DEF restart
  <1>1. TypeOK'
    <2>1. PoolType'
      BY PoolAssumption DEF IndInv, TypeOK, PoolType, SavedType
    <2>2. ListingType'
      BY DEF IndInv, TypeOK, ListingType
    <2>3. SavedType'
      BY DEF IndInv, TypeOK, SavedType, PoolType
    <2>4. ControlType'
      BY DEF IndInv, TypeOK, ControlType
    <2>5. FlagType'
      BY DEF IndInv, TypeOK, FlagType
    <2> QED
      BY <2>1, <2>2, <2>3, <2>4, <2>5 DEF TypeOK
  <1>2. StatusInv' /\ LoopInv' /\ FreshInv'
    BY DEF IndInv, StatusInv, LoopInv, FreshInv
  <1>3. TableWellFormed' /\ EdgeAtEnd' /\ VerifyAcceptsBuilt'
    BY DEF TableWellFormed, EdgeAtEnd, VerifyAcceptsBuilt
  <1>4. VerifiedListingMatches' /\ WalkInGraph'
    BY DEF VerifiedListingMatches, WalkInGraph
  <1> QED
    BY <1>1, <1>2, <1>3, <1>4 DEF IndInv

\* MALLOC, REALLOC and a write inside the array yield listings again.
LEMMA ListingOps ==
    ASSUME NEW c \in Nat
    PROVE  /\ Listing(NewListing(c)) /\ NewListing(c).cap = c
           /\ \A l : Listing(l) => Listing(Resize(l, c)) /\ Resize(l, c).cap = c
           /\ \A l : Listing(l) => \A k, a \in Nat : k < l.cap =>
                 /\ Listing(SetSlot(l, k, a))
                 /\ SetSlot(l, k, a).cap = l.cap
                 /\ SetSlot(l, k, a).slot[k] = a
                 /\ \A j \in 0..(l.cap - 1) :
                       j # k => SetSlot(l, k, a).slot[j] = l.slot[j]
  <1>1. Listing(NewListing(c)) /\ NewListing(c).cap = c
    BY DEF Listing, NewListing
  <1>2. ASSUME NEW l, Listing(l)
        PROVE  Listing(Resize(l, c)) /\ Resize(l, c).cap = c
    <2>1. \A k \in 0..(c - 1) : k < l.cap => l.slot[k] \in Nat \cup {WILD}
      BY <1>2 DEF Listing
    <2> QED
      BY <2>1 DEF Listing, Resize
  <1>3. ASSUME NEW l, Listing(l), NEW k \in Nat, NEW a \in Nat, k < l.cap
        PROVE  /\ Listing(SetSlot(l, k, a))
               /\ SetSlot(l, k, a).cap = l.cap
               /\ SetSlot(l, k, a).slot[k] = a
               /\ \A j \in 0..(l.cap - 1) :
                     j # k => SetSlot(l, k, a).slot[j] = l.slot[j]
    BY <1>3 DEF Listing, SetSlot
  <1> QED
    BY <1>1, <1>2, <1>3

\* GrownListing is a listing, and while the process builds its first graph it
\* has room for the next node.
LEMMA GrownListingRoom ==
    ASSUME IndInv, pool # NULL
    PROVE  /\ Listing(GrownListing) /\ GrownListing.cap \in Nat
           /\ GrownListing # NoListing
           /\ GrownCount \in Nat
           /\ fresh => /\ pool.num_nodes < GrownListing.cap
                       /\ GrownCount <= GrownListing.cap
                       /\ \/ pool.num_nodes + 1 <= GrownCount
                          \/ GrownCount = 0 /\ pool.num_nodes = 0
  <1>1. /\ pool.num_nodes \in Nat /\ Chunk \in Nat /\ Chunk > 1
        /\ num_nodes_listings \in Nat /\ num_nodes_listings + Chunk \in Nat
    BY ClientAssumption DEF IndInv, TypeOK, PoolType, ListingType, Pool
  <1>2. Listing(GrownListing) /\ GrownCount \in Nat
    BY <1>1, ListingOps DEF GrownListing, GrownCount, IndInv, TypeOK, ListingType
  <1>3. GrownListing.cap \in Nat /\ GrownListing # NoListing
    BY <1>2 DEF Listing, NoListing
  <1>4. ASSUME fresh
        PROVE  /\ pool.num_nodes < GrownListing.cap
               /\ GrownCount <= GrownListing.cap
               /\ \/ pool.num_nodes + 1 <= GrownCount
                  \/ GrownCount = 0 /\ pool.num_nodes = 0
    <2>1. CASE nodes = NoListing
      <3>1. GrownListing.cap = Chunk /\ GrownCount = 0 /\ pool.num_nodes = 0
        BY <1>1, <1>4, <2>1, ListingOps DEF GrownListing, GrownCount, IndInv, FreshInv
      <3> QED
        BY <1>1, <3>1
    <2>2. CASE nodes # NoListing /\ pool.num_nodes >= num_nodes_listings
      <3>1. /\ GrownListing.cap = num_nodes_listings + Chunk
            /\ GrownCount = num_nodes_listings + Chunk
        BY <1>1, <2>2, ListingOps
           DEF GrownListing, GrownCount, IndInv, TypeOK, ListingType
      <3>2. \/ pool.num_nodes <= num_nodes_listings
            \/ num_nodes_listings = 0 /\ pool.num_nodes <= 1
        BY <1>4, <2>2 DEF IndInv, FreshInv
      <3> QED
        BY <1>1, <3>1, <3>2
    <2>3. CASE nodes # NoListing /\ ~(pool.num_nodes >= num_nodes_listings)
      <3>1. GrownListing = nodes /\ GrownCount = num_nodes_listings
        BY <2>3 DEF GrownListing, GrownCount
      <3>2. num_nodes_listings <= nodes.cap /\ nodes.cap \in Nat
        BY <1>4, <2>3 DEF IndInv, FreshInv, TypeOK, ListingType, Listing
      <3> QED
        BY <1>1, <2>3, <3>1, <3>2
    <2> QED
      BY <2>1, <2>2, <2>3
  <1> QED
    BY <1>2, <1>3, <1>4

\* alloc_node keeps it: the nodes stay in a row, pool_edge at their end, and the
\* listing of a first graph grows in time.
LEMMA AllocInd ==
    ASSUME IndInv, NEW id \in Nat, NEW edges \in Seq(Edge(Nat, Nat)), alloc_node(id, edges)
    PROVE  IndInv'
  <1> DEFINE end == NodeEnd(pool_edge, edges)
             n   == pool.num_nodes
  <1> USE DEF frame, NodeEnd
  <1>1. /\ pc = "idle" /\ pool # NULL /\ pool \in Pool
        /\ n \in Nat /\ n < MaxNodes /\ MaxNodes \in Nat /\ n + 1 \in Nat
        /\ table \in [0..n -> Nat]
        /\ id \in Nat /\ edges \in Seq(Edge(Nat, Nat)) /\ Len(edges) \in Nat
        /\ pool_edge \in Nat /\ end \in Nat /\ PoolCells \in Nat
    BY ClientAssumption, PoolAssumption DEF alloc_node, IndInv, TypeOK, PoolType, Pool
  <1>2. /\ num_nodes_listings' = GrownCount
        /\ fresh' = (fresh /\ id = n)
        /\ verdict' = 0 /\ walk' = FALSE
        /\ UNCHANGED <<current_progstate, start_node, saved, exits, i, at>>
    BY DEF alloc_node
  <1>3. CASE end > PoolCells \/ id >= GrownListing.cap
    <2>1. /\ pc' = IF end > PoolCells THEN "pool" ELSE "listing"
          /\ nodes' = GrownListing
          /\ UNCHANGED <<pool, pool_edge, table, origin>>
      BY <1>3 DEF alloc_node
    <2>2. TypeOK'
      <3>1. PoolType' /\ SavedType'
        BY <1>2, <2>1 DEF IndInv, TypeOK, PoolType, SavedType
      <3>2. ListingType'
        BY <1>1, <1>2, <2>1, GrownListingRoom DEF ListingType
      <3>3. ControlType'
        BY <1>2, <2>1 DEF IndInv, TypeOK, ControlType
      <3>4. FlagType'
        BY <1>2 DEF IndInv, TypeOK, FlagType
      <3> QED
        BY <3>1, <3>2, <3>3, <3>4 DEF TypeOK
    <2>3. StatusInv' /\ LoopInv'
      BY <1>1, <1>2, <2>1 DEF IndInv, StatusInv, LoopInv
    <2>4. FreshInv'
      <3>1. SUFFICES ASSUME fresh, id = n
                     PROVE  FreshInv'
        BY <1>2 DEF FreshInv
      <3>2. n < GrownListing.cap /\ GrownCount <= GrownListing.cap
        BY <1>1, <3>1, GrownListingRoom
      <3>3. n <= GrownCount \/ (GrownCount = 0 /\ n <= 1)
        BY <1>1, <3>1, GrownListingRoom
      <3>4. pc' # "listing"
        BY <1>1, <1>3, <2>1, <3>1, <3>2, GrownListingRoom
      <3>5. nodes' # NoListing
        BY <1>1, <2>1, GrownListingRoom
      <3> QED
        BY <1>1, <1>2, <2>1, <3>2, <3>3, <3>4, <3>5, GrownListingRoom DEF FreshInv
    <2>5. TableWellFormed' /\ EdgeAtEnd' /\ VerifyAcceptsBuilt'
      BY <1>2, <2>1 DEF IndInv, TableWellFormed, EdgeAtEnd, VerifyAcceptsBuilt
    <2>6. VerifiedListingMatches' /\ WalkInGraph'
      BY <1>2 DEF VerifiedListingMatches, WalkInGraph
    <2> QED
      BY <2>2, <2>3, <2>4, <2>5, <2>6 DEF IndInv
  <1>4. CASE ~(end > PoolCells \/ id >= GrownListing.cap)
    <2>1. /\ nodes' = SetSlot(GrownListing, id, pool_edge)
          /\ pool' = [pool EXCEPT !.num_nodes = n + 1,
                        !.cells = WriteNode(pool.cells, pool_edge, id, edges)]
          /\ pool_edge' = end
          /\ table' = [k \in 0..(n + 1) |-> IF k <= n THEN table[k]
                                              ELSE pool_edge + 1 + Len(edges)]
          /\ origin' = IF origin = "built" THEN "built" ELSE "mixed"
          /\ pc' = pc
      BY <1>4 DEF alloc_node
    <2> HIDE DEF end, n
    <2>2. end <= PoolCells
      BY <1>1, <1>4
    <2>3. /\ pool' \in Pool /\ pool'.num_nodes = n + 1
          /\ pool'.cells = WriteNode(pool.cells, pool_edge, id, edges)
          /\ pool'.magic = pool.magic /\ pool'.graph_finalized = pool.graph_finalized
      <3>1. WriteNode(pool.cells, pool_edge, id, edges) \in [Address -> Cell]
        BY <1>1, WriteNodeType DEF Pool
      <3> QED
        BY <1>1, <2>1, <3>1 DEF Pool
    <2>4. table' \in [0..(n + 1) -> Nat] /\ table'[n + 1] = end
      BY <1>1, <2>1 DEF end
    <2>5. pool' # NULL
      BY <2>3, PoolAssumption
    <2>6. TypeOK'
      <3>1. PoolType'
        BY <1>1, <2>1, <2>2, <2>3, <2>4 DEF PoolType
      <3>2. ListingType'
        BY <1>1, <1>2, <1>4, <2>1, GrownListingRoom, ListingOps DEF ListingType
      <3>3. SavedType'
        BY <1>2 DEF IndInv, TypeOK, SavedType
      <3>4. ControlType'
        BY <1>2, <2>1 DEF IndInv, TypeOK, ControlType
      <3>5. FlagType'
        BY <1>2 DEF IndInv, TypeOK, FlagType
      <3> QED
        BY <3>1, <3>2, <3>3, <3>4, <3>5 DEF TypeOK
    <2>7. StatusInv' /\ LoopInv'
      BY <1>1, <1>2, <2>1, <2>3, <2>5 DEF IndInv, StatusInv, LoopInv
    <2>8. FreshInv'
      <3>1. SUFFICES ASSUME fresh, id = n
                     PROVE  FreshInv'
        BY <1>2 DEF FreshInv
      <3>2. nodes'.cap = GrownListing.cap
        BY <1>1, <1>4, <2>1, GrownListingRoom, ListingOps
      <3>3. /\ n + 1 <= nodes'.cap /\ GrownCount <= nodes'.cap
            /\ n + 1 <= GrownCount \/ (GrownCount = 0 /\ n + 1 <= 1)
        BY <1>1, <3>1, <3>2, GrownListingRoom DEF n
      <3>4. nodes' # NoListing
        BY <1>1, <3>2, GrownListingRoom DEF NoListing
      <3> QED
        BY <1>1, <1>2, <2>1, <2>3, <2>5, <3>3, <3>4 DEF FreshInv
    <2>9. TableWellFormed' /\ EdgeAtEnd'
      <3>1. CASE origin = "built"
        <4>1. pool_edge = table[n] /\ WellFormed(pool, table)
          BY <1>1, <3>1 DEF IndInv, EdgeAtEnd, TableWellFormed, n
        <4>2. WellFormed(pool', table')
          <5>1. /\ table[pool.num_nodes] + 1 + Len(edges) <= PoolCells
                /\ pool'.num_nodes = pool.num_nodes + 1
                /\ pool'.cells = WriteNode(pool.cells, table[pool.num_nodes], id, edges)
                /\ table \in [0..pool.num_nodes -> Nat]
            BY <1>1, <2>2, <2>3, <4>1 DEF n, end
          <5>2. table' = [k \in 0..(pool.num_nodes + 1) |->
                             IF k <= pool.num_nodes THEN table[k]
                             ELSE table[pool.num_nodes] + 1 + Len(edges)]
            BY <2>1, <4>1 DEF n, end
          <5> QED
            BY <1>1, <2>3, <4>1, <5>1, <5>2, WellFormedExtend
        <4>3. pool_edge' = table'[pool'.num_nodes]
          BY <2>1, <2>3, <2>4
        <4> QED
          BY <4>2, <4>3 DEF TableWellFormed, EdgeAtEnd
      <3>2. CASE origin # "built"
        BY <2>1, <3>2 DEF TableWellFormed, EdgeAtEnd
      <3> QED
        BY <3>1, <3>2
    <2>10. VerifyAcceptsBuilt' /\ VerifiedListingMatches' /\ WalkInGraph'
      BY <1>2 DEF VerifyAcceptsBuilt, VerifiedListingMatches, WalkInGraph
    <2> QED
      BY <2>6, <2>7, <2>8, <2>9, <2>10 DEF IndInv
  <1> QED
    BY <1>3, <1>4

\* finalize_graph keeps it: only the flag changes.
LEMMA FinalizeInd ==
    ASSUME IndInv, finalize_graph
    PROVE  IndInv'
  <1> USE DEF finalize_graph, cursor, frame, history
  <1>1. /\ pool \in Pool /\ pool' \in Pool
        /\ pool'.num_nodes = pool.num_nodes /\ pool'.cells = pool.cells
        /\ pool'.magic = pool.magic /\ pool # NULL /\ pool' # NULL
    BY PoolAssumption DEF IndInv, TypeOK, PoolType, Pool
  <1>2. TypeOK'
    <2>1. PoolType'
      BY <1>1 DEF IndInv, TypeOK, PoolType
    <2>2. ListingType' /\ SavedType'
      BY DEF IndInv, TypeOK, ListingType, SavedType
    <2>3. ControlType'
      BY DEF IndInv, TypeOK, ControlType
    <2>4. FlagType'
      BY DEF IndInv, TypeOK, FlagType
    <2> QED
      BY <2>1, <2>2, <2>3, <2>4 DEF TypeOK
  <1>3. StatusInv'
    BY <1>1 DEF IndInv, StatusInv, ListingMatches
  <1>4. LoopInv' /\ FreshInv'
    BY <1>1 DEF IndInv, LoopInv, FreshInv
  <1>5. TableWellFormed'
    BY <1>1, WellFormedSameCells DEF IndInv, TableWellFormed
  <1>6. EdgeAtEnd' /\ VerifyAcceptsBuilt' /\ VerifiedListingMatches'
    BY <1>1 DEF IndInv, EdgeAtEnd, VerifyAcceptsBuilt, VerifiedListingMatches
  <1>7. WalkInGraph'
    <2>1. \A a : CellAt(pool', a) = CellAt(pool, a)
      BY <1>1 DEF CellAt
    <2>2. Closed' <=> Closed
      BY <1>1, <2>1 DEF Closed
    <2> QED
      BY <1>1, <2>2 DEF IndInv, WalkInGraph
  <1> QED
    BY <1>2, <1>3, <1>4, <1>5, <1>6, <1>7 DEF IndInv

\* Calling verify_graph keeps it.
LEMMA VerifyCallInd ==
    ASSUME IndInv, verify_graph
    PROVE  IndInv'
  <1> USE DEF verify_graph, statics, cursor, history
  <1>1. TypeOK'
    <2>1. PoolType' /\ ListingType' /\ SavedType'
      BY DEF IndInv, TypeOK, PoolType, ListingType, SavedType
    <2>2. ControlType'
      BY DEF IndInv, TypeOK, ControlType
    <2>3. FlagType'
      BY DEF IndInv, TypeOK, FlagType
    <2> QED
      BY <2>1, <2>2, <2>3 DEF TypeOK
  <1>2. StatusInv'
    BY DEF IndInv, StatusInv, ListingMatches
  <1>3. LoopInv' /\ FreshInv'
    BY DEF IndInv, LoopInv, FreshInv
  <1>4. TableWellFormed' /\ EdgeAtEnd' /\ VerifyAcceptsBuilt' /\ VerifiedListingMatches'
    BY DEF IndInv, TableWellFormed, EdgeAtEnd, VerifyAcceptsBuilt, VerifiedListingMatches
  <1>5. WalkInGraph'
    BY DEF IndInv, WalkInGraph, Closed
  <1> QED
    BY <1>1, <1>2, <1>3, <1>4, <1>5 DEF IndInv

\* The header checks of verify_graph and its listing keep it.
LEMMA VerifyEntryInd ==
    ASSUME IndInv, verify_entry
    PROVE  IndInv'
  <1> USE DEF cursor, history
  <1>0. /\ pc = "entry"
        /\ UNCHANGED <<pool, pool_edge, num_nodes_listings, current_progstate,
                       start_node, walk, saved, exits, table, origin, fresh>>
    BY DEF verify_entry
  <1>1. PoolType' /\ SavedType' /\ FlagType'
    <2>1. PoolType' /\ SavedType'
      BY <1>0 DEF IndInv, TypeOK, PoolType, SavedType
    <2>2. FlagType'
      BY <1>0 DEF IndInv, TypeOK, FlagType
    <2> QED
      BY <2>1, <2>2
  <1>2. TableWellFormed' /\ EdgeAtEnd'
    BY <1>0 DEF IndInv, TableWellFormed, EdgeAtEnd
  <1>3. WalkInGraph'
    BY <1>0 DEF IndInv, WalkInGraph, Closed
  <1>4. CASE HeaderVerdict(pool) # 1
    <2>1. /\ verdict' = HeaderVerdict(pool) /\ i' = 0 /\ at' = 0 /\ nodes' = nodes
          /\ pc' \in {"idle", "exited"}
      BY <1>4 DEF verify_entry, VerifyReturns
    <2>2. /\ HeaderVerdict(pool) \in {-1, -5}
          /\ pool # NULL => HeaderVerdict(pool) = -5 /\ pool.graph_finalized = 0
      BY <1>4 DEF HeaderVerdict, IndInv, StatusInv
    <2>3. ListingType' /\ ControlType'
      BY <1>0, <2>1, <2>2 DEF IndInv, TypeOK, ListingType, ControlType
    <2>4. StatusInv' /\ LoopInv' /\ FreshInv'
      BY <1>0, <2>1, <2>2 DEF IndInv, StatusInv, LoopInv, FreshInv, ListingMatches
    <2>5. VerifyAcceptsBuilt' /\ VerifiedListingMatches'
      BY <1>0, <2>1, <2>2 DEF VerifyAcceptsBuilt, VerifiedListingMatches
    <2> QED
      BY <1>1, <1>2, <1>3, <2>3, <2>4, <2>5 DEF IndInv, TypeOK
  <1>5. CASE HeaderVerdict(pool) = 1
    <2>1. /\ nodes' = IF nodes = NoListing THEN NewListing(pool.num_nodes) ELSE nodes
          /\ i' = 0 /\ at' = 0 /\ pc' = "loop" /\ verdict' = verdict
      BY <1>5 DEF verify_entry
    <2>2. pool # NULL /\ pool \in Pool /\ pool.num_nodes \in Nat
      BY <1>5 DEF HeaderVerdict, IndInv, TypeOK, PoolType, Pool
    <2>3. /\ Listing(nodes') /\ nodes' # NoListing /\ nodes'.cap \in Nat
          /\ nodes # NoListing => nodes' = nodes
          /\ nodes = NoListing => nodes'.cap = pool.num_nodes
      BY <2>1, <2>2, ListingOps DEF IndInv, TypeOK, ListingType, Listing, NoListing
    <2>4. ListingType' /\ ControlType'
      BY <1>0, <2>1, <2>3 DEF IndInv, TypeOK, ListingType, ControlType
    <2>5. StatusInv'
      BY <1>0, <2>1, <2>2, <2>3 DEF IndInv, StatusInv, ListingMatches
    <2>6. LoopInv'
      <3>1. origin # "mixed" => table[0] = 0
        BY <2>2 DEF IndInv, TableWellFormed, WellFormed
      <3> QED
        BY <1>0, <2>1, <2>2, <2>3, <3>1 DEF LoopInv
    <2>7. FreshInv'
      BY <1>0, <2>1, <2>2, <2>3 DEF IndInv, FreshInv
    <2>8. VerifyAcceptsBuilt' /\ VerifiedListingMatches'
      BY <1>0, <2>1, <2>3
         DEF IndInv, VerifyAcceptsBuilt, VerifiedListingMatches, ListingMatches
    <2> QED
      BY <1>1, <1>2, <1>3, <2>4, <2>5, <2>6, <2>7, <2>8 DEF IndInv, TypeOK
  <1> QED
    BY <1>4, <1>5

\* One turn of the loop of verify_graph keeps it: the loop stands at node i, and
\* at the end the listing matches the graph.
LEMMA VerifyLoopInd ==
    ASSUME IndInv, verify_loop
    PROVE  IndInv'
  <1> USE DEF cursor, history, ListingIndex
  <1>0. /\ pc = "loop" /\ pool # NULL /\ nodes # NoListing
        /\ UNCHANGED <<pool, pool_edge, num_nodes_listings, current_progstate,
                       start_node, walk, saved, exits, table, origin, fresh>>
    BY DEF verify_loop, IndInv, LoopInv
  <1>1. PoolType' /\ SavedType' /\ FlagType'
    <2>1. PoolType' /\ SavedType'
      BY <1>0 DEF IndInv, TypeOK, PoolType, SavedType
    <2>2. FlagType'
      BY <1>0 DEF IndInv, TypeOK, FlagType
    <2> QED
      BY <2>1, <2>2
  <1>2. TableWellFormed' /\ EdgeAtEnd'
    BY <1>0 DEF IndInv, TableWellFormed, EdgeAtEnd
  <1>3. WalkInGraph'
    BY <1>0 DEF IndInv, WalkInGraph, Closed
  <1>4. /\ pool \in Pool /\ pool.num_nodes \in Nat /\ i \in Nat /\ at \in Nat
        /\ Listing(nodes) /\ nodes.cap \in Nat
    BY <1>0 DEF IndInv, TypeOK, PoolType, ControlType, ListingType, Listing, Pool
  <1>5. CASE i >= pool.num_nodes
    <2>1. /\ verdict' = 1 /\ i' = 0 /\ at' = 0 /\ pc' = "idle" /\ nodes' = nodes
      BY <1>5 DEF verify_loop, VerifyReturns
    <2>2. ListingType' /\ ControlType'
      BY <1>0, <2>1 DEF IndInv, TypeOK, ListingType, ControlType
    <2>3. origin # "mixed" => ListingMatches
      BY <1>0, <1>4, <1>5 DEF IndInv, LoopInv, ListingMatches
    <2>4. StatusInv' /\ LoopInv' /\ FreshInv'
      BY <1>0, <2>1 DEF IndInv, StatusInv, LoopInv, FreshInv, ListingMatches
    <2>5. VerifyAcceptsBuilt' /\ VerifiedListingMatches'
      BY <1>0, <2>1, <2>3
         DEF VerifyAcceptsBuilt, VerifiedListingMatches, ListingMatches
    <2> QED
      BY <1>1, <1>2, <1>3, <2>2, <2>4, <2>5 DEF IndInv, TypeOK
  <1>6. CASE ~(i >= pool.num_nodes) /\ i >= nodes.cap
    <2>1. pc' = "listing" /\ UNCHANGED <<nodes, i, at, verdict>>
      BY <1>6 DEF verify_loop
    <2>2. ~fresh
      BY <1>0, <1>4, <1>6 DEF IndInv, FreshInv
    <2>3. ListingType' /\ ControlType'
      BY <1>0, <2>1 DEF IndInv, TypeOK, ListingType, ControlType
    <2>4. StatusInv' /\ LoopInv' /\ FreshInv'
      BY <1>0, <2>1, <2>2 DEF IndInv, StatusInv, LoopInv, FreshInv, ListingMatches
    <2>5. VerifyAcceptsBuilt' /\ VerifiedListingMatches'
      BY <1>0, <2>1
         DEF IndInv, VerifyAcceptsBuilt, VerifiedListingMatches, ListingMatches
    <2> QED
      BY <1>1, <1>2, <1>3, <2>3, <2>4, <2>5 DEF IndInv, TypeOK
  <1>7. CASE ~(i >= pool.num_nodes) /\ ~(i >= nodes.cap)
    <2>1. nodes' = SetSlot(nodes, i, at)
      BY <1>7 DEF verify_loop
    <2>2. /\ Listing(nodes') /\ nodes'.cap = nodes.cap /\ nodes'.slot[i] = at
          /\ nodes' # NoListing
          /\ \A k \in 0..(nodes.cap - 1) : k # i => nodes'.slot[k] = nodes.slot[k]
      <3>1. /\ Listing(nodes') /\ nodes'.cap = nodes.cap /\ nodes'.slot[i] = at
            /\ \A k \in 0..(nodes.cap - 1) : k # i => nodes'.slot[k] = nodes.slot[k]
        BY <1>4, <1>7, <2>1, ListingOps
      <3> QED
        BY <1>4, <3>1 DEF NoListing
    <2>3. ListingType'
      BY <1>0, <2>2 DEF IndInv, TypeOK, ListingType
    <2>4. ASSUME origin # "mixed"
          PROVE  /\ at = table[i] /\ NodeOK(pool, at) /\ EdgesOK(pool, at)
                 /\ table[i + 1] = NextNode(pool, at)
                 /\ \A k \in 0..i : nodes'.slot[k] = table[k]
                 /\ ListingMatches => ListingMatches'
      <3>1. /\ at = table[i] /\ \A k \in 0..(i - 1) : nodes.slot[k] = table[k]
            /\ i \in 0..(pool.num_nodes - 1)
        BY <1>0, <1>4, <1>7, <2>4 DEF IndInv, LoopInv
      <3>2. /\ NodeOK(pool, at) /\ EdgesOK(pool, at)
            /\ table[i + 1] = NextNode(pool, at)
        BY <1>0, <2>4, <3>1 DEF IndInv, TableWellFormed, WellFormed
      <3>3. \A k \in 0..i : nodes'.slot[k] = table[k]
        BY <1>4, <1>7, <2>2, <3>1
      <3>4. ListingMatches => ListingMatches'
        BY <1>0, <1>4, <2>2, <3>1 DEF ListingMatches
      <3> QED
        BY <3>1, <3>2, <3>3, <3>4
    <2>5. StatusInv'
      <3>1. walk => ListingMatches'
        BY <2>4 DEF IndInv, StatusInv
      <3>2. verdict' = 1 => verdict = 1
        BY <1>7 DEF verify_loop, VerifyReturns
      <3> QED
        BY <1>0, <2>2, <3>1, <3>2 DEF IndInv, StatusInv
    <2>6. FreshInv'
      <3>1. pc' # "listing"
        BY <1>0, <1>7 DEF verify_loop, VerifyReturns
      <3> QED
        BY <1>0, <2>2, <3>1 DEF IndInv, FreshInv
    <2>7. CASE ~NodeOK(pool, at) \/ ~EdgesOK(pool, at)
      <3>1. /\ verdict' \in {-2, -3} /\ i' = 0 /\ at' = 0
            /\ pc' \in {"idle", "exited"}
        BY <1>7, <2>7 DEF verify_loop, VerifyReturns
      <3>2. origin = "mixed"
        BY <2>4, <2>7
      <3>3. ControlType' /\ LoopInv'
        BY <1>0, <3>1 DEF IndInv, TypeOK, ControlType, LoopInv
      <3>4. VerifyAcceptsBuilt' /\ VerifiedListingMatches'
        BY <1>0, <3>1, <3>2 DEF VerifyAcceptsBuilt, VerifiedListingMatches
      <3> QED
        BY <1>1, <1>2, <1>3, <2>3, <2>5, <2>6, <3>3, <3>4 DEF IndInv, TypeOK
    <2>8. CASE NodeOK(pool, at) /\ EdgesOK(pool, at)
      <3>1. i' = i + 1 /\ at' = NextNode(pool, at) /\ UNCHANGED <<pc, verdict>>
        BY <1>7, <2>8 DEF verify_loop
      <3>2. NextNode(pool, at) \in Nat
        BY <1>4, CellAtType DEF NextNode
      <3>3. ControlType'
        BY <1>0, <1>4, <3>1, <3>2 DEF IndInv, TypeOK, ControlType
      <3>4. LoopInv'
        BY <1>0, <1>4, <1>7, <2>2, <2>4, <3>1 DEF LoopInv
      <3>5. VerifyAcceptsBuilt'
        BY <1>0, <3>1 DEF IndInv, VerifyAcceptsBuilt
      <3>6. VerifiedListingMatches'
        BY <1>0, <2>4, <3>1 DEF IndInv, VerifiedListingMatches
      <3> QED
        BY <1>1, <1>2, <1>3, <2>3, <2>5, <2>6, <3>3, <3>4, <3>5, <3>6
           DEF IndInv, TypeOK
    <2> QED
      BY <2>7, <2>8
  <1> QED
    BY <1>5, <1>6, <1>7

\* reset_progstate keeps it: the walk starts at node 0 of the listing.
LEMMA ResetInd ==
    ASSUME IndInv, reset_progstate
    PROVE  IndInv'
  <1> USE DEF statics, frame, history
  <1>0. /\ nodes # NoListing /\ pool # NULL /\ current_progstate' = 0
        /\ start_node' = Slot(nodes, 0)
        /\ walk' = (verdict = 1 /\ origin # "mixed" /\ pool.num_nodes > 0)
        /\ UNCHANGED <<pool, pool_edge, nodes, num_nodes_listings, saved, pc,
                       exits, i, at, verdict, table, origin, fresh>>
    BY DEF reset_progstate, IndInv, StatusInv
  <1>1. /\ pool \in Pool /\ pool.num_nodes \in Nat /\ table \in [0..pool.num_nodes -> Nat]
        /\ Listing(nodes) /\ nodes.cap \in Nat
    BY <1>0 DEF IndInv, TypeOK, PoolType, ListingType, Listing, Pool
  <1>2. TypeOK'
    <2>1. PoolType' /\ ListingType' /\ SavedType'
      BY <1>0 DEF IndInv, TypeOK, PoolType, ListingType, SavedType
    <2>2. Slot(nodes, 0) \in Nat \cup {WILD}
      BY <1>1 DEF Slot, Listing
    <2>3. ControlType'
      BY <1>0, <2>2 DEF IndInv, TypeOK, ControlType
    <2>4. FlagType'
      BY <1>0 DEF IndInv, TypeOK, FlagType
    <2> QED
      BY <2>1, <2>3, <2>4 DEF TypeOK
  <1>3. walk' => ListingMatches /\ origin # "mixed" /\ pool.num_nodes > 0
    BY <1>0 DEF IndInv, VerifiedListingMatches
  <1>4. StatusInv'
    BY <1>0, <1>3 DEF IndInv, StatusInv, ListingMatches
  <1>5. LoopInv' /\ FreshInv'
    BY <1>0 DEF IndInv, LoopInv, FreshInv
  <1>6. TableWellFormed' /\ EdgeAtEnd' /\ VerifyAcceptsBuilt'
    BY <1>0 DEF IndInv, TableWellFormed, EdgeAtEnd, VerifyAcceptsBuilt
  <1>7. VerifiedListingMatches'
    BY <1>0 DEF IndInv, VerifiedListingMatches, ListingMatches
  <1>8. WalkInGraph'
    BY <1>0, <1>1, <1>3 DEF WalkInGraph, ListingMatches, Slot
  <1> QED
    BY <1>2, <1>4, <1>5, <1>6, <1>7, <1>8 DEF IndInv

\* transition_to_state keeps it: the walk follows an edge to a node of the graph.
LEMMA TransitionInd ==
    ASSUME IndInv, NEW call \in Call, transition_to_state(call)
    PROVE  IndInv'
  <1> USE DEF statics, frame, history
  <1>0. /\ pc = "idle" /\ pool # NULL /\ nodes # NoListing /\ start_node # NULL
        /\ UNCHANGED <<pool, pool_edge, nodes, num_nodes_listings, saved,
                       exits, i, at, verdict, table, origin, fresh, walk>>
        /\ pc' \in {"idle", "wild"}
    BY DEF transition_to_state, cursor
  <1>1. /\ pool \in Pool /\ pool.num_nodes \in Nat /\ table \in [0..pool.num_nodes -> Nat]
        /\ Listing(nodes) /\ nodes.cap \in Nat
        /\ start_node \in Nat \cup {WILD} /\ current_progstate \in Nat
    BY <1>0 DEF IndInv, TypeOK, PoolType, ListingType, ControlType, Listing, Pool
  <1> DEFINE temp == StateTransition(pool, start_node, call)
  <1>2. ASSUME start_node = WILD
        PROVE  current_progstate' \in Nat /\ start_node' \in Nat \cup {WILD} /\ WalkInGraph'
    <2>1. UNCHANGED <<current_progstate, start_node>>
      BY <1>2 DEF transition_to_state, cursor
    <2> QED
      BY <1>0, <1>1, <2>1 DEF IndInv, WalkInGraph, Closed
  <1>3. ASSUME start_node # WILD
        PROVE  current_progstate' \in Nat /\ start_node' \in Nat \cup {WILD} /\ WalkInGraph'
    <2>1. /\ temp # 0 /\ current_progstate' = temp
          /\ start_node' = Slot(nodes, temp)
      BY <1>3 DEF transition_to_state
    <2>2. start_node \in Nat
      BY <1>1, <1>3
    <2>3. PICK j \in 1..CellAt(pool, start_node).val :
                  temp = CellAt(pool, start_node + j).val
      BY <1>1, <2>1, <2>2, StateTransitionEdge
    <2>4. temp \in Nat
      <3>1. CellAt(pool, start_node).val \in Nat
        BY <1>1, <2>2, CellAtType
      <3>2. start_node + j \in Int
        BY <2>2, <3>1
      <3> QED
        BY <1>1, <2>3, <3>2, CellAtType
    <2> HIDE DEF temp
    <2>5. Slot(nodes, temp) \in Nat \cup {WILD}
      BY <1>1, <2>4 DEF Slot, Listing
    <2>6. WalkInGraph'
      <3> SUFFICES ASSUME walk, Closed
                   PROVE  /\ temp < pool.num_nodes
                          /\ Slot(nodes, temp) = table[temp]
        BY <1>0, <2>1 DEF WalkInGraph, Closed
      <3>1. /\ current_progstate \in 0..(pool.num_nodes - 1)
            /\ start_node = table[current_progstate] /\ ListingMatches
        BY <1>1 DEF IndInv, WalkInGraph, StatusInv
      <3>2. temp < pool.num_nodes
        BY <2>3, <3>1 DEF Closed
      <3> QED
        BY <1>1, <2>4, <3>1, <3>2 DEF ListingMatches, Slot
    <2> QED
      BY <2>1, <2>4, <2>5, <2>6
  <1>4. current_progstate' \in Nat /\ start_node' \in Nat \cup {WILD} /\ WalkInGraph'
    BY <1>2, <1>3
  <1>5. TypeOK'
    <2>1. PoolType' /\ ListingType' /\ SavedType'
      BY <1>0 DEF IndInv, TypeOK, PoolType, ListingType, SavedType
    <2>2. ControlType'
      BY <1>0, <1>4 DEF IndInv, TypeOK, ControlType
    <2>3. FlagType'
      BY <1>0 DEF IndInv, TypeOK, FlagType
    <2> QED
      BY <2>1, <2>2, <2>3 DEF TypeOK
  <1>6. StatusInv'
    BY <1>0 DEF IndInv, StatusInv, ListingMatches
  <1>7. LoopInv' /\ FreshInv'
    BY <1>0 DEF IndInv, LoopInv, FreshInv
  <1>8. TableWellFormed' /\ EdgeAtEnd' /\ VerifyAcceptsBuilt'
    BY <1>0 DEF IndInv, TableWellFormed, EdgeAtEnd, VerifyAcceptsBuilt
  <1>9. VerifiedListingMatches'
    BY <1>0 DEF IndInv, VerifiedListingMatches, ListingMatches
  <1> QED
    BY <1>4, <1>5, <1>6, <1>7, <1>8, <1>9 DEF IndInv

\* A step that changes nothing keeps it.
LEMMA StutterInd ==
    ASSUME IndInv, UNCHANGED vars
    PROVE  IndInv'
  <1> USE DEF vars, statics, cursor, frame, history
  <1>1. TypeOK'
    <2>1. PoolType' /\ ListingType' /\ SavedType'
      BY DEF IndInv, TypeOK, PoolType, ListingType, SavedType
    <2>2. ControlType'
      BY DEF IndInv, TypeOK, ControlType
    <2>3. FlagType'
      BY DEF IndInv, TypeOK, FlagType
    <2> QED
      BY <2>1, <2>2, <2>3 DEF TypeOK
  <1>2. StatusInv' /\ LoopInv' /\ FreshInv'
    BY DEF IndInv, StatusInv, ListingMatches, LoopInv, FreshInv
  <1>3. TableWellFormed' /\ EdgeAtEnd' /\ VerifyAcceptsBuilt'
    BY DEF IndInv, TableWellFormed, EdgeAtEnd, VerifyAcceptsBuilt
  <1>4. VerifiedListingMatches' /\ WalkInGraph'
    BY DEF IndInv, VerifiedListingMatches, ListingMatches, WalkInGraph, Closed
  <1> QED
    BY <1>1, <1>2, <1>3, <1>4 DEF IndInv

-----------------------------------------------------------------------------
(* The theorems. *)

\* The inductive invariant holds of every behaviour of the library, whatever the
\* order in which its client calls it.
THEOREM Inductive == Spec => []IndInv
  <1>1. Init => IndInv
    BY InitInd
  <1>2. IndInv /\ [Next]_vars => IndInv'
    BY ClientAssumption, InitializeEmptyInd, InitializeFromImageInd, DestroyInd, StoreInd, ErrorInd,
       RestartInd, AllocInd, FinalizeInd, VerifyCallInd, VerifyEntryInd,
       VerifyLoopInd, ResetInd, TransitionInd, StutterInd DEF Next
  <1> QED
    BY <1>1, <1>2, PTL DEF Spec

\* Every variable keeps its type.
THEOREM TypeCorrect == Spec => []TypeOK
  <1>1. IndInv => TypeOK
    BY DEF IndInv
  <1> QED
    BY <1>1, Inductive, PTL

\* alloc_node lays the nodes out so that verify_graph's scan can find them, and
\* storing, restarting and loading preserve that layout.
THEOREM TableCorrect == Spec => []TableWellFormed
  <1>1. IndInv => TableWellFormed
    BY DEF IndInv
  <1> QED
    BY <1>1, Inductive, PTL

\* While a graph is built alloc_node's pool_edge is always the end of its nodes.
THEOREM EdgeCorrect == Spec => []EdgeAtEnd
  <1>1. IndInv => EdgeAtEnd
    BY DEF IndInv
  <1> QED
    BY <1>1, Inductive, PTL

\* verify_graph rejects no finalized graph that alloc_node built, in this process
\* or in the one that stored it.
THEOREM VerifyCorrect == Spec => []VerifyAcceptsBuilt
  <1>1. IndInv => VerifyAcceptsBuilt
    BY DEF IndInv
  <1> QED
    BY <1>1, Inductive, PTL

\* When verify_graph has accepted a graph, entry k of the listing is node k of it,
\* whatever ids alloc_node was given and whatever listing there was before.
THEOREM ListingCorrect == Spec => []VerifiedListingMatches
  <1>1. IndInv => VerifiedListingMatches
    BY DEF IndInv
  <1> QED
    BY <1>1, Inductive, PTL

\* alloc_node grows the node listing in time for a process's first graph.
THEOREM FirstGraphSafe == Spec => []FirstGraphFitsListing
  <1>1. IndInv => FirstGraphFitsListing
    BY DEF IndInv, FreshInv, FirstGraphFitsListing
  <1> QED
    BY <1>1, Inductive, PTL

\* A walk through a verified graph whose edges stay inside it never loses the
\* node it stands on.
THEOREM WalkCorrect == Spec => []WalkInGraph
  <1>1. IndInv => WalkInGraph
    BY DEF IndInv
  <1> QED
    BY <1>1, Inductive, PTL

=============================================================================
