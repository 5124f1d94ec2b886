------------------------------ MODULE UserGraph -----------------------------
(***************************************************************************)
(* memgraphlib in user space: the statics of memgraph.c and its exported   *)
(* functions, called in any order by a single-threaded client that keeps   *)
(* the library's contract (no build or query call before there is a graph  *)
(* to build or query).  The toolchain builds a graph, finalizes and stores *)
(* it; this process or a later one loads, verifies and walks it.           *)
(*                                                                         *)
(* verify_graph is stepped node by node: pc and the locals i and at are    *)
(* the program counter and the loop variables of that function.            *)
(***************************************************************************)
EXTENDS MemGraph

CONSTANTS Chunk,       \* DEFAULT_NUMBER_OF_NODESLISTINGS
          Id,          \* ids the client may give to a node
          EdgeLists,   \* edge lists the client may give to a node
          Call,        \* library calls the client may ask about
          MaxNodes     \* bound: the client allocates no further node

ASSUME ClientAssumption ==
    /\ Chunk \in Nat /\ Chunk > 1
    /\ Id \subseteq Nat
    /\ EdgeLists \subseteq Seq(Edge(Nat, Nat))
    /\ Call \subseteq Nat
    /\ MaxNodes \in Nat

VARIABLES
    pool, pool_edge, nodes, num_nodes_listings,   \* the statics of memgraph.c
    current_progstate, start_node,
    saved,    \* the file store_graph wrote, NULL when it is missing or cut short
    pc,       \* where the process is; "pool" and "listing" name the array that
              \* was overrun, "wild" a read through a pointer to no cell
    exits,    \* whether the caller of verify_graph exits when it fails
    i, at,    \* the loop variables of verify_graph
    verdict,  \* its last result, 0 once the graph has changed since
    table,    \* history: address of every node allocated, then of the end
    origin,   \* history: "built", "loaded", or "mixed" (nodes added to a load)
    fresh,    \* history: one graph, never re-initialized, node n given id n
    walk      \* history: reset_progstate has run on a graph that verified

statics == <<pool, pool_edge, nodes, num_nodes_listings>>
cursor  == <<current_progstate, start_node, walk>>
frame   == <<exits, i, at>>
history == <<table, origin, fresh>>
vars    == <<statics, cursor, saved, pc, frame, verdict, history>>

\* The value of nodes when it is NULL.
NoListing == [cap |-> -1, slot |-> <<>>]

NewListing(c) == [cap |-> c, slot |-> [k \in 0..(c - 1) |-> WILD]]

\* l is an array of l.cap pointers to nodes, some of them not yet written.
Listing(l) == /\ l.cap \in Nat
              /\ l = [cap |-> l.cap, slot |-> l.slot]
              /\ l.slot \in [0..(l.cap - 1) -> Nat \cup {WILD}]

\* REALLOC keeps the entries that fit.
Resize(l, c) ==
    [cap |-> c, slot |-> [k \in 0..(c - 1) |-> IF k < l.cap THEN l.slot[k] ELSE WILD]]

\* nodes[k] = a, for an entry of the array.
SetSlot(l, k, a) == [cap |-> l.cap, slot |-> [l.slot EXCEPT ![k] = a]]

\* Mutant: states are counted from 1.
Slot_from_one(l, k) == IF k - 1 \in 0..(l.cap - 1) THEN l.slot[k - 1] ELSE WILD

\* nodes[k]; a read past the end of the array yields no node.
Slot(l, k) == IF k < l.cap THEN l.slot[k] ELSE WILD

PoolType ==
    /\ pool \in Pool \cup {NULL}
    /\ pool # NULL => /\ pool.num_nodes <= MaxNodes
                      /\ table \in [0..pool.num_nodes -> Nat]
    /\ pool_edge \in 0..PoolCells

ListingType ==
    /\ nodes # NoListing => Listing(nodes)
    /\ num_nodes_listings \in Nat

SavedType ==
    saved # NULL => /\ saved.pool \in Pool
                    /\ saved.pool.num_nodes <= MaxNodes
                    /\ saved.table \in [0..saved.pool.num_nodes -> Nat]
                    /\ saved.mixed \in BOOLEAN

ControlType ==
    /\ current_progstate \in Nat
    /\ start_node \in Nat \cup {NULL, WILD}
    /\ pc \in {"idle", "entry", "loop", "exited", "pool", "listing", "wild"}
    /\ i \in Nat /\ at \in Nat
    /\ verdict \in {0, 1, -1, -2, -3, -5}
    /\ origin \in {"built", "loaded", "mixed"}

FlagType == exits \in BOOLEAN /\ fresh \in BOOLEAN /\ walk \in BOOLEAN

\* The statics, the file and the locals of verify_graph keep their types; pool_edge
\* never passes the end of the pool and verify_graph returns one of its codes.
TypeOK == PoolType /\ ListingType /\ SavedType /\ ControlType /\ FlagType

EmptyTable == [k \in {0} |-> 0]

Init ==
    /\ pool = NULL /\ pool_edge = 0 /\ nodes = NoListing /\ num_nodes_listings = 0
    /\ current_progstate = 0 /\ start_node = NULL /\ walk = FALSE
    /\ saved = NULL
    /\ pc = "idle"
    /\ exits = FALSE /\ i = 0 /\ at = 0
    /\ verdict = 0
    /\ table = EmptyTable /\ origin = "built" /\ fresh = TRUE

-----------------------------------------------------------------------------
(* The pool allocator. *)

\* initialize_graph(NULL, 0): with size 0 the memset clears nothing, so a pool
\* that exists keeps its nodes; the listing is dropped without being freed.
initialize_empty ==
    /\ pc = "idle"
    /\ IF pool = NULL
       THEN /\ pool' = EmptyPool /\ pool_edge' = 0
            /\ table' = EmptyTable /\ origin' = "built"
            /\ UNCHANGED fresh
       ELSE /\ fresh' = FALSE
            /\ UNCHANGED <<pool, pool_edge, table, origin>>
    /\ nodes' = NoListing
    /\ verdict' = 0 /\ walk' = FALSE
    /\ UNCHANGED <<num_nodes_listings, current_progstate, start_node, saved, pc, frame>>

\* initialize_graph(buffer, MEMORY_POOL_SIZE) and load_graph replace the whole
\* pool and verify it.  pool_edge moves only when the pool is created.
initialize_from_image ==
    /\ pc = "idle" /\ saved # NULL
    /\ pool' = saved.pool
    /\ pool_edge' = IF pool = NULL THEN 0 ELSE pool_edge
    /\ table' = saved.table
    /\ origin' = IF saved.mixed THEN "mixed" ELSE "loaded"
    /\ fresh' = FALSE
    /\ pc' = "entry" /\ exits' = TRUE
    /\ verdict' = 0 /\ walk' = FALSE
    /\ UNCHANGED <<nodes, num_nodes_listings, current_progstate, start_node, saved, i, at>>

\* destroy_graph: start_node now dangles, num_nodes_listings keeps its value.
destroy_graph ==
    /\ pc = "idle"
    /\ pool' = NULL /\ nodes' = NoListing
    /\ start_node' = IF start_node = NULL THEN NULL ELSE WILD
    /\ table' = EmptyTable /\ origin' = "built" /\ fresh' = FALSE
    /\ verdict' = 0 /\ walk' = FALSE
    /\ UNCHANGED <<pool_edge, num_nodes_listings, current_progstate, saved, pc, frame>>

\* store_graph writes the whole pool.
store_graph ==
    /\ pc = "idle" /\ pool # NULL
    /\ saved' = [pool |-> pool, table |-> table, mixed |-> origin = "mixed"]
    /\ UNCHANGED <<statics, cursor, pc, frame, verdict, history>>

\* The failures that end the process: malloc in create_pool, a file that cannot
\* be opened or read, and a write of store_graph that leaves the file cut short.
file_or_memory_error ==
    /\ pc = "idle"
    /\ pc' = "exited"
    /\ saved' \in {saved, NULL}
    /\ UNCHANGED <<statics, cursor, frame, verdict, history>>

\* The next process of the toolchain starts with fresh statics and finds the file.
restart ==
    /\ pc = "exited"
    /\ pool' = NULL /\ pool_edge' = 0 /\ nodes' = NoListing /\ num_nodes_listings' = 0
    /\ current_progstate' = 0 /\ start_node' = NULL /\ walk' = FALSE
    /\ pc' = "idle"
    /\ exits' = FALSE /\ i' = 0 /\ at' = 0
    /\ verdict' = 0
    /\ table' = EmptyTable /\ origin' = "built" /\ fresh' = TRUE
    /\ UNCHANGED saved

-----------------------------------------------------------------------------
(* Building the graph. *)

\* Mutant: the listing grows one node too late.
GrownListing_late ==
    IF nodes = NoListing THEN NewListing(Chunk)
    ELSE IF pool.num_nodes > num_nodes_listings
         THEN Resize(nodes, num_nodes_listings + Chunk)
         ELSE nodes

\* The listing alloc_node is about to write nodes[id] to.  The first MALLOC does
\* not record its size in num_nodes_listings.
GrownListing ==
    IF nodes = NoListing THEN NewListing(Chunk)
    ELSE IF pool.num_nodes >= num_nodes_listings
         THEN Resize(nodes, num_nodes_listings + Chunk)
         ELSE nodes

\* Mutant: the new size is not recorded.
GrownCount_kept == num_nodes_listings

GrownCount ==
    IF nodes # NoListing /\ pool.num_nodes >= num_nodes_listings
    THEN num_nodes_listings + Chunk
    ELSE num_nodes_listings

\* Mutant: pool_edge moves past the node and not past its edges.
NodeEnd_header_only(a, edges) == a + 1

\* Where pool_edge is after a node with these edges was written at a.
NodeEnd(a, edges) == a + 1 + Len(edges)

\* The node is written at pool_edge with no check that it still fits the pool,
\* and the listing at id with no check that id is below its size.
alloc_node(id, edges) ==
    /\ pc = "idle" /\ pool # NULL
    /\ pool.num_nodes < MaxNodes
    /\ num_nodes_listings' = GrownCount
    /\ fresh' = (fresh /\ id = pool.num_nodes)
    /\ verdict' = 0 /\ walk' = FALSE
    /\ LET end == NodeEnd(pool_edge, edges)
           n   == pool.num_nodes
       IN  IF end > PoolCells \/ id >= GrownListing.cap
           THEN /\ pc' = IF end > PoolCells THEN "pool" ELSE "listing"
                /\ nodes' = GrownListing
                /\ UNCHANGED <<pool, pool_edge, table, origin>>
           ELSE /\ nodes' = SetSlot(GrownListing, id, pool_edge)
                /\ pool' = [pool EXCEPT !.num_nodes = n + 1,
                              !.cells = WriteNode(pool.cells, pool_edge, id, edges)]
                /\ pool_edge' = end
                /\ table' = [k \in 0..(n + 1) |-> IF k <= n THEN table[k]
                                                  ELSE pool_edge + 1 + Len(edges)]
                /\ origin' = IF origin = "built" THEN "built" ELSE "mixed"
                /\ UNCHANGED pc
    /\ UNCHANGED <<current_progstate, start_node, saved, frame>>

finalize_graph ==
    /\ pc = "idle" /\ pool # NULL
    /\ pool' = [pool EXCEPT !.graph_finalized = 1]
    /\ verdict' = 0
    /\ UNCHANGED <<pool_edge, nodes, num_nodes_listings, cursor, saved, pc, frame, history>>

-----------------------------------------------------------------------------
(* Verifying it. *)

verify_graph ==
    /\ pc = "idle"
    /\ pc' = "entry" /\ exits' = FALSE
    /\ verdict' = 0
    /\ UNCHANGED <<statics, cursor, saved, i, at, history>>

VerifyReturns(v) ==
    /\ verdict' = v /\ i' = 0 /\ at' = 0
    /\ pc' = IF v # 1 /\ exits THEN "exited" ELSE "idle"

\* The header checks; a listing that exists is reused whatever its size.
verify_entry ==
    /\ pc = "entry"
    /\ IF HeaderVerdict(pool) # 1
       THEN /\ VerifyReturns(HeaderVerdict(pool))
            /\ UNCHANGED nodes
       ELSE /\ nodes' = IF nodes = NoListing THEN NewListing(pool.num_nodes) ELSE nodes
            /\ i' = 0 /\ at' = 0
            /\ pc' = "loop"
            /\ UNCHANGED verdict
    /\ UNCHANGED <<pool, pool_edge, num_nodes_listings, cursor, saved, exits, history>>

\* Mutant: the node is entered under the id it carries.
ListingIndex_by_id == CellAt(pool, at).key

\* The entry of the listing that receives the node under verification.
ListingIndex == i

\* One node: it is entered in the listing under its position before its magic
\* number and those of its edges are looked at.
verify_loop ==
    /\ pc = "loop"
    /\ IF i >= pool.num_nodes
       THEN VerifyReturns(1) /\ UNCHANGED nodes
       ELSE IF ListingIndex >= nodes.cap
       THEN pc' = "listing" /\ UNCHANGED <<nodes, i, at, verdict>>
       ELSE /\ nodes' = SetSlot(nodes, ListingIndex, at)
            /\ IF ~NodeOK(pool, at) THEN VerifyReturns(-2)
               ELSE IF ~EdgesOK(pool, at) THEN VerifyReturns(-3)
               ELSE /\ i' = i + 1 /\ at' = NextNode(pool, at)
                    /\ UNCHANGED <<pc, verdict>>
    /\ UNCHANGED <<pool, pool_edge, num_nodes_listings, cursor, saved, exits, history>>

-----------------------------------------------------------------------------
(* Querying it. *)

reset_progstate ==
    /\ pc = "idle" /\ nodes # NoListing
    /\ current_progstate' = 0
    /\ start_node' = Slot(nodes, 0)
    /\ walk' = (verdict = 1 /\ origin # "mixed" /\ pool.num_nodes > 0)
    /\ UNCHANGED <<statics, saved, pc, frame, verdict, history>>

\* transition_to_state with is_state_transition_valid inside it: nothing changes
\* unless a non-zero next state is found, and that state is not range-checked.
transition_to_state(call) ==
    /\ pc = "idle" /\ pool # NULL /\ nodes # NoListing /\ start_node # NULL
    /\ current_progstate < pool.num_nodes
    /\ IF start_node = WILD
       THEN pc' = "wild" /\ UNCHANGED cursor
       ELSE LET temp == StateTransition(pool, start_node, call)
            IN  /\ temp # 0
                /\ current_progstate' = temp
                /\ start_node' = Slot(nodes, temp)
                /\ UNCHANGED <<pc, walk>>
    /\ UNCHANGED <<statics, saved, frame, verdict, history>>

Next ==
    \/ initialize_empty
    \/ initialize_from_image
    \/ destroy_graph
    \/ store_graph
    \/ file_or_memory_error
    \/ restart
    \/ \E id \in Id, edges \in EdgeLists : alloc_node(id, edges)
    \/ finalize_graph
    \/ verify_graph
    \/ verify_entry
    \/ verify_loop
    \/ reset_progstate
    \/ \E call \in Call : transition_to_state(call)

Spec == Init /\ [][Next]_vars

-----------------------------------------------------------------------------
(* Properties. *)

\* t lists, for the graph in pool p, the address of every node and of the end:
\* the nodes lie one after the other from the start of the node table, each with
\* its magic number and followed by as many edges as it counts.
WellFormed(p, t) ==
    /\ DOMAIN t = 0..p.num_nodes
    /\ t[0] = 0 /\ t[p.num_nodes] <= PoolCells
    /\ \A k \in 0..(p.num_nodes - 1) : /\ NodeOK(p, t[k])
                                       /\ EdgesOK(p, t[k])
                                       /\ t[k + 1] = NextNode(p, t[k])
                                       /\ t[k + 1] <= t[p.num_nodes]

\* The pool holds exactly the nodes alloc_node was given, in order, as long as
\* no node was added to a graph that had been loaded (pool_edge does not follow
\* a load); storing, restarting and loading keep it so.
TableWellFormed == pool # NULL /\ origin # "mixed" => WellFormed(pool, table)

\* In a graph built in this process pool_edge is the end of the last node, so
\* that alloc_node never writes over a node it wrote before.
EdgeAtEnd ==
    pool # NULL /\ origin = "built" => pool_edge = table[pool.num_nodes]

\* verify_graph refuses such a graph only because it is not finalized; so a
\* graph stored after finalize_graph is loaded by any later process, which does
\* not exit in load_graph (memgraph.c: "can be loaded back using load_graph").
VerifyAcceptsBuilt ==
    origin # "mixed" /\ pool # NULL =>
        \/ verdict \in {0, 1}
        \/ verdict = -5 /\ pool.graph_finalized = 0

\* Entry k of the node listing points at node k, for every node.
ListingMatches ==
    /\ pool # NULL /\ nodes # NoListing
    /\ pool.num_nodes <= nodes.cap
    /\ \A k \in 0..(pool.num_nodes - 1) : nodes.slot[k] = table[k]

\* Once verify_graph has accepted such a graph the node listing matches it.
VerifiedListingMatches == verdict = 1 /\ origin # "mixed" => ListingMatches

\* The first graph a process builds, with node n given id n, never overruns the
\* node listing, whatever its size: alloc_node grows the listing in time.
FirstGraphFitsListing == fresh => pc # "listing"

\* Every edge leads to a node of the graph.
Closed ==
    \A k \in 0..(pool.num_nodes - 1) : \A j \in 1..CellAt(pool, table[k]).val :
        CellAt(pool, table[k] + j).val < pool.num_nodes

\* Walking a verified graph whose edges stay inside it, current_progstate is
\* always a node and start_node always points at that node.
WalkInGraph ==
    walk /\ Closed => /\ current_progstate < pool.num_nodes
                      /\ start_node = table[current_progstate]

\* The strengthening that makes the invariants above inductive: where the loop
\* of verify_graph stands, how the listing relates to num_nodes_listings during
\* the first graph, and what the file and an ongoing walk rest on.
LoopInv ==
    pc = "loop" =>
        /\ pool # NULL /\ nodes # NoListing
        /\ origin # "mixed" =>
              /\ i <= pool.num_nodes /\ i <= nodes.cap
              /\ at = table[i]
              /\ \A k \in 0..(i - 1) : nodes.slot[k] = table[k]

FreshInv ==
    fresh => /\ pc # "listing"
             /\ nodes = NoListing =>
                   /\ num_nodes_listings = 0
                   /\ pool # NULL => pool.num_nodes = 0
             /\ nodes # NoListing =>
                   /\ num_nodes_listings <= nodes.cap
                   /\ pool # NULL /\ pool.num_nodes <= nodes.cap
                   /\ \/ pool.num_nodes <= num_nodes_listings
                      \/ num_nodes_listings = 0 /\ pool.num_nodes <= 1

StatusInv ==
    /\ nodes # NoListing => pool # NULL
    /\ verdict = 1 => pool # NULL
    /\ pool # NULL => pool.magic = "graph"
    /\ saved # NULL => /\ saved.pool.magic = "graph"
                       /\ ~saved.mixed => WellFormed(saved.pool, saved.table)
    /\ walk => ListingMatches /\ origin # "mixed"

\* The inductive invariant: what every function of memgraph.c preserves.
IndInv ==
    /\ TypeOK /\ StatusInv /\ LoopInv /\ FreshInv
    /\ TableWellFormed /\ EdgeAtEnd /\ VerifyAcceptsBuilt
    /\ VerifiedListingMatches /\ WalkInGraph

=============================================================================
