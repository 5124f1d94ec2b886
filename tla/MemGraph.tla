------------------------------ MODULE MemGraph ------------------------------
(***************************************************************************)
(* The serialized policy graph of memgraphlib: the layout of the memory    *)
(* pool and the pure functions that read and write it.                     *)
(*                                                                         *)
(* struct abstract_progstate and struct libcalls are both three unsigned   *)
(* longs, so what follows the metadata in the pool is an array of cells of *)
(* one size, each a node header or an edge.  An address inside the pool is *)
(* the index of a cell.                                                    *)
(***************************************************************************)
EXTENDS Integers, Sequences

CONSTANTS PoolCells,   \* cells that follow the metadata in MEMORY_POOL_SIZE
          NULL,        \* the null pointer
          WILD         \* a pointer that points at no cell of the live pool

Address == 0..(PoolCells - 1)

Cell == [magic : {"zero", "node", "edge"}, key : Nat, val : Nat]

Pool == [magic : {"graph", "other"}, graph_finalized : {0, 1},
         num_nodes : Nat, cells : [Address -> Cell]]

ASSUME PoolAssumption ==
    /\ PoolCells \in Nat \ {0}
    /\ NULL \notin Nat /\ WILD \notin Nat /\ NULL # WILD
    /\ NULL \notin Pool

ZeroCell == [magic |-> "zero", key |-> 0, val |-> 0]

\* Mutant: the node counts one edge more than it was given.
NodeCell_miscounts(id, n) == [magic |-> "node", key |-> id, val |-> n + 1]

\* struct abstract_progstate: key is its id, val its num_libcalls.
NodeCell(id, n) == [magic |-> "node", key |-> id, val |-> n]

\* struct libcalls: key is its libcallid, val its next_progstate.
EdgeCell(e) == [magic |-> "edge", key |-> e.libcallid, val |-> e.next_progstate]

Edge(Call, State) == [libcallid : Call, next_progstate : State]

\* The pool as create_pool leaves it.
EmptyPool == [magic |-> "graph", graph_finalized |-> 0, num_nodes |-> 0,
              cells |-> [a \in Address |-> ZeroCell]]

\* A cell past the end of the pool has neither magic number.
CellAt(p, a) == IF a \in Address THEN p.cells[a] ELSE ZeroCell

\* What alloc_node writes at address a: the node header, then its edges.
WriteNode(cells, a, id, edges) ==
    [k \in Address |->
        IF k = a THEN NodeCell(id, Len(edges))
        ELSE IF k - a \in 1..Len(edges) THEN EdgeCell(edges[k - a])
        ELSE cells[k]]

\* Mutant: a graph that is not finalized gets the code ERROR_INVALID_ARG.
HeaderVerdict_wrong_code(p) ==
    IF p = NULL THEN -1
    ELSE IF p.graph_finalized = 0 THEN -4
    ELSE IF p.magic # "graph" THEN -1
    ELSE 1

\* The checks verify_graph makes before its loop; 1 means none has failed.
HeaderVerdict(p) ==
    IF p = NULL THEN -1                       \* ERROR_INVALID_GRAPH
    ELSE IF p.graph_finalized = 0 THEN -5     \* ERROR_INVALID_STATE
    ELSE IF p.magic # "graph" THEN -1
    ELSE 1

\* One turn of the loop of verify_graph on the node at address a.
NodeOK(p, a) == CellAt(p, a).magic = "node"

\* Mutant: the loop over the edges runs once too often.
EdgesOK_one_more(p, a) ==
    \A j \in 1..(CellAt(p, a).val + 1) : CellAt(p, a + j).magic = "edge"

EdgesOK(p, a) ==
    \A j \in 1..CellAt(p, a).val : CellAt(p, a + j).magic = "edge"

\* Positions, among the edges of the node at a, of the edges labelled call.
Matches(p, a, call) ==
    {j \in 1..CellAt(p, a).val : CellAt(p, a + j).key = call}

\* Mutant: an error code instead of 0, which the callers take for a state.
StateTransition_error_code(p, a, call) ==
    IF Matches(p, a, call) = {} THEN -5
    ELSE CellAt(p, a + (CHOOSE j \in Matches(p, a, call) : TRUE)).val

\* Mutant: the position of the edge instead of where it leads.
StateTransition_position(p, a, call) ==
    IF CellAt(p, a).magic # "node" \/ Matches(p, a, call) = {} THEN 0
    ELSE CHOOSE j \in Matches(p, a, call) : \A k \in Matches(p, a, call) : j <= k

\* The value is_state_transition_valid returns when start_node is a: the
\* next_progstate of the first edge labelled call, and 0 to say "invalid".
StateTransition(p, a, call) ==
    IF \/ CellAt(p, a).magic # "node"
       \/ CellAt(p, a + 1).magic # "edge"
       \/ Matches(p, a, call) = {}
    THEN 0
    ELSE LET m == CHOOSE j \in Matches(p, a, call) :
                     \A k \in Matches(p, a, call) : j <= k
         IN  CellAt(p, a + m).val

\* The address of the cell after the node at a and its edges.
NextNode(p, a) == a + 1 + CellAt(p, a).val

=============================================================================
