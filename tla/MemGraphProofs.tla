--------------------------- MODULE MemGraphProofs ---------------------------
(***************************************************************************)
(* Lemmas about the layout of the pool and the functions that read and     *)
(* write it, for pools of every size.  The proofs about the library in     *)
(* user space and about the system calls rest on them.                     *)
(***************************************************************************)
EXTENDS MemGraph, NaturalsInduction, WellFoundedInduction, TLAPS

\* A cell read from a table of cells is a cell, also past its end.
LEMMA CellsType ==
    ASSUME NEW p, p.cells \in [Address -> Cell], NEW a \in Int
    PROVE  /\ CellAt(p, a) \in Cell
           /\ CellAt(p, a).val \in Nat /\ CellAt(p, a).key \in Nat
  <1>1. CellAt(p, a) \in Cell
    BY DEF CellAt, Cell, ZeroCell
  <1> QED
    BY <1>1 DEF Cell

\* So is a cell read from a pool of the right type.
LEMMA CellAtType ==
    ASSUME NEW p \in Pool, NEW a \in Int
    PROVE  /\ CellAt(p, a) \in Cell
           /\ CellAt(p, a).val \in Nat /\ CellAt(p, a).key \in Nat
  <1>1. p.cells \in [Address -> Cell]
    BY DEF Pool
  <1> QED
    BY <1>1, CellsType

\* What alloc_node writes is again an array of cells.
LEMMA WriteNodeType ==
    ASSUME NEW cells \in [Address -> Cell], NEW a \in Nat, NEW id \in Nat,
           NEW edges \in Seq(Edge(Nat, Nat))
    PROVE  WriteNode(cells, a, id, edges) \in [Address -> Cell]
  <1> SUFFICES ASSUME NEW k \in Address
               PROVE  WriteNode(cells, a, id, edges)[k] \in Cell
    BY DEF WriteNode
  <1>1. k \in Nat
    BY PoolAssumption DEF Address
  <1>2. Len(edges) \in Nat
    OBVIOUS
  <1>3. CASE k = a
    BY <1>2, <1>3 DEF WriteNode, NodeCell, Cell
  <1>4. CASE k # a /\ k - a \in 1..Len(edges)
    <2>1. edges[k - a] \in Edge(Nat, Nat)
      BY <1>4
    <2> QED
      BY <2>1, <1>4 DEF WriteNode, EdgeCell, Edge, Cell
  <1>5. CASE k # a /\ k - a \notin 1..Len(edges)
    BY <1>5 DEF WriteNode
  <1> QED
    BY <1>3, <1>4, <1>5

\* The node just written is complete, and no cell below it has changed.
LEMMA WriteNodeEffect ==
    ASSUME NEW p \in Pool, NEW q \in Pool, NEW a \in Nat, NEW id \in Nat,
           NEW edges \in Seq(Edge(Nat, Nat)),
           a + 1 + Len(edges) <= PoolCells,
           q.cells = WriteNode(p.cells, a, id, edges)
    PROVE  /\ NodeOK(q, a) /\ EdgesOK(q, a)
           /\ NextNode(q, a) = a + 1 + Len(edges)
           /\ \A b \in Nat : b < a => CellAt(q, b) = CellAt(p, b)
  <1>1. Len(edges) \in Nat /\ PoolCells \in Nat
    BY PoolAssumption
  <1>2. CellAt(q, a) = NodeCell(id, Len(edges))
    BY <1>1 DEF CellAt, Address, WriteNode
  <1>3. ASSUME NEW j \in 1..Len(edges)
        PROVE  CellAt(q, a + j) = EdgeCell(edges[j])
    <2>1. a + j \in Address /\ a + j # a /\ (a + j) - a = j
      BY <1>1 DEF Address
    <2> QED
      BY <2>1 DEF CellAt, WriteNode
  <1>4. ASSUME NEW b \in Nat, b < a
        PROVE  CellAt(q, b) = CellAt(p, b)
    <2>1. b \in Address /\ b # a /\ b - a \notin 1..Len(edges)
      BY <1>1, <1>4 DEF Address
    <2> QED
      BY <2>1 DEF CellAt, WriteNode
  <1>5. CellAt(q, a).magic = "node" /\ CellAt(q, a).val = Len(edges)
    BY <1>2 DEF NodeCell
  <1>6. ASSUME NEW j \in 1..Len(edges)
        PROVE  CellAt(q, a + j).magic = "edge"
    <2>1. CellAt(q, a + j) = EdgeCell(edges[j])
      BY <1>3
    <2> QED
      BY <2>1 DEF EdgeCell
  <1>7. NodeOK(q, a)
    BY <1>5 DEF NodeOK
  <1>8. EdgesOK(q, a)
    BY <1>5, <1>6 DEF EdgesOK
  <1>9. NextNode(q, a) = a + 1 + Len(edges)
    BY <1>5 DEF NextNode
  <1> QED
    BY <1>4, <1>7, <1>8, <1>9

\* A non-empty set of naturals has a least element.
LEMMA LeastNatural ==
    ASSUME NEW S, S \subseteq Nat, S # {}
    PROVE  \E j \in S : \A k \in S : j <= k
  <1>1. PICK j \in S : \A k \in S : ~(<<k, j>> \in OpToRel(<, Nat))
    BY NatLessThanWellFounded, WFMin
  <1>2. ASSUME NEW k \in S PROVE ~(k < j)
    <2>1. <<k, j>> \in Nat \X Nat /\ <<k, j>>[1] = k /\ <<k, j>>[2] = j
      OBVIOUS
    <2> QED
      BY <1>1, <2>1 DEF OpToRel
  <1>3. j \in Nat /\ \A k \in S : k \in Nat
    OBVIOUS
  <1> QED
    BY <1>2, <1>3

\* The state is_state_transition_valid returns, when it is not 0, is the target
\* of an edge of the node it looks at.
LEMMA TransitionEdge ==
    ASSUME NEW p, p.cells \in [Address -> Cell], NEW a \in Int, NEW call,
           StateTransition(p, a, call) # 0
    PROVE  \E j \in 1..CellAt(p, a).val :
              /\ CellAt(p, a + j).key = call
              /\ StateTransition(p, a, call) = CellAt(p, a + j).val
  <1> DEFINE M == Matches(p, a, call)
  <1>1. CellAt(p, a).val \in Nat
    BY CellsType
  <1>2. M # {} /\ M \subseteq 1..CellAt(p, a).val
    BY DEF StateTransition, Matches
  <1>3. M \subseteq Nat
    BY <1>1, <1>2
  <1>4. \E j \in M : \A k \in M : j <= k
    BY <1>2, <1>3, LeastNatural
  <1>5. PICK m \in M : StateTransition(p, a, call) = CellAt(p, a + m).val
    BY <1>4 DEF StateTransition
  <1> QED
    BY <1>2, <1>5 DEF Matches

\* The same for a pool.
LEMMA StateTransitionEdge ==
    ASSUME NEW p \in Pool, NEW a \in Nat, NEW call, StateTransition(p, a, call) # 0
    PROVE  \E j \in 1..CellAt(p, a).val :
              /\ CellAt(p, a + j).key = call
              /\ StateTransition(p, a, call) = CellAt(p, a + j).val
  <1>1. p.cells \in [Address -> Cell] /\ a \in Int
    BY DEF Pool
  <1> QED
    BY <1>1, TransitionEdge

\* What is_state_transition_valid returns is a number, whatever it reads.
LEMMA TransitionType ==
    ASSUME NEW p, p.cells \in [Address -> Cell], NEW a \in Int, NEW call
    PROVE  StateTransition(p, a, call) \in Nat
  <1>1. CASE StateTransition(p, a, call) = 0
    BY <1>1
  <1>2. CASE StateTransition(p, a, call) # 0
    <2>1. PICK j \in 1..CellAt(p, a).val : StateTransition(p, a, call) = CellAt(p, a + j).val
      BY <1>2, TransitionEdge
    <2>2. a + j \in Int
      BY CellsType
    <2> QED
      BY <2>1, <2>2, CellsType
  <1> QED
    BY <1>1, <1>2

\* A node that passes verify_graph ends within the pool, edges included.
LEMMA NextNodeType ==
    ASSUME NEW p, p.cells \in [Address -> Cell], NEW a \in Int, NodeOK(p, a), EdgesOK(p, a)
    PROVE  NextNode(p, a) \in 1..PoolCells
  <1> DEFINE n == CellAt(p, a).val
  <1>1. n \in Nat /\ PoolCells \in Nat
    BY CellsType, PoolAssumption
  <1>2. a \in 0..(PoolCells - 1)
    BY DEF NodeOK, CellAt, ZeroCell, Address
  <1>3. n # 0 => a + n \in 0..(PoolCells - 1)
    <2>1. n # 0 => CellAt(p, a + n).magic = "edge"
      BY <1>1 DEF EdgesOK
    <2> QED
      BY <2>1 DEF CellAt, ZeroCell, Address
  <1>4. NextNode(p, a) = a + 1 + n
    BY DEF NextNode
  <1> HIDE DEF n
  <1> QED
    BY <1>1, <1>2, <1>3, <1>4

=============================================================================
