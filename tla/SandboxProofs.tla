---------------------------- MODULE SandboxProofs ---------------------------
(***************************************************************************)
(* TLAPS proofs about Sandbox, for every set of tasks, policies and sizes. *)
(***************************************************************************)
EXTENDS Sandbox, MemGraphProofs, FiniteSetTheorems

-----------------------------------------------------------------------------
(* The image of a policy. *)

PolicyType == Seq(Seq(Edge(Nat, Nat)))

\* Start is well defined: there is a function that satisfies its recursion.
LEMMA StartExists ==
    ASSUME NEW policy \in PolicyType, NEW m \in Nat, m <= Len(policy)
    PROVE  \E f : f = [s \in 0..m |-> IF s = 0 THEN 0 ELSE f[s - 1] + 1 + Len(policy[s])]
  <1> DEFINE Body(f, n) == [s \in 0..n |-> IF s = 0 THEN 0 ELSE f[s - 1] + 1 + Len(policy[s])]
             Bad == {n \in Nat : n <= Len(policy) /\ ~ \E f : f = Body(f, n)}
  <1>1. SUFFICES Bad = {}
    OBVIOUS
  <1>2. SUFFICES ASSUME Bad # {} PROVE FALSE
    OBVIOUS
  <1>3. PICK n \in Bad : \A k \in Bad : n <= k
    BY <1>2, LeastNatural
  <1>4. CASE n = 0
    <2> DEFINE z == [s \in 0..0 |-> 0]
    <2>1. z = Body(z, 0)
      OBVIOUS
    <2>2. \E f : f = Body(f, 0)
      BY <2>1
    <2> QED
      BY <1>3, <1>4, <2>2
  <1>5. CASE n # 0
    <2>0. n \in Nat /\ n <= Len(policy) /\ Len(policy) \in Nat
      BY DEF PolicyType
    <2>1. n - 1 \in Nat /\ n - 1 <= Len(policy) /\ n - 1 \notin Bad
      <3> HIDE DEF Bad
      <3> QED
        BY <1>3, <1>5, <2>0
    <2>2. PICK f : f = Body(f, n - 1)
      BY <2>1
    <2> DEFINE g == [s \in 0..n |-> IF s < n THEN f[s] ELSE f[n - 1] + 1 + Len(policy[n])]
    <2>3. ASSUME NEW s \in 0..n
          PROVE  g[s] = IF s = 0 THEN 0 ELSE g[s - 1] + 1 + Len(policy[s])
      <3>1. CASE s = n
        BY <1>5, <2>1, <3>1
      <3>2. CASE s < n
        <4>1. s \in 0..(n - 1)
          BY <3>2, <2>1
        <4>2. f[s] = IF s = 0 THEN 0 ELSE f[s - 1] + 1 + Len(policy[s])
          BY <4>1, <2>2
        <4>3. s # 0 => g[s - 1] = f[s - 1]
          BY <4>1, <2>1
        <4>4. g[s] = f[s]
          BY <3>2
        <4> QED
          BY <4>2, <4>3, <4>4
      <3> QED
        BY <3>1, <3>2
    <2>4. g = Body(g, n)
      BY <2>3
    <2> QED
      BY <1>3, <2>4
  <1> QED
    BY <1>4, <1>5

\* The recursion Start satisfies.
LEMMA StartDef ==
    ASSUME NEW policy \in PolicyType
    PROVE  Start(policy) = [s \in 0..Len(policy) |->
              IF s = 0 THEN 0 ELSE Start(policy)[s - 1] + 1 + Len(policy[s])]
  <1>1. Len(policy) \in Nat /\ Len(policy) <= Len(policy)
    BY DEF PolicyType
  <1>2. \E f : f = [s \in 0..Len(policy) |-> IF s = 0 THEN 0 ELSE f[s - 1] + 1 + Len(policy[s])]
    BY <1>1, StartExists
  <1> QED
    BY <1>2 DEF Start

\* The nodes lie one after the other from cell 0 on, each followed by its edges.
LEMMA StartStep ==
    ASSUME NEW policy \in PolicyType
    PROVE  /\ Start(policy)[0] = 0
           /\ \A s \in 0..(Len(policy) - 1) :
                 Start(policy)[s + 1] = Start(policy)[s] + 1 + Len(policy[s + 1])
  <1>1. Len(policy) \in Nat
    BY DEF PolicyType
  <1> DEFINE f == Start(policy)
  <1>2. f = [s \in 0..Len(policy) |-> IF s = 0 THEN 0 ELSE f[s - 1] + 1 + Len(policy[s])]
    BY StartDef
  <1> HIDE DEF f
  <1>3. f[0] = 0
    BY <1>1, <1>2
  <1>4. ASSUME NEW s \in 0..(Len(policy) - 1)
        PROVE  f[s + 1] = f[s] + 1 + Len(policy[s + 1])
    <2>1. s + 1 \in 0..Len(policy) /\ s + 1 # 0 /\ (s + 1) - 1 = s
      BY <1>1
    <2>2. f[s + 1] = IF s + 1 = 0 THEN 0 ELSE f[(s + 1) - 1] + 1 + Len(policy[s + 1])
      BY <1>2, <2>1
    <2> QED
      BY <2>1, <2>2
  <1> QED
    BY <1>3, <1>4 DEF f

\* States of a policy are sequences of edges.
LEMMA PolicyEdges ==
    ASSUME NEW policy \in PolicyType
    PROVE  /\ Len(policy) \in Nat
           /\ \A s \in 1..Len(policy) : /\ policy[s] \in Seq(Edge(Nat, Nat)) /\ Len(policy[s]) \in Nat
                                        /\ \A j \in 1..Len(policy[s]) : policy[s][j] \in Edge(Nat, Nat)
  <1>1. Len(policy) \in Nat
    BY DEF PolicyType
  <1>2. ASSUME NEW s \in 1..Len(policy)
        PROVE  policy[s] \in Seq(Edge(Nat, Nat))
    BY <1>1 DEF PolicyType
  <1>3. ASSUME NEW s \in 1..Len(policy)
        PROVE  Len(policy[s]) \in Nat /\ \A j \in 1..Len(policy[s]) : policy[s][j] \in Edge(Nat, Nat)
    BY <1>2
  <1> QED
    BY <1>1, <1>2, <1>3

\* Nodes lie in the order of the states, each after the edges of the one before.
LEMMA StartGrows ==
    ASSUME NEW policy \in PolicyType
    PROVE  /\ \A s \in 0..Len(policy) : Start(policy)[s] \in Nat
           /\ \A s, r \in 0..Len(policy) :
                 s < r => Start(policy)[s] + 1 + Len(policy[s + 1]) <= Start(policy)[r]
  <1> DEFINE f == Start(policy)
             n == Len(policy)
             NotNat == {s \in Nat : s <= n /\ f[s] \notin Nat}
             Low(s) == {r \in Nat : s < r /\ r <= n /\ ~(f[s] + 1 + Len(policy[s + 1]) <= f[r])}
  <1>1. /\ n \in Nat /\ f[0] = 0
        /\ \A s \in 0..(n - 1) : f[s + 1] = f[s] + 1 + Len(policy[s + 1])
        /\ \A s \in 1..n : Len(policy[s]) \in Nat
    BY StartStep, PolicyEdges
  <1> HIDE DEF f, n
  <1>2. NotNat = {}
    <2> SUFFICES ASSUME NotNat # {} PROVE FALSE
      OBVIOUS
    <2>1. PICK s \in NotNat : \A k \in NotNat : s <= k
      BY LeastNatural
    <2>2. s # 0
      BY <1>1, <2>1
    <2>3. s - 1 \in 0..(n - 1) /\ s - 1 \notin NotNat
      BY <1>1, <2>1, <2>2
    <2>4. f[s - 1] \in Nat
      BY <2>3, <1>1
    <2>5. f[s] = f[s - 1] + 1 + Len(policy[s]) /\ Len(policy[s]) \in Nat
      <3>1. (s - 1) + 1 = s /\ s \in 1..n
        BY <1>1, <2>1, <2>2
      <3> QED
        BY <3>1, <2>3, <1>1
    <2> QED
      BY <2>1, <2>4, <2>5
  <1>3. \A s \in 0..n : f[s] \in Nat
    BY <1>1, <1>2
  <1>4. ASSUME NEW s \in 0..n PROVE Low(s) = {}
    <2> SUFFICES ASSUME Low(s) # {} PROVE FALSE
      OBVIOUS
    <2>1. PICK r \in Low(s) : \A k \in Low(s) : r <= k
      BY LeastNatural
    <2>2. r \in Nat /\ s < r /\ r <= n
      OBVIOUS
    <2>3. f[r] = f[r - 1] + 1 + Len(policy[r]) /\ Len(policy[r]) \in Nat
      <3>1. (r - 1) + 1 = r /\ r \in 1..n /\ r - 1 \in 0..(n - 1)
        BY <1>1, <2>2
      <3> QED
        BY <3>1, <1>1
    <2>4. CASE r = s + 1
      BY <2>1, <2>3, <2>4, <1>1, <1>3
    <2>5. CASE r # s + 1
      <3>1. r - 1 \notin Low(s) /\ r - 1 \in 0..n /\ s < r - 1
        BY <1>1, <2>1, <2>2, <2>5
      <3>2. f[s] + 1 + Len(policy[s + 1]) <= f[r - 1]
        BY <1>1, <3>1
      <3>3. f[r - 1] \in Nat /\ f[s] \in Nat /\ Len(policy[s + 1]) \in Nat
        <4>1. s + 1 \in 1..n
          BY <1>1, <2>2
        <4> QED
          BY <1>1, <1>3, <3>1, <4>1
      <3>4. ~(f[s] + 1 + Len(policy[s + 1]) <= f[r])
        BY <2>1
      <3> HIDE DEF Low
      <3> QED
        BY <2>3, <3>2, <3>3, <3>4
    <2> QED
      BY <2>4, <2>5
  <1>5. ASSUME NEW s \in 0..n, NEW r \in 0..n, s < r
        PROVE  f[s] + 1 + Len(policy[s + 1]) <= f[r]
    BY <1>1, <1>4, <1>5
  <1> QED
    BY <1>3, <1>5 DEF f, n

\* Every address below the end belongs to exactly one node.
LEMMA NodeOfAddress ==
    ASSUME NEW policy \in PolicyType, NEW a \in Nat
    PROVE  /\ a < Start(policy)[Len(policy)] =>
                 \E s \in 0..(Len(policy) - 1) : Start(policy)[s] <= a /\ a < Start(policy)[s + 1]
           /\ \A s, r \in 0..(Len(policy) - 1) :
                 /\ Start(policy)[s] <= a /\ a < Start(policy)[s + 1]
                 /\ Start(policy)[r] <= a /\ a < Start(policy)[r + 1]
                 => s = r
  <1> DEFINE f == Start(policy)
             n == Len(policy)
             Above == {r \in Nat : r <= n /\ a < f[r]}
  <1>1. /\ n \in Nat /\ f[0] = 0 /\ \A s \in 0..n : f[s] \in Nat
        /\ \A s, r \in 0..n : s < r => f[s] + 1 + Len(policy[s + 1]) <= f[r]
        /\ \A s \in 1..n : Len(policy[s]) \in Nat
    BY StartStep, StartGrows, PolicyEdges
  <1> HIDE DEF f, n
  <1>2. ASSUME a < f[n]
        PROVE  \E s \in 0..(n - 1) : f[s] <= a /\ a < f[s + 1]
    <2>1. n \in Above
      BY <1>1, <1>2
    <2>2. PICK r \in Above : \A k \in Above : r <= k
      BY <2>1, LeastNatural
    <2>3. r \in 1..n /\ a < f[r]
      BY <1>1, <2>2
    <2>4. r - 1 \notin Above /\ r - 1 \in 0..(n - 1) /\ (r - 1) + 1 = r
      BY <1>1, <2>2, <2>3
    <2>5. f[r - 1] <= a
      BY <1>1, <2>4
    <2> QED
      BY <2>3, <2>4, <2>5
  <1>3. ASSUME NEW s \in 0..(n - 1), NEW r \in 0..(n - 1),
               f[s] <= a, a < f[s + 1], f[r] <= a, a < f[r + 1], s < r
        PROVE  FALSE
    <2>1. s + 1 \in 0..n /\ r \in 0..n /\ (s + 1 < r \/ s + 1 = r)
      BY <1>1, <1>3
    <2>2. f[s + 1] <= f[r]
      <3>1. CASE s + 1 = r
        BY <1>1, <2>1, <3>1
      <3>2. CASE s + 1 < r
        <4>1. (s + 1) + 1 \in 1..n
          BY <1>1, <2>1, <3>2
        <4>2. Len(policy[(s + 1) + 1]) \in Nat
          BY <1>1, <4>1
        <4>3. f[s + 1] + 1 + Len(policy[(s + 1) + 1]) <= f[r]
          BY <1>1, <2>1, <3>2
        <4> QED
          BY <1>1, <2>1, <4>2, <4>3
      <3> QED
        BY <2>1, <3>1, <3>2
    <2> QED
      BY <1>1, <1>3, <2>1, <2>2
  <1>4. ASSUME NEW s \in 0..(n - 1), NEW r \in 0..(n - 1),
               f[s] <= a, a < f[s + 1], f[r] <= a, a < f[r + 1]
        PROVE  s = r
    <2>1. s < r \/ r < s \/ s = r
      BY <1>1
    <2> QED
      BY <1>3, <1>4, <2>1
  <1> QED
    BY <1>2, <1>4 DEF f, n

\* A policy that fits the pool.
Fits(policy) == policy \in PolicyType /\ Start(policy)[Len(policy)] <= PoolCells

\* Every state of the policy is a node of the image, followed by its edges.
LEMMA ImageCells ==
    ASSUME NEW policy, Fits(policy), NEW s \in 0..(Len(policy) - 1)
    PROVE  /\ Start(policy)[s] \in Address
           /\ Image(policy).cells[Start(policy)[s]] = NodeCell(s, Len(policy[s + 1]))
           /\ \A j \in 1..Len(policy[s + 1]) :
                 /\ Start(policy)[s] + j \in Address
                 /\ Image(policy).cells[Start(policy)[s] + j] = EdgeCell(policy[s + 1][j])
  <1> DEFINE f == Start(policy)
             n == Len(policy)
             Node(a) == CHOOSE r \in 0..(n - 1) : f[r] <= a /\ a < f[r + 1]
             len == Len(policy[s + 1])
  <1>1. /\ policy \in PolicyType /\ n \in Nat /\ f[n] <= PoolCells /\ PoolCells \in Nat
        /\ \A r \in 0..n : f[r] \in Nat
        /\ f[s + 1] = f[s] + 1 + len /\ len \in Nat
        /\ f[s + 1] <= f[n]
    <2>1. policy \in PolicyType /\ n \in Nat /\ f[n] <= PoolCells /\ PoolCells \in Nat
      BY PolicyEdges, PoolAssumption DEF Fits
    <2>2. \A r \in 0..n : f[r] \in Nat
      BY <2>1, StartGrows
    <2>3. f[s + 1] = f[s] + 1 + len
      BY <2>1, StartStep
    <2>4. len \in Nat /\ s + 1 \in 0..n
      BY <2>1, PolicyEdges
    <2>5. f[s + 1] <= f[n]
      <3>1. s \in 0..n /\ n \in 0..n /\ s < n
        BY <2>1
      <3>2. f[s] + 1 + len <= f[n]
        BY <2>1, <3>1, StartGrows
      <3> QED
        BY <2>3, <3>2
    <2> QED
      BY <2>1, <2>2, <2>3, <2>4, <2>5
  <1>2. f[s] \in Nat /\ f[s + 1] \in Nat /\ f[n] \in Nat
    BY <1>1
  <1>3. ASSUME NEW a \in Nat, f[s] <= a, a < f[s + 1]
        PROVE  /\ a \in Address
               /\ Image(policy).cells[a] =
                     IF a = f[s] THEN NodeCell(s, len) ELSE EdgeCell(policy[s + 1][a - f[s]])
    <2>1. a \in Address /\ ~(a >= f[n])
      BY <1>1, <1>2, <1>3 DEF Address
    <2>2. \A r \in 0..(n - 1) : f[r] <= a /\ a < f[r + 1] => r = s
      BY <1>1, <1>3, NodeOfAddress
    <2>3. Node(a) = s
      BY <1>3, <2>2
    <2>4. Image(policy).cells[a] =
             IF a >= f[n] THEN ZeroCell
             ELSE IF a = f[Node(a)] THEN NodeCell(Node(a), Len(policy[Node(a) + 1]))
             ELSE EdgeCell(policy[Node(a) + 1][a - f[Node(a)]])
      BY <2>1 DEF Image
    <2> HIDE DEF Node, f, n
    <2> QED
      BY <2>1, <2>3, <2>4
  <1>4. ASSUME NEW j \in 1..len
        PROVE  f[s] + j \in Address /\ Image(policy).cells[f[s] + j] = EdgeCell(policy[s + 1][j])
    <2> HIDE DEF f, n, len
    <2>1. /\ f[s] + j \in Nat /\ f[s] <= f[s] + j /\ f[s] + j < f[s + 1]
          /\ f[s] + j # f[s] /\ (f[s] + j) - f[s] = j
      BY <1>1, <1>2
    <2> QED
      BY <1>3, <2>1
  <1>5. f[s] \in Address /\ Image(policy).cells[f[s]] = NodeCell(s, len)
    <2> HIDE DEF f, n, len
    <2>1. f[s] <= f[s] /\ f[s] < f[s + 1]
      BY <1>1, <1>2
    <2> QED
      BY <1>2, <1>3, <2>1
  <1> QED
    BY <1>4, <1>5

\* A cell of the image is zero, the header of a state or one of its edges.
LEMMA ImageCases ==
    ASSUME NEW policy, Fits(policy), NEW a \in Address
    PROVE  \/ Image(policy).cells[a] = ZeroCell
           \/ \E s \in 0..(Len(policy) - 1) :
                 \/ a = Start(policy)[s]
                 \/ \E j \in 1..Len(policy[s + 1]) : a = Start(policy)[s] + j
  <1> DEFINE f == Start(policy)
             n == Len(policy)
  <1>1. policy \in PolicyType /\ n \in Nat /\ a \in Nat /\ f[n] \in Nat
    <2>1. policy \in PolicyType /\ n \in Nat /\ a \in Nat
      BY PolicyEdges, PoolAssumption DEF Fits, Address
    <2> QED
      BY <2>1, StartGrows
  <1>2. CASE a >= f[n]
    BY <1>2 DEF Image
  <1>3. CASE ~(a >= f[n])
    <2>1. a < f[n]
      BY <1>1, <1>3
    <2>2. PICK s \in 0..(n - 1) : f[s] <= a /\ a < f[s + 1]
      BY <1>1, <2>1, NodeOfAddress
    <2>3. f[s + 1] = f[s] + 1 + Len(policy[s + 1]) /\ Len(policy[s + 1]) \in Nat /\ f[s] \in Nat
      <3>1. s + 1 \in 1..n /\ s \in 0..n
        BY <1>1
      <3> QED
        BY <1>1, <3>1, StartStep, StartGrows, PolicyEdges
    <2>4. a = f[s] \/ (a - f[s] \in 1..Len(policy[s + 1]) /\ a = f[s] + (a - f[s]))
      <3> HIDE DEF f, n
      <3> QED
        BY <1>1, <2>2, <2>3
    <2> QED
      BY <2>4
  <1> QED
    BY <1>2, <1>3

\* The image of a policy is a finalized pool with one node per state.
LEMMA ImageType ==
    ASSUME NEW policy, Fits(policy)
    PROVE  /\ Image(policy) \in Block /\ HeaderVerdict(Image(policy)) = 1
           /\ Image(policy).num_nodes = Len(policy)
           /\ Image(policy).magic = "graph"
           /\ Image(policy).nodes_table_offset = 0
           /\ Image(policy).cells \in [Address -> Cell]
  <1>1. Len(policy) \in Nat /\ policy \in PolicyType
    BY PolicyEdges DEF Fits
  <1>2. ASSUME NEW a \in Address PROVE Image(policy).cells[a] \in Cell
    <2>1. CASE Image(policy).cells[a] = ZeroCell
      BY <2>1 DEF ZeroCell, Cell
    <2>2. ASSUME NEW s \in 0..(Len(policy) - 1), a = Start(policy)[s]
          PROVE  Image(policy).cells[a] \in Cell
      <3>1. Len(policy[s + 1]) \in Nat /\ s \in Nat
        BY <1>1, PolicyEdges
      <3>2. Image(policy).cells[a] = NodeCell(s, Len(policy[s + 1]))
        BY <2>2, ImageCells
      <3> QED
        BY <3>1, <3>2 DEF NodeCell, Cell
    <2>3. ASSUME NEW s \in 0..(Len(policy) - 1), NEW j \in 1..Len(policy[s + 1]),
                 a = Start(policy)[s] + j
          PROVE  Image(policy).cells[a] \in Cell
      <3>1. policy[s + 1][j] \in Edge(Nat, Nat)
        <4>1. s + 1 \in 1..Len(policy)
          BY <1>1
        <4> QED
          BY <1>1, <4>1, PolicyEdges
      <3>2. Image(policy).cells[a] = EdgeCell(policy[s + 1][j])
        BY <2>3, ImageCells
      <3> QED
        BY <3>1, <3>2 DEF EdgeCell, Edge, Cell
    <2> QED
      BY <2>1, <2>2, <2>3, ImageCases
  <1>3. Image(policy) = [magic |-> "graph", graph_finalized |-> 1, num_nodes |-> Len(policy),
                         nodes_table_offset |-> 0, cells |-> Image(policy).cells]
    BY DEF Image
  <1>4. DOMAIN Image(policy).cells = Address /\ Image(policy).cells = [a \in Address |-> Image(policy).cells[a]]
    BY DEF Image
  <1> DEFINE I == Image(policy)
  <1>5. I.cells \in [Address -> Cell]
    <2> HIDE DEF I
    <2> QED
      BY <1>2, <1>4 DEF I
  <1> HIDE DEF I
  <1>6. I \in Block
    <2>1. 0 \in -1..PoolCells
      BY PoolAssumption
    <2> QED
      BY <1>1, <1>3, <1>5, <2>1 DEF Block, I
  <1>7. HeaderVerdict(I) = 1
    BY <1>3, <1>6, SandboxAssumption DEF HeaderVerdict, I
  <1> QED
    BY <1>3, <1>5, <1>6, <1>7 DEF I

\* Where the pool holds the node table of a policy, a cell with the magic number
\* of a node is the header of a state, and what follows are its edges.
LEMMA ImageNode ==
    ASSUME NEW policy, Fits(policy), NEW p, p.cells = Image(policy).cells,
           NEW a \in Int, CellAt(p, a).magic = "node"
    PROVE  \E s \in 0..(Len(policy) - 1) : a = Start(policy)[s]
  <1>1. a \in Address /\ CellAt(p, a) = Image(policy).cells[a]
    BY DEF CellAt, ZeroCell
  <1>2. Image(policy).cells[a] # ZeroCell
    BY <1>1 DEF ZeroCell
  <1>3. ASSUME NEW s \in 0..(Len(policy) - 1), NEW j \in 1..Len(policy[s + 1]),
               a = Start(policy)[s] + j
        PROVE  FALSE
    <2>1. Image(policy).cells[a] = EdgeCell(policy[s + 1][j])
      BY <1>3, ImageCells
    <2> QED
      BY <1>1, <2>1 DEF EdgeCell
  <1> QED
    BY <1>1, <1>2, <1>3, ImageCases

\* Such a node as verify_graph and is_state_transition_valid read it.
LEMMA ImageRead ==
    ASSUME NEW policy, Fits(policy), NEW p, p.cells = Image(policy).cells,
           NEW s \in 0..(Len(policy) - 1)
    PROVE  /\ CellAt(p, Start(policy)[s]) = NodeCell(s, Len(policy[s + 1]))
           /\ CellAt(p, Start(policy)[s]).val = Len(policy[s + 1])
           /\ \A j \in 1..Len(policy[s + 1]) :
                 /\ CellAt(p, Start(policy)[s] + j) = EdgeCell(policy[s + 1][j])
                 /\ CellAt(p, Start(policy)[s] + j).magic = "edge"
                 /\ CellAt(p, Start(policy)[s] + j).key = policy[s + 1][j].libcallid
                 /\ CellAt(p, Start(policy)[s] + j).val = policy[s + 1][j].next_progstate
           /\ NodeOK(p, Start(policy)[s]) /\ EdgesOK(p, Start(policy)[s])
           /\ NextNode(p, Start(policy)[s]) = Start(policy)[s + 1]
  <1> DEFINE a == Start(policy)[s]
             len == Len(policy[s + 1])
  <1>1. CellAt(p, a) = NodeCell(s, len)
    BY ImageCells DEF CellAt
  <1>2. ASSUME NEW j \in 1..len PROVE CellAt(p, a + j) = EdgeCell(policy[s + 1][j])
    BY ImageCells DEF CellAt
  <1>3. Start(policy)[s + 1] = a + 1 + len
    BY StartStep DEF Fits
  <1> HIDE DEF a, len
  <1>4. CellAt(p, a).magic = "node" /\ CellAt(p, a).val = len
    BY <1>1 DEF NodeCell
  <1>5. ASSUME NEW j \in 1..len
        PROVE  /\ CellAt(p, a + j).magic = "edge"
               /\ CellAt(p, a + j).key = policy[s + 1][j].libcallid
               /\ CellAt(p, a + j).val = policy[s + 1][j].next_progstate
    <2>1. CellAt(p, a + j) = EdgeCell(policy[s + 1][j])
      BY <1>2
    <2> QED
      BY <2>1 DEF EdgeCell
  <1>6. NodeOK(p, a) /\ EdgesOK(p, a)
    BY <1>4, <1>5 DEF NodeOK, EdgesOK
  <1>7. NextNode(p, a) = Start(policy)[s + 1]
    BY <1>3, <1>4 DEF NextNode
  <1> QED
    BY <1>1, <1>2, <1>4, <1>5, <1>6, <1>7 DEF a, len

\* x is a state an edge labelled call leads to from state s of the policy.
Leads(policy, s, call, x) ==
    \E j \in 1..Len(policy[s + 1]) : /\ policy[s + 1][j].libcallid = call
                                     /\ policy[s + 1][j].next_progstate = x

\* What is_state_transition_valid answers at the node of state s: the target of an
\* edge labelled with the call, or 0; and 0 only when there is none, if no edge
\* leads to state 0.
LEMMA ImageTransition ==
    ASSUME NEW policy, Fits(policy), NEW p, p.cells = Image(policy).cells,
           NEW s \in 0..(Len(policy) - 1), NEW call
    PROVE  /\ StateTransition(p, Start(policy)[s], call) # 0 =>
                 Leads(policy, s, call, StateTransition(p, Start(policy)[s], call))
           /\ StateTransition(p, Start(policy)[s], call) = 0 =>
                 \A x : Leads(policy, s, call, x) => Leads(policy, s, call, 0)
  <1> DEFINE a == Start(policy)[s]
             len == Len(policy[s + 1])
             M == Matches(p, a, call)
  <1>1. a \in Nat /\ len \in Nat
    <2>1. policy \in PolicyType /\ Len(policy) \in Nat
      BY PolicyEdges DEF Fits
    <2>2. s \in 0..Len(policy) /\ s + 1 \in 1..Len(policy)
      BY <2>1
    <2> QED
      BY <2>1, <2>2, StartGrows, PolicyEdges
  <1>2. /\ CellAt(p, a).magic = "node" /\ CellAt(p, a).val = len
        /\ \A j \in 1..len : /\ CellAt(p, a + j).magic = "edge"
                             /\ CellAt(p, a + j).key = policy[s + 1][j].libcallid
                             /\ CellAt(p, a + j).val = policy[s + 1][j].next_progstate
    <2>1. /\ NodeOK(p, a) /\ CellAt(p, a).val = len
          /\ \A j \in 1..len : /\ CellAt(p, a + j).magic = "edge"
                               /\ CellAt(p, a + j).key = policy[s + 1][j].libcallid
                               /\ CellAt(p, a + j).val = policy[s + 1][j].next_progstate
      BY ImageRead
    <2> QED
      BY <2>1 DEF NodeOK
  <1> HIDE DEF a, len
  <1>3. ASSUME StateTransition(p, a, call) # 0
        PROVE  \E j \in 1..len : /\ policy[s + 1][j].libcallid = call
                                 /\ policy[s + 1][j].next_progstate = StateTransition(p, a, call)
    <2>1. PICK j \in 1..CellAt(p, a).val :
             /\ CellAt(p, a + j).key = call
             /\ StateTransition(p, a, call) = CellAt(p, a + j).val
      <3>1. p.cells \in [Address -> Cell] /\ a \in Int
        BY <1>1, ImageType
      <3> QED
        BY <3>1, <1>3, TransitionEdge
    <2> QED
      BY <1>2, <2>1
  <1>4. ASSUME NEW k \in 1..len, policy[s + 1][k].libcallid = call,
               StateTransition(p, a, call) = 0
        PROVE  Leads(policy, s, call, 0)
    <2>1. M \subseteq 1..len /\ k \in M
      BY <1>2, <1>4 DEF Matches
    <2>2. M \subseteq Nat /\ M # {}
      BY <1>1, <2>1
    <2>3. \E j \in M : \A l \in M : j <= l
      BY <2>2, LeastNatural
    <2>4. CellAt(p, a + 1).magic = "edge"
      <3>1. 1 \in 1..len
        BY <1>1
      <3> QED
        BY <1>2, <3>1
    <2>5. PICK m \in M : StateTransition(p, a, call) = CellAt(p, a + m).val
      BY <1>2, <2>2, <2>3, <2>4 DEF StateTransition
    <2>6. m \in 1..len /\ CellAt(p, a + m).key = call
      BY <2>1 DEF Matches
    <2> QED
      BY <1>2, <1>4, <2>5, <2>6 DEF Leads, len
  <1> QED
    BY <1>3, <1>4 DEF a, len, Leads

-----------------------------------------------------------------------------
(* Any number of tasks, any interleaving. *)

\* The policies of the tasks, and the labels and pointers the proofs tell apart.
LEMMA Policies ==
    ASSUME NEW t \in Task
    PROVE  Fits(Policy[t]) /\ Policy[t] \in PolicyType
  BY SandboxAssumption DEF Fits, PolicyType

\* The states after a call are the targets of the edges labelled with it.
LEMMA AfterEdges ==
    ASSUME NEW policy, NEW S, NEW call, NEW x
    PROVE  x \in Monitor!After(policy, S, call) <=>
              \E s \in S : s < Len(policy) /\ Leads(policy, s, call, x)
  BY DEF Monitor!After, Leads

\* They are states.
LEMMA AfterType ==
    ASSUME NEW t \in Task, NEW S \in SUBSET Nat, NEW call
    PROVE  Monitor!After(Policy[t], S, call) \in SUBSET Nat
  <1>1. Policy[t] \in PolicyType /\ Len(Policy[t]) \in Nat
    BY Policies, PolicyEdges
  <1>2. SUFFICES ASSUME NEW x \in Monitor!After(Policy[t], S, call) PROVE x \in Nat
    OBVIOUS
  <1>3. PICK s \in S : s < Len(Policy[t]) /\ Leads(Policy[t], s, call, x)
    BY AfterEdges
  <1>4. s + 1 \in 1..Len(Policy[t])
    BY <1>1, <1>3
  <1>5. PICK j \in 1..Len(Policy[t][s + 1]) : Policy[t][s + 1][j].next_progstate = x
    BY <1>3 DEF Leads
  <1>6. Policy[t][s + 1][j] \in Edge(Nat, Nat)
    BY <1>1, <1>4, PolicyEdges
  <1> QED
    BY <1>5, <1>6 DEF Edge

-----------------------------------------------------------------------------
(* What a memset or a copy leaves behind. *)

\* A text, an image and a pool are all a megabyte of memory.
LEMMA BlockFacts ==
    /\ ZeroBlock \in Block /\ NewPool \in Block /\ NULL \notin Block
    /\ \A t \in Task : Data(t) \in Block
  <1>1. -1 \in -1..PoolCells /\ 0 \in -1..PoolCells /\ NULL \notin Block
    BY PoolAssumption, SandboxAssumption
  <1>2. ZeroBlock \in Block
    BY <1>1 DEF Block, ZeroBlock, ZeroCell, Cell
  <1>3. NewPool \in Block
    BY <1>1, <1>2 DEF NewPool, Block
  <1>4. ASSUME NEW t \in Task PROVE Data(t) \in Block
    <2>1. CASE t \in Full
      BY <2>1, Policies, ImageType DEF Data
    <2>2. CASE t \notin Full
      BY <2>2, <1>2 DEF Data, Block
    <2> QED
      BY <2>1, <2>2
  <1> QED
    BY <1>1, <1>2, <1>3, <1>4

\* A part of a copy leaves a block, and of its table only the cells from p up to q
\* have changed.
LEMMA PieceType ==
    ASSUME NEW old \in Block, NEW new \in Block, NEW t \in Task, NEW p, NEW q
    PROVE  Piece(old, new, t, p, q) \in Block
  <1> DEFINE table == [a \in Address |-> IF p <= a /\ a < q THEN new.cells[a] ELSE old.cells[a]]
  <1>1. table \in [Address -> Cell]
    BY DEF Block
  <1>2. /\ [old EXCEPT !.cells = table] \in Block /\ [new EXCEPT !.cells = table] \in Block
        /\ [old EXCEPT !.magic = new.magic, !.graph_finalized = new.graph_finalized] \in Block
    <2> HIDE DEF table
    <2> QED
      BY <1>1 DEF Block
  <1>3. Piece(old, new, t, p, q) \in
           {[old EXCEPT !.cells = table], [new EXCEPT !.cells = table],
            [old EXCEPT !.magic = new.magic, !.graph_finalized = new.graph_finalized]}
    BY DEF Piece
  <1> QED
    BY <1>2, <1>3

\* A memset or a copy goes on, at most to its end.
LEMMA ReachType ==
    ASSUME NEW t \in Task, NEW p \in -1..PoolCells
    PROVE  /\ End(t) \in 0..PoolCells /\ (t \in Full => End(t) = PoolCells)
           /\ \A q \in Reach(t, p) : q \in 0..PoolCells /\ p < q /\ q <= End(t)
  <1>1. End(t) \in 0..PoolCells /\ (t \in Full => End(t) = PoolCells)
    BY PoolAssumption DEF End
  <1>2. Stops \subseteq 0..PoolCells
    BY PoolAssumption, SandboxAssumption DEF Address
  <1> QED
    BY <1>1, <1>2 DEF Reach

-----------------------------------------------------------------------------
(* Any number of tasks, any interleaving of their system calls. *)

\* TypeOK is kept by a step of task t that leaves data and the heap's blocks alone,
\* creates a pool at most, and goes to a label that needs no more than there is.
LEMMA TypeMove ==
    ASSUME TypeOK, NEW t \in Task, NEW l \in TaskPC, pc' = [pc EXCEPT ![t] = l],
           pool # NULL => pool' # NULL,
           l \in {"memset", "memcpy", "entry", "list", "loop"} => pool' # NULL,
           \A u \in Task : u # t => data'[u] = data[u],
           l = "fill" => data'[t] # NULL
    PROVE  /\ pc' \in [Task -> TaskPC]
           /\ \A u \in Task :
                 /\ pc'[u] = "fill" => data'[u] # NULL
                 /\ pc'[u] \in {"memset", "memcpy", "entry", "list", "loop"} => pool' # NULL
  BY DEF TypeOK

\* A program starts, or enters another function that the pass takes for main.
LEMMA TypeExec ==
    ASSUME TypeOK, NEW t \in Task, exec(t)
    PROVE  TypeOK'
  <1> USE DEF exec, Enter, Goto
  <1>1. inits' \in [Task -> Nat]
    <2>1. inits \in [Task -> Nat] /\ inits' = [inits EXCEPT ![t] = inits[t] + 1]
      BY DEF TypeOK
    <2> QED
      BY <2>1
  <1>2. pc' = [pc EXCEPT ![t] = "init"] /\ "init" \in TaskPC
    BY DEF TaskPC, KernelPC
  <1>3. UNCHANGED <<graph, cursor, frame, memory, calls, arg, own>>
    OBVIOUS
  <1> QED
    BY <1>1, <1>2, <1>3, TypeMove DEF TypeOK, graph, cursor, frame, memory

\* sandbox_init frees the buffer of the call before it, or returns at once.
LEMMA TypeInitFree ==
    ASSUME TypeOK, NEW t \in Task, init_free(t)
    PROVE  TypeOK'
  <1>1. \E l \in {"user", "alloc"} : l \in TaskPC /\ pc' = [pc EXCEPT ![t] = l]
    BY DEF init_free, Goto, TaskPC, KernelPC
  <1>2. allocated' \subseteq allocated /\ faults' \subseteq faults \cup {"double free"}
    BY DEF init_free, free_existing, kfree
  <1>3. UNCHANGED <<graph, cursor, frame, kernel_buffer, size, contents, count, arg, own>>
    BY DEF init_free
  <1> QED
    BY <1>1, <1>2, <1>3, TypeMove DEF TypeOK, graph, cursor, frame, count

\* kmalloc, which may fail.
LEMMA TypeInitAlloc ==
    ASSUME TypeOK, NEW t \in Task, init_alloc(t)
    PROVE  TypeOK'
  <1>1. \E l \in {"user", "copy"} : l \in TaskPC /\ pc' = [pc EXCEPT ![t] = l]
    BY DEF init_alloc, Goto, TaskPC, KernelPC
  <1>2. /\ kernel_buffer' \in Buffer \cup {NULL} /\ allocated' \subseteq Buffer
        /\ size' \in [Buffer -> {"full", "short"}]
    BY DEF init_alloc, TypeOK
  <1>3. UNCHANGED <<graph, cursor, frame, contents, faults, count, arg, own>>
    BY DEF init_alloc
  <1> QED
    BY <1>1, <1>2, <1>3, TypeMove DEF TypeOK, graph, cursor, frame, count

\* copy_from_user gets the buffer, unless another task has made the pointer NULL.
LEMMA TypeInitCopy ==
    ASSUME TypeOK, NEW t \in Task, init_copy(t)
    PROVE  TypeOK'
  <1>1. /\ \E l \in {"oops", "fill"} : /\ l \in TaskPC /\ pc' = [pc EXCEPT ![t] = l]
                                       /\ l = "fill" => kernel_buffer # NULL
        /\ data' = [data EXCEPT ![t] = kernel_buffer]
    BY DEF init_copy, Goto, TaskPC, KernelPC
  <1>2. data' \in [Task -> Buffer \cup {NULL}] /\ data'[t] = kernel_buffer
        /\ \A u \in Task : u # t => data'[u] = data[u]
    BY <1>1 DEF TypeOK
  <1>3. UNCHANGED <<graph, cursor, done, i, at, memory, count, arg, own>>
    BY DEF init_copy
  <1> QED
    BY <1>1, <1>2, <1>3, TypeMove DEF TypeOK, graph, cursor, memory, count

\* The errors an access through a buffer may add.
LEMMA AccessType ==
    ASSUME NEW t, NEW b
    PROVE  Access(t, b) \subseteq {"use after free", "overrun"}
  BY DEF Access

\* How far a memset or copy has come stays a position, and the task goes on to next
\* when it has ended.
LEMMA GoesOnType ==
    ASSUME TypeOK, NEW t \in Task, NEW q \in Reach(t, done[t]), NEW next, GoesOn(t, q, next)
    PROVE  /\ done' \in [Task -> -1..PoolCells]
           /\ pc' = pc \/ pc' = [pc EXCEPT ![t] = next]
  <1>1. done \in [Task -> -1..PoolCells] /\ -1 \in -1..PoolCells
    <2>1. done \in [Task -> -1..PoolCells]
      BY DEF TypeOK
    <2>2. -1 \in -1..PoolCells
      BY PoolAssumption
    <2> QED
      BY <2>1, <2>2
  <1>2. q \in -1..PoolCells
    BY <1>1, ReachType
  <1> QED
    BY <1>1, <1>2 DEF GoesOn, Goto

\* copy_from_user writes into the block it was given, whatever happens to it.
LEMMA TypeCopyFromUser ==
    ASSUME TypeOK, NEW t \in Task, copy_from_user(t)
    PROVE  TypeOK'
  <1>1. /\ pc[t] = "fill" /\ data[t] \in Buffer /\ contents \in [Buffer -> Block]
        /\ UNCHANGED <<graph, cursor, data, i, at, kernel_buffer, size, count, arg, own>>
    BY DEF copy_from_user, TypeOK
  <1>2. \E new \in Block : \E q :
           contents' = [contents EXCEPT ![data[t]] = Piece(contents[data[t]], new, t, done[t], q)]
    BY BlockFacts DEF copy_from_user
  <1>3. contents' \in [Buffer -> Block]
    BY <1>1, <1>2, PieceType
  <1>4. /\ done' \in [Task -> -1..PoolCells]
        /\ pc' = pc \/ \E l \in {"user", "dump"} : l \in TaskPC /\ pc' = [pc EXCEPT ![t] = l]
    <2>1. "user" \in TaskPC /\ "dump" \in TaskPC /\ -1 \in -1..PoolCells
      BY PoolAssumption DEF TaskPC, KernelPC
    <2>2. CASE \E q \in Reach(t, done[t]) : GoesOn(t, q, "dump")
      BY <2>1, <2>2, GoesOnType
    <2>3. CASE done' = [done EXCEPT ![t] = -1] /\ Goto(t, "user")
      BY <2>1, <2>3 DEF TypeOK, Goto
    <2> QED
      BY <2>2, <2>3 DEF copy_from_user, AfterFailedCopy
  <1>5. /\ allocated' \subseteq allocated
        /\ faults' \subseteq faults \cup {"use after free", "overrun", "double free"}
    BY AccessType DEF copy_from_user, kfree
  <1> QED
    BY <1>1, <1>3, <1>4, <1>5, TypeMove DEF TypeOK, graph, cursor, count

\* The dump reads through kernel_buffer.
LEMMA TypeInitDump ==
    ASSUME TypeOK, NEW t \in Task, init_dump(t)
    PROVE  TypeOK'
  <1>1. \E l \in {"oops", "call"} : l \in TaskPC /\ pc' = [pc EXCEPT ![t] = l]
    BY DEF init_dump, Goto, TaskPC, KernelPC
  <1>2. faults' \subseteq faults \cup {"use after free"}
    BY AccessType DEF init_dump
  <1>3. UNCHANGED <<graph, cursor, frame, kernel_buffer, allocated, size, contents, count, arg, own>>
    BY DEF init_dump
  <1> QED
    BY <1>1, <1>2, <1>3, TypeMove DEF TypeOK, graph, cursor, frame, count

\* initialize_graph finds a pool or creates one.
LEMMA TypeInitCall ==
    ASSUME TypeOK, NEW t \in Task, init_call(t)
    PROVE  TypeOK'
  <1>1. /\ data' = [data EXCEPT ![t] = kernel_buffer]
        /\ UNCHANGED <<nodes, cursor, done, i, at, memory, count, arg, own>>
    BY DEF init_call
  <1>2. pool' \in Block \cup {NULL} /\ (pool # NULL => pool' # NULL)
    BY BlockFacts DEF init_call, ThePool, TypeOK
  <1>3. \E l \in {"oops", "memset"} : /\ l \in TaskPC /\ pc' = [pc EXCEPT ![t] = l]
                                      /\ l = "memset" => pool' # NULL
    BY BlockFacts DEF init_call, ThePool, TypeOK, Goto, TaskPC, KernelPC
  <1>4. data' \in [Task -> Buffer \cup {NULL}] /\ \A u \in Task : u # t => data'[u] = data[u]
    BY <1>1 DEF TypeOK
  <1> QED
    BY <1>1, <1>2, <1>3, <1>4, TypeMove DEF TypeOK, cursor, memory, count

\* A part of the memset leaves a pool.
LEMMA TypeInitMemset ==
    ASSUME TypeOK, NEW t \in Task, init_memset(t)
    PROVE  TypeOK'
  <1>1. /\ pool \in Block /\ NULL \notin Block
        /\ UNCHANGED <<nodes, cursor, data, i, at, memory, count, arg, own>>
    BY BlockFacts DEF init_memset, TypeOK
  <1>2. PICK q \in Reach(t, done[t]) :
           pool' = Piece(pool, ZeroBlock, t, done[t], q) /\ GoesOn(t, q, "memcpy")
    BY DEF init_memset
  <1>3. pool' \in Block
    BY <1>1, <1>2, PieceType, BlockFacts
  <1>4. /\ done' \in [Task -> -1..PoolCells] /\ "memcpy" \in TaskPC
        /\ pc' = pc \/ pc' = [pc EXCEPT ![t] = "memcpy"]
    BY <1>2, GoesOnType DEF TaskPC, KernelPC
  <1> QED
    BY <1>1, <1>3, <1>4, TypeMove DEF TypeOK, cursor, memory, count

\* So does a part of the memcpy.
LEMMA TypeInitMemcpy ==
    ASSUME TypeOK, NEW t \in Task, init_memcpy(t)
    PROVE  TypeOK'
  <1>1. /\ pool \in Block /\ NULL \notin Block /\ pc[t] = "memcpy"
        /\ UNCHANGED <<cursor, data, i, at, kernel_buffer, allocated, size, contents, count, arg, own>>
    BY BlockFacts DEF init_memcpy, TypeOK
  <1>2. CASE data[t] = NULL
    <2>1. nodes' = NoListing /\ UNCHANGED <<pool, done, faults>> /\ pc' = [pc EXCEPT ![t] = "reset"]
      BY <1>2 DEF init_memcpy, Goto
    <2>2. "reset" \in TaskPC
      BY DEF TaskPC, KernelPC
    <2> QED
      BY <1>1, <2>1, <2>2, TypeMove DEF TypeOK, cursor, count
  <1>3. CASE data[t] # NULL
    <2>1. PICK q \in Reach(t, done[t]) :
             /\ pool' = Piece(pool, contents[data[t]], t, done[t], q)
             /\ faults' = faults \cup Access(t, data[t])
             /\ GoesOn(t, q, "entry") /\ UNCHANGED nodes
      BY <1>3 DEF init_memcpy
    <2>2. contents[data[t]] \in Block
      BY <1>3 DEF TypeOK
    <2>3. pool' \in Block
      BY <1>1, <2>1, <2>2, PieceType
    <2>4. /\ done' \in [Task -> -1..PoolCells] /\ "entry" \in TaskPC
          /\ pc' = pc \/ pc' = [pc EXCEPT ![t] = "entry"]
      BY <2>1, GoesOnType DEF TaskPC, KernelPC
    <2>5. faults' \subseteq faults \cup {"use after free", "overrun"}
      BY <2>1, AccessType
    <2> QED
      BY <1>1, <2>1, <2>3, <2>4, <2>5, TypeMove DEF TypeOK, cursor, count
  <1> QED
    BY <1>2, <1>3

\* The entry of verify_graph changes locals only.
LEMMA TypeVerifyEntry ==
    ASSUME TypeOK, NEW t \in Task, verify_entry(t)
    PROVE  TypeOK'
  <1>1. /\ UNCHANGED <<graph, cursor, done, memory, count, arg, own>>
        /\ \E l \in {"list", "reset"} : l \in TaskPC /\ pc' = [pc EXCEPT ![t] = l]
        /\ \/ UNCHANGED <<data, i, at>>
           \/ /\ data' = [data EXCEPT ![t] = NULL]
              /\ i' = [i EXCEPT ![t] = 0] /\ at' = [at EXCEPT ![t] = 0]
    BY DEF verify_entry, VerifyReturns, Goto, TaskPC, KernelPC
  <1>2. pc[t] = "entry" /\ pool # NULL
    BY DEF verify_entry, TypeOK
  <1>3. i' \in [Task -> Nat] /\ at' \in [Task -> -1..PoolCells]
    <2>1. 0 \in -1..PoolCells
      BY PoolAssumption
    <2>2. i \in [Task -> Nat] /\ at \in [Task -> -1..PoolCells]
      BY DEF TypeOK
    <2> QED
      BY <1>1, <2>1, <2>2
  <1>4. data' \in [Task -> Buffer \cup {NULL}] /\ \A u \in Task : u # t => data'[u] = data[u]
    BY <1>1 DEF TypeOK
  <1> QED
    BY <1>1, <1>2, <1>3, <1>4, TypeMove DEF TypeOK, graph, cursor, memory, count

\* A new listing has one null pointer per node; the scan starts where the metadata
\* of the pool say.
LEMMA TypeVerifyList ==
    ASSUME TypeOK, NEW t \in Task, verify_list(t)
    PROVE  TypeOK'
  <1>1. /\ UNCHANGED <<pool, cursor, data, done, i, memory, count, arg, own>>
        /\ pc[t] = "list" /\ pc' = [pc EXCEPT ![t] = "loop"] /\ "loop" \in TaskPC
        /\ at' = [at EXCEPT ![t] = pool.nodes_table_offset]
    BY DEF verify_list, FirstNode, Goto, TaskPC, KernelPC
  <1>2. pool \in Block /\ pool # NULL
    BY <1>1 DEF TypeOK
  <1>3. pool.num_nodes \in Nat /\ pool.nodes_table_offset \in -1..PoolCells
    BY <1>2 DEF Block
  <1>4. nodes' # NoListing => Listing(nodes')
    <2>1. Listing(NewListing(pool.num_nodes))
      BY <1>3 DEF Listing, NewListing
    <2>2. nodes # NoListing => Listing(nodes)
      BY DEF TypeOK
    <2> QED
      BY <2>1, <2>2 DEF verify_list
  <1>5. at' \in [Task -> -1..PoolCells]
    BY <1>1, <1>3 DEF TypeOK
  <1> QED
    BY <1>1, <1>2, <1>4, <1>5, TypeMove DEF TypeOK, cursor, memory, count

\* verify_graph never leaves the pool: it moves on only past a node and edges
\* whose magic numbers it has read.
LEMMA TypeVerifyLoop ==
    ASSUME TypeOK, NEW t \in Task, verify_loop(t)
    PROVE  TypeOK'
  <1>1. /\ UNCHANGED <<pool, cursor, done, kernel_buffer, allocated, size, contents, count, arg, own>>
        /\ pc[t] = "loop"
        /\ UNCHANGED pc \/ \E l \in {"reset", "oops"} : l \in TaskPC /\ pc' = [pc EXCEPT ![t] = l]
        /\ data' = data \/ data' = [data EXCEPT ![t] = NULL]
        /\ faults' \subseteq faults \cup {"listing"}
    BY DEF verify_loop, VerifyReturns, Goto, TaskPC, KernelPC
  <1>2. /\ pool \in Block /\ pool # NULL /\ i[t] \in Nat /\ at[t] \in -1..PoolCells
        /\ i \in [Task -> Nat] /\ at \in [Task -> -1..PoolCells]
    BY <1>1 DEF TypeOK
  <1>3. pool.cells \in [Address -> Cell] /\ at[t] \in Int /\ PoolCells \in Nat
    BY <1>2, PoolAssumption DEF Block
  <1>4. \/ UNCHANGED <<i, at>>
        \/ i' = [i EXCEPT ![t] = 0] /\ at' = [at EXCEPT ![t] = 0]
        \/ /\ NodeOK(pool, at[t]) /\ EdgesOK(pool, at[t])
           /\ i' = [i EXCEPT ![t] = i[t] + 1] /\ at' = [at EXCEPT ![t] = NextNode(pool, at[t])]
    BY DEF verify_loop, VerifyReturns, NextTurn
  <1>5. i' \in [Task -> Nat] /\ at' \in [Task -> -1..PoolCells]
    <2>1. 0 \in -1..PoolCells
      BY <1>3
    <2>2. NodeOK(pool, at[t]) /\ EdgesOK(pool, at[t]) => NextNode(pool, at[t]) \in -1..PoolCells
      BY <1>3, NextNodeType
    <2> QED
      BY <1>2, <1>4, <2>1, <2>2
  <1>6. nodes' = nodes \/ (nodes # NoListing /\ i[t] < nodes.cap /\ nodes' = [nodes EXCEPT !.slot[i[t]] = at[t]])
    BY DEF verify_loop
  <1>7. nodes' # NoListing => Listing(nodes')
    <2>1. nodes # NoListing => Listing(nodes)
      BY DEF TypeOK
    <2>2. ASSUME nodes # NoListing, i[t] < nodes.cap, nodes' = [nodes EXCEPT !.slot[i[t]] = at[t]]
          PROVE  Listing(nodes')
      BY <1>2, <2>1, <2>2 DEF Listing
    <2> QED
      BY <1>6, <2>1, <2>2
  <1>8. data' \in [Task -> Buffer \cup {NULL}] /\ \A u \in Task : u # t => data'[u] = data[u]
    BY <1>1 DEF TypeOK
  <1>9. faults' \subseteq {"double free", "use after free", "overrun", "listing"}
    BY <1>1 DEF TypeOK
  <1>10. CASE UNCHANGED pc
    BY <1>1, <1>2, <1>5, <1>7, <1>8, <1>9, <1>10 DEF TypeOK, cursor, count
  <1>11. CASE \E l \in {"reset", "oops"} : l \in TaskPC /\ pc' = [pc EXCEPT ![t] = l]
    BY <1>1, <1>2, <1>5, <1>7, <1>8, <1>9, <1>11, TypeMove DEF TypeOK, cursor, count
  <1> QED
    BY <1>1, <1>10, <1>11

\* A pointer read from the listing is null, stray or points into the pool.
LEMMA SlotType ==
    ASSUME TypeOK, nodes # NoListing, NEW s \in Nat
    PROVE  NodeOf(s) \in -1..PoolCells \cup {NULL, WILD}
  BY DEF TypeOK, Listing, NodeOf, Slot

\* reset_progstate takes the cursor from the listing.
LEMMA TypeInitReset ==
    ASSUME TypeOK, NEW t \in Task, init_reset(t)
    PROVE  TypeOK'
  <1>1. /\ UNCHANGED <<graph, frame, memory, count, arg>>
        /\ \E l \in {"oops", "user"} : l \in TaskPC /\ pc' = [pc EXCEPT ![t] = l]
        /\ \/ current_progstate' = current_progstate /\ start_node' = start_node
           \/ nodes # NoListing /\ current_progstate' = 0 /\ start_node' = NodeOf(0)
        /\ own' = own \/ own' = [own EXCEPT ![t] = {0}] \/ own' = [own EXCEPT ![t] = {}]
    BY DEF init_reset, cursor, Goto, TaskPC
  <1>2. /\ own \in [Task -> SUBSET Nat]
        /\ current_progstate \in Nat /\ start_node \in -1..PoolCells \cup {NULL, WILD}
    BY DEF TypeOK
  <1>3. current_progstate' \in Nat /\ start_node' \in -1..PoolCells \cup {NULL, WILD}
    <2>1. nodes # NoListing => NodeOf(0) \in -1..PoolCells \cup {NULL, WILD}
      BY SlotType
    <2> QED
      BY <1>1, <1>2, <2>1
  <1>4. own' \in [Task -> SUBSET Nat]
    BY <1>1, <1>2
  <1> QED
    BY <1>1, <1>3, <1>4, TypeMove DEF TypeOK, graph, frame, memory, count

\* A program announces a library call.
LEMMA TypeDummycall ==
    ASSUME TypeOK, NEW t \in Task, NEW call \in Call, dummycall(t, call)
    PROVE  TypeOK'
  <1> USE DEF dummycall, Enter, Goto
  <1>1. calls' \in [Task -> 0..MaxCalls]
    <2>1. MaxCalls \in Nat /\ calls \in [Task -> 0..MaxCalls] /\ calls[t] < MaxCalls
      BY SandboxAssumption DEF TypeOK
    <2> QED
      BY <2>1
  <1>2. arg' \in [Task -> Call \cup {NULL}]
    BY DEF TypeOK
  <1>3. pc' = [pc EXCEPT ![t] = "check"] /\ "check" \in TaskPC
    BY DEF TaskPC, KernelPC
  <1>4. UNCHANGED <<graph, cursor, frame, memory, inits, own>>
    OBVIOUS
  <1> QED
    BY <1>1, <1>2, <1>3, <1>4, TypeMove DEF TypeOK, graph, cursor, frame, memory

\* The check moves the task on and nothing else.
LEMMA TypeDummycallCheck ==
    ASSUME TypeOK, NEW t \in Task, dummycall_check(t)
    PROVE  TypeOK'
  <1>1. \E l \in {"oops", "advance", "killed"} : l \in TaskPC /\ pc' = [pc EXCEPT ![t] = l]
    BY DEF dummycall_check, Goto, TaskPC, KernelPC
  <1>2. UNCHANGED <<graph, cursor, frame, memory, count, arg, own>>
    BY DEF dummycall_check
  <1> QED
    BY <1>1, <1>2, TypeMove DEF TypeOK, graph, cursor, frame, memory, count

\* transition_to_state takes the cursor from the pool and the listing.
LEMMA TypeDummycallAdvance ==
    ASSUME TypeOK, NEW t \in Task, dummycall_advance(t)
    PROVE  TypeOK'
  <1>1. /\ UNCHANGED <<graph, frame, memory, count>>
        /\ arg' = [arg EXCEPT ![t] = NULL]
        /\ own' = [own EXCEPT ![t] = Monitor!After(Policy[t], own[t], arg[t])]
        /\ \/ current_progstate' = current_progstate /\ start_node' = start_node
           \/ /\ nodes # NoListing /\ start_node \notin {NULL, WILD}
              /\ current_progstate' = StateTransition(pool, start_node, arg[t])
              /\ start_node' = NodeOf(current_progstate')
    BY DEF dummycall_advance, cursor
  <1>2. \E l \in {"user", "gone", "oops"} : l \in TaskPC /\ pc' = [pc EXCEPT ![t] = l]
    BY DEF dummycall_advance, AfterError, Goto, TaskPC
  <1>3. current_progstate' \in Nat /\ start_node' \in -1..PoolCells \cup {NULL, WILD}
    <2>1. CASE current_progstate' = current_progstate /\ start_node' = start_node
      BY <2>1 DEF TypeOK
    <2>2. ASSUME nodes # NoListing, start_node \notin {NULL, WILD},
                 current_progstate' = StateTransition(pool, start_node, arg[t]),
                 start_node' = NodeOf(current_progstate')
          PROVE  current_progstate' \in Nat /\ start_node' \in -1..PoolCells \cup {NULL, WILD}
      <3>1. pool \in Block /\ start_node \in -1..PoolCells
        BY <2>2 DEF TypeOK
      <3>2. pool.cells \in [Address -> Cell] /\ start_node \in Int
        BY <3>1, PoolAssumption DEF Block
      <3>3. current_progstate' \in Nat
        BY <2>2, <3>2, TransitionType
      <3> QED
        BY <2>2, <3>3, SlotType
    <2> QED
      BY <1>1, <2>1, <2>2
  <1>4. own' \in [Task -> SUBSET Nat]
    <2>1. own \in [Task -> SUBSET Nat]
      BY DEF TypeOK
    <2>2. Monitor!After(Policy[t], own[t], arg[t]) \in SUBSET Nat
      BY <2>1, AfterType
    <2> QED
      BY <1>1, <2>1, <2>2
  <1>5. arg' \in [Task -> Call \cup {NULL}]
    BY <1>1 DEF TypeOK
  <1> QED
    BY <1>1, <1>2, <1>3, <1>4, <1>5, TypeMove DEF TypeOK, graph, frame, memory, count

\* sandbox_cleanup touches the copy buffer only.
LEMMA TypeCleanup ==
    ASSUME TypeOK, NEW t \in Task, sandbox_cleanup(t)
    PROVE  TypeOK'
  BY DEF TypeOK, sandbox_cleanup, kfree, graph, cursor, frame, count

\* The end of a process changes nothing in the kernel.
LEMMA TypeExit ==
    ASSUME TypeOK, NEW t \in Task, exit(t)
    PROVE  TypeOK'
  <1>1. pc' = [pc EXCEPT ![t] = "gone"] /\ "gone" \in TaskPC
    BY DEF exit, Goto, TaskPC
  <1>2. UNCHANGED <<graph, cursor, frame, memory, count, arg, own>>
    BY DEF exit
  <1> QED
    BY <1>1, <1>2, TypeMove DEF TypeOK, graph, cursor, frame, memory, count

\* Every step of every task keeps the types.
LEMMA TypeStep ==
    ASSUME TypeOK, [Next]_vars
    PROVE  TypeOK'
  <1>1. CASE UNCHANGED vars
    BY <1>1 DEF vars, graph, cursor, frame, memory, count, TypeOK
  <1>2. CASE Next
    BY <1>2, TypeExec, TypeInitFree, TypeInitAlloc, TypeInitCopy, TypeCopyFromUser,
       TypeInitDump, TypeInitCall, TypeInitMemset, TypeInitMemcpy, TypeVerifyEntry,
       TypeVerifyList, TypeVerifyLoop, TypeInitReset, TypeDummycall,
       TypeDummycallCheck, TypeDummycallAdvance, TypeCleanup, TypeExit
       DEF Next, InKernel
  <1> QED
    BY <1>1, <1>2

\* They hold before the first sandbox_init.
LEMMA TypeInit ==
    ASSUME Init
    PROVE  TypeOK
  <1>1. contents \in [Buffer -> Block]
    BY SandboxAssumption DEF Init
  <1>2. 0 \in -1..PoolCells /\ -1 \in -1..PoolCells /\ 0 \in 0..MaxCalls
    BY PoolAssumption, SandboxAssumption
  <1> QED
    BY <1>1, <1>2 DEF Init, TypeOK, TaskPC, KernelPC

\* However many tasks run, however their system calls overlap and wherever a memset
\* or copy is interrupted, the globals of sandboxing.c and memgraph.c keep their
\* types: the listing and the cursor point into the pool or at its metadata unless
\* they are NULL or were read past the end of the listing, and nothing is cleared,
\* copied or scanned through a pool pointer that is NULL.
THEOREM SandboxTypeCorrect == Spec => []TypeOK
  <1>1. Init => TypeOK
    BY TypeInit
  <1>2. TypeOK /\ [Next]_vars => TypeOK'
    BY TypeStep
  <1> QED
    BY <1>1, <1>2, PTL DEF Spec

-----------------------------------------------------------------------------
(* System calls that do not overlap. *)

\* Before it begins, a copy has copied nothing.
LEMMA CopiedNone ==
    ASSUME NEW block, NEW new, NEW t
    PROVE  Copied(block, new, t, -1)
  <1>1. \A a \in Address : ~(a < -1)
    BY PoolAssumption DEF Address
  <1> QED
    BY <1>1 DEF Copied

\* A further part of a copy; the source holds new as far as t's size goes.
LEMMA PieceCopied ==
    ASSUME NEW old \in Block, NEW new \in Block, NEW src \in Block, NEW t \in Task,
           NEW p \in -1..PoolCells, NEW q \in 0..PoolCells, q <= End(t),
           Copied(old, new, t, p), Copied(src, new, t, End(t))
    PROVE  Copied(Piece(old, src, t, p, q), new, t, q)
  <1> DEFINE table == [a \in Address |-> IF p <= a /\ a < q THEN src.cells[a] ELSE old.cells[a]]
             r == Piece(old, src, t, p, q)
  <1>0. End(t) # -1 /\ (t \in Full => End(t) = PoolCells) /\ \A a \in Address : a \in Nat /\ a < PoolCells
    BY PoolAssumption DEF End, Address
  <1>1. ASSUME t \in Full, NEW a \in Address, a < q
        PROVE  table[a] = new.cells[a]
    <2>1. src.cells[a] = new.cells[a]
      BY <1>0, <1>1 DEF Copied
    <2>2. a < p => old.cells[a] = new.cells[a]
      BY <1>1 DEF Copied
    <2>3. p <= a \/ a < p
      BY <1>0
    <2> QED
      BY <1>1, <2>1, <2>2, <2>3
  <1>2. t \in Full => r.cells = table
    <2> HIDE DEF table
    <2>1. [old EXCEPT !.cells = table].cells = table /\ [src EXCEPT !.cells = table].cells = table
      BY DEF Block
    <2> QED
      BY <2>1 DEF Piece, table
  <1>3. /\ src.magic = new.magic /\ src.graph_finalized = new.graph_finalized
        /\ t \in Full => /\ src.num_nodes = new.num_nodes
                         /\ src.nodes_table_offset = new.nodes_table_offset
    BY <1>0 DEF Copied
  <1>4. /\ r.magic = new.magic /\ r.graph_finalized = new.graph_finalized
        /\ t \in Full => /\ r.num_nodes = new.num_nodes
                         /\ r.nodes_table_offset = new.nodes_table_offset
    <2>1. CASE p # -1
      <3>1. /\ old.magic = new.magic /\ old.graph_finalized = new.graph_finalized
            /\ t \in Full => /\ old.num_nodes = new.num_nodes
                             /\ old.nodes_table_offset = new.nodes_table_offset
        BY <2>1 DEF Copied
      <3>2. r = [old EXCEPT !.cells = table]
        BY <2>1 DEF Piece
      <3> HIDE DEF r, table
      <3> QED
        BY <3>1, <3>2 DEF Block
    <2>2. CASE p = -1 /\ t \in Full
      <3>1. r = [src EXCEPT !.cells = table]
        BY <2>2 DEF Piece
      <3> HIDE DEF r, table
      <3> QED
        BY <1>3, <3>1 DEF Block
    <2>3. CASE p = -1 /\ t \notin Full
      <3>1. r = [old EXCEPT !.magic = src.magic, !.graph_finalized = src.graph_finalized]
        BY <2>3 DEF Piece
      <3> HIDE DEF r, table
      <3> QED
        BY <1>3, <2>3, <3>1 DEF Block
    <2> QED
      BY <2>1, <2>2, <2>3
  <1> HIDE DEF r, table
  <1> QED
    BY <1>1, <1>2, <1>4 DEF Copied, r

\* A block holds itself.
LEMMA CopiedSelf ==
    ASSUME NEW block, NEW t, NEW p
    PROVE  Copied(block, block, t, p)
  BY DEF Copied

\* A copy of full size that has ended leaves exactly what was copied.
LEMMA CopiedAll ==
    ASSUME NEW block \in Block, NEW new \in Block, NEW t \in Full, Copied(block, new, t, PoolCells)
    PROVE  block = new
  <1>1. PoolCells # -1 /\ \A a \in Address : a < PoolCells
    BY PoolAssumption DEF Address
  <1>2. /\ block.magic = new.magic /\ block.graph_finalized = new.graph_finalized
        /\ block.num_nodes = new.num_nodes /\ block.nodes_table_offset = new.nodes_table_offset
        /\ \A a \in Address : block.cells[a] = new.cells[a]
    BY <1>1 DEF Copied
  <1>3. block.cells \in [Address -> Cell] /\ new.cells \in [Address -> Cell]
    BY DEF Block
  <1>4. block.cells = new.cells
    BY <1>2, <1>3
  <1> QED
    BY <1>2, <1>4 DEF Block

\* A task enters a system call only when none is inside one.
LEMMA SerialEnter ==
    ASSUME MaxInKernel = 1, SerialInv, Cardinality(Inside) < MaxInKernel
    PROVE  Inside = {}
  <1>1. SUFFICES ASSUME NEW u \in Inside PROVE FALSE
    OBVIOUS
  <1>2. Inside = {u}
    BY DEF SerialInv
  <1>3. Cardinality(Inside) = 1
    BY <1>2, FS_Singleton
  <1> QED
    BY <1>3

\* Outside memset and memcpy the node table is whole.
LEMMA SerialTable ==
    ASSUME TypeOK, SerialInv, NEW t \in Task,
           Inside = {} \/ t \in Inside,
           t \notin Full \/ pc[t] \notin {"memset", "memcpy"}
    PROVE  pool = NULL \/ Whole(pool.cells)
  BY DEF SerialInv, Inside, KernelPC, Full

\* SerialInv is kept by a step of the task that is in the kernel, or enters it, when
\* it leaves the task with its own data and the table whole.
LEMMA SerialMove ==
    ASSUME TypeOK, SerialInv, NEW t \in Task, Inside = {} \/ t \in Inside,
           \A u \in Task : u # t => pc'[u] = pc[u] /\ done'[u] = done[u],
           \/ pool' = NULL
           \/ t \in Full /\ pc'[t] \in {"memset", "memcpy"}
           \/ Whole(pool'.cells),
           LoadInv(t)'
    PROVE  SerialInv'
  <1>1. \A u \in Task : u # t => pc[u] \notin KernelPC
    BY DEF SerialInv, Inside
  <1>2. \A x, y \in Inside' : x = y
    BY <1>1 DEF Inside
  <1>3. ASSUME NEW u \in Task, u # t
        PROVE  LoadInv(u)'
    <2>1. pc'[u] = pc[u] /\ pc[u] \notin KernelPC /\ done'[u] = done[u] /\ done[u] = -1
      BY <1>1, <1>3 DEF SerialInv, LoadInv, KernelPC
    <2> QED
      BY <2>1 DEF LoadInv, KernelPC
  <1> QED
    BY <1>2, <1>3 DEF SerialInv, Whole

\* Such a step, when it leaves memory and pool alone and the task at a label that
\* asks no more than the one before.
LEMMA SerialQuiet ==
    ASSUME TypeOK, SerialInv, NEW t \in Task, Inside = {} \/ t \in Inside,
           NEW l, pc' = [pc EXCEPT ![t] = l], UNCHANGED <<pool, done>>,
           pc[t] \notin {"fill", "memset", "memcpy"},
           l \in {"new", "user", "killed", "oops", "gone", "init", "alloc", "check", "advance"}
    PROVE  SerialInv'
  <1>1. pc'[t] = l /\ \A u \in Task : u # t => pc'[u] = pc[u]
    BY DEF TypeOK
  <1>2. done'[t] = -1
    BY DEF SerialInv, LoadInv
  <1>3. LoadInv(t)'
    BY <1>1, <1>2 DEF LoadInv
  <1>4. pool' = NULL \/ Whole(pool'.cells)
    BY SerialTable
  <1> QED
    BY <1>1, <1>3, <1>4, SerialMove

\* A program starts, or enters another function that the pass takes for main.
LEMMA SerialExec ==
    ASSUME MaxInKernel = 1, TypeOK, SerialInv, NEW t \in Task, exec(t)
    PROVE  SerialInv'
  <1>1. Inside = {}
    BY SerialEnter DEF exec, Enter
  <1>2. /\ pc' = [pc EXCEPT ![t] = "init"] /\ UNCHANGED <<pool, done>>
        /\ pc[t] \notin {"fill", "memset", "memcpy"}
    BY DEF exec, Enter, Goto, graph, frame
  <1> QED
    BY <1>1, <1>2, SerialQuiet

\* A library call is announced.
LEMMA SerialDummycall ==
    ASSUME MaxInKernel = 1, TypeOK, SerialInv, NEW t \in Task, NEW call \in Call, dummycall(t, call)
    PROVE  SerialInv'
  <1>1. Inside = {}
    BY SerialEnter DEF dummycall, Enter
  <1>2. /\ pc' = [pc EXCEPT ![t] = "check"] /\ UNCHANGED <<pool, done>>
        /\ pc[t] \notin {"fill", "memset", "memcpy"}
    BY DEF dummycall, Enter, Goto, graph, frame
  <1> QED
    BY <1>1, <1>2, SerialQuiet

\* The steps that leave buffers, pool and table alone.
LEMMA SerialReturns ==
    ASSUME TypeOK, SerialInv, NEW t \in Task,
           \/ init_free(t) \/ init_reset(t) \/ dummycall_check(t) \/ dummycall_advance(t)
    PROVE  SerialInv'
  <1>1. /\ pc[t] \in {"init", "reset", "check", "advance"} /\ UNCHANGED <<pool, done>>
        /\ \E l \in {"user", "killed", "oops", "gone", "alloc", "advance"} : pc' = [pc EXCEPT ![t] = l]
    BY DEF init_free, init_reset, dummycall_check, dummycall_advance, AfterError, Goto, graph, frame
  <1>2. t \in Inside
    BY <1>1 DEF Inside, KernelPC
  <1> QED
    BY <1>1, <1>2, SerialQuiet

\* kmalloc gives a buffer, or the call returns.
LEMMA SerialInitAlloc ==
    ASSUME TypeOK, SerialInv, NEW t \in Task, init_alloc(t)
    PROVE  SerialInv'
  <1>1. /\ pc[t] = "alloc" /\ UNCHANGED <<pool, done>>
        /\ \/ kernel_buffer' \in Buffer /\ pc' = [pc EXCEPT ![t] = "copy"]
           \/ pc' = [pc EXCEPT ![t] = "user"]
    BY DEF init_alloc, Goto, graph, frame
  <1>2. t \in Inside
    BY <1>1 DEF Inside, KernelPC
  <1>3. CASE pc' = [pc EXCEPT ![t] = "user"]
    BY <1>1, <1>2, <1>3, SerialQuiet
  <1>4. CASE kernel_buffer' \in Buffer /\ pc' = [pc EXCEPT ![t] = "copy"]
    <2>1. pc'[t] = "copy" /\ \A u \in Task : u # t => pc'[u] = pc[u]
      BY <1>4 DEF TypeOK
    <2>2. done'[t] = -1 /\ kernel_buffer' # NULL
      BY <1>1, <1>4, SandboxAssumption DEF SerialInv, LoadInv
    <2>3. LoadInv(t)'
      BY <2>1, <2>2 DEF LoadInv
    <2>4. pool' = NULL \/ Whole(pool'.cells)
      BY <1>1, <1>2, SerialTable
    <2> QED
      BY <1>1, <1>2, <2>1, <2>3, <2>4, SerialMove
  <1> QED
    BY <1>1, <1>3, <1>4

\* copy_from_user begins with the buffer that was allocated.
LEMMA SerialInitCopy ==
    ASSUME TypeOK, SerialInv, NEW t \in Task, init_copy(t)
    PROVE  SerialInv'
  <1>1. /\ pc[t] = "copy" /\ UNCHANGED <<pool, done, kernel_buffer, contents>>
        /\ data' = [data EXCEPT ![t] = kernel_buffer]
    BY DEF init_copy, graph, memory
  <1>2. t \in Inside /\ kernel_buffer # NULL /\ done[t] = -1
    BY <1>1 DEF Inside, KernelPC, SerialInv, LoadInv
  <1>3. pc' = [pc EXCEPT ![t] = "fill"]
    BY <1>2 DEF init_copy, Goto
  <1>4. pc'[t] = "fill" /\ \A u \in Task : u # t => pc'[u] = pc[u]
    BY <1>3 DEF TypeOK
  <1>5. data'[t] = kernel_buffer /\ data'[t] = kernel_buffer' /\ done'[t] = -1
    BY <1>1, <1>2 DEF TypeOK
  <1>6. Copied(contents'[data'[t]], Data(t), t, done'[t])
    BY <1>5, CopiedNone
  <1>7. LoadInv(t)'
    BY <1>2, <1>4, <1>5, <1>6 DEF LoadInv, Copied
  <1>8. pool' = NULL \/ Whole(pool'.cells)
    BY <1>1, <1>2, SerialTable
  <1> QED
    BY <1>1, <1>2, <1>4, <1>7, <1>8, SerialMove

\* What a part of a memset or copy does to the label and the position of its task.
LEMMA SerialGoesOn ==
    ASSUME TypeOK, NEW t \in Task, NEW q \in Reach(t, done[t]), NEW next, GoesOn(t, q, next)
    PROVE  /\ \A u \in Task : u # t => pc'[u] = pc[u] /\ done'[u] = done[u]
           /\ \/ q = End(t) /\ done'[t] = -1 /\ pc'[t] = next
              \/ q # End(t) /\ done'[t] = q /\ pc'[t] = pc[t]
           /\ q \in 0..PoolCells /\ q <= End(t) /\ done[t] < q /\ done[t] \in -1..PoolCells
           /\ End(t) \in 0..PoolCells
  <1>1. done \in [Task -> -1..PoolCells] /\ pc \in [Task -> TaskPC]
    BY DEF TypeOK
  <1>2. /\ q \in 0..PoolCells /\ q <= End(t) /\ done[t] < q /\ End(t) \in 0..PoolCells
    BY <1>1, ReachType
  <1>3. \/ q = End(t) /\ done' = [done EXCEPT ![t] = -1] /\ pc' = [pc EXCEPT ![t] = next]
        \/ q # End(t) /\ done' = [done EXCEPT ![t] = q] /\ pc' = pc
    BY DEF GoesOn, Goto
  <1> QED
    BY <1>1, <1>2, <1>3

\* copy_from_user fills the task's own buffer.
LEMMA SerialCopyFromUser ==
    ASSUME TypeOK, SerialInv, NEW t \in Task, copy_from_user(t)
    PROVE  SerialInv'
  <1>1. /\ pc[t] = "fill" /\ UNCHANGED <<pool, data, kernel_buffer>> /\ t \in Inside
    BY DEF copy_from_user, graph, Inside, KernelPC
  <1>2. /\ data[t] = kernel_buffer /\ data[t] \in Buffer /\ kernel_buffer # NULL
        /\ contents \in [Buffer -> Block] /\ contents[data[t]] \in Block
        /\ Copied(contents[data[t]], Data(t), t, done[t])
    <2>1. data[t] = kernel_buffer /\ kernel_buffer # NULL /\ Copied(contents[data[t]], Data(t), t, done[t])
      BY <1>1 DEF SerialInv, LoadInv
    <2>2. data[t] \in Buffer /\ contents \in [Buffer -> Block]
      BY <1>1 DEF TypeOK
    <2> QED
      BY <2>1, <2>2
  <1>3. pool' = NULL \/ Whole(pool'.cells)
    BY <1>1, SerialTable
  <1>4. CASE done' = [done EXCEPT ![t] = -1] /\ Goto(t, "user")
    <2>1. pc'[t] = "user" /\ done'[t] = -1 /\ \A u \in Task : u # t => pc'[u] = pc[u] /\ done'[u] = done[u]
      BY <1>4 DEF TypeOK, Goto
    <2>2. LoadInv(t)'
      BY <2>1 DEF LoadInv
    <2> QED
      BY <1>1, <1>3, <2>1, <2>2, SerialMove
  <1>5. ASSUME NEW q \in Reach(t, done[t]),
               contents' = [contents EXCEPT ![data[t]] = Piece(contents[data[t]], Data(t), t, done[t], q)],
               GoesOn(t, q, "dump")
        PROVE  SerialInv'
    <2>1. /\ \A u \in Task : u # t => pc'[u] = pc[u] /\ done'[u] = done[u]
          /\ \/ q = End(t) /\ done'[t] = -1 /\ pc'[t] = "dump"
             \/ q # End(t) /\ done'[t] = q /\ pc'[t] = pc[t]
          /\ q \in 0..PoolCells /\ q <= End(t) /\ done[t] \in -1..PoolCells
      BY <1>5, SerialGoesOn
    <2>2. contents'[data[t]] = Piece(contents[data[t]], Data(t), t, done[t], q)
      BY <1>2, <1>5
    <2>3. Data(t) \in Block /\ Copied(Data(t), Data(t), t, End(t))
      BY BlockFacts, CopiedSelf
    <2>4. Copied(contents'[data[t]], Data(t), t, q)
      BY <1>2, <2>1, <2>2, <2>3, PieceCopied
    <2>5. LoadInv(t)'
      <3>1. data'[t] = kernel_buffer' /\ kernel_buffer' # NULL /\ data'[t] = data[t]
        BY <1>1, <1>2
      <3>2. Copied(contents'[data'[t]], Data(t), t, q) /\ Copied(contents'[kernel_buffer'], Data(t), t, q)
        BY <2>4, <3>1
      <3>3. CASE q = End(t) /\ done'[t] = -1 /\ pc'[t] = "dump"
        BY <3>1, <3>2, <3>3 DEF LoadInv, Copied
      <3>4. CASE q # End(t) /\ done'[t] = q /\ pc'[t] = pc[t]
        BY <1>1, <3>1, <3>2, <3>4 DEF LoadInv, Copied
      <3> QED
        BY <2>1, <3>3, <3>4
    <2> QED
      BY <1>1, <1>3, <2>1, <2>5, SerialMove
  <1> QED
    BY <1>4, <1>5 DEF copy_from_user, AfterFailedCopy

\* The dump, for which the pointer is not NULL.
LEMMA SerialInitDump ==
    ASSUME TypeOK, SerialInv, NEW t \in Task, init_dump(t)
    PROVE  SerialInv'
  <1>1. pc[t] = "dump" /\ UNCHANGED <<pool, done, kernel_buffer, contents>> /\ t \in Inside
    BY DEF init_dump, graph, frame, Inside, KernelPC
  <1>2. kernel_buffer # NULL /\ done[t] = -1 /\ Copied(contents[kernel_buffer], Data(t), t, End(t))
    BY <1>1 DEF SerialInv, LoadInv
  <1>3. pc' = [pc EXCEPT ![t] = "call"]
    BY <1>2 DEF init_dump, Goto
  <1>4. pc'[t] = "call" /\ \A u \in Task : u # t => pc'[u] = pc[u]
    BY <1>3 DEF TypeOK
  <1>5. LoadInv(t)'
    BY <1>1, <1>2, <1>4 DEF LoadInv, Copied
  <1>6. pool' = NULL \/ Whole(pool'.cells)
    BY <1>1, SerialTable
  <1> QED
    BY <1>1, <1>4, <1>5, <1>6, SerialMove

\* A pool that is created is all zero but for its metadata.
LEMMA SerialInitCall ==
    ASSUME TypeOK, SerialInv, NEW t \in Task, init_call(t)
    PROVE  SerialInv'
  <1>1. /\ pc[t] = "call" /\ UNCHANGED <<done, kernel_buffer, contents>> /\ t \in Inside
        /\ data' = [data EXCEPT ![t] = kernel_buffer]
        /\ \/ pool' = ThePool /\ pc' = [pc EXCEPT ![t] = "memset"]
           \/ UNCHANGED pool /\ pc' = [pc EXCEPT ![t] = "oops"]
    BY DEF init_call, memory, Inside, KernelPC, Goto
  <1>2. kernel_buffer # NULL /\ done[t] = -1 /\ Copied(contents[kernel_buffer], Data(t), t, End(t))
    BY <1>1 DEF SerialInv, LoadInv
  <1>3. data'[t] = kernel_buffer /\ done'[t] = -1
    BY <1>1, <1>2 DEF TypeOK
  <1>4. pool = NULL \/ Whole(pool.cells)
    BY <1>1, SerialTable
  <1>5. CASE UNCHANGED pool /\ pc' = [pc EXCEPT ![t] = "oops"]
    <2>1. pc'[t] = "oops" /\ \A u \in Task : u # t => pc'[u] = pc[u]
      BY <1>5 DEF TypeOK
    <2>2. LoadInv(t)'
      BY <1>3, <2>1 DEF LoadInv
    <2> QED
      BY <1>1, <1>4, <1>5, <2>1, <2>2, SerialMove
  <1>6. CASE pool' = ThePool /\ pc' = [pc EXCEPT ![t] = "memset"]
    <2>1. pc'[t] = "memset" /\ \A u \in Task : u # t => pc'[u] = pc[u]
      BY <1>6 DEF TypeOK
    <2>2. Copied(contents'[data'[t]], Data(t), t, End(t)) /\ Copied(pool', ZeroBlock, t, done'[t])
      BY <1>1, <1>2, <1>3, CopiedNone
    <2>3. LoadInv(t)'
      BY <1>2, <1>3, <2>1, <2>2 DEF LoadInv, Copied
    <2>4. Whole(pool'.cells)
      <3>1. NewPool.cells = ZeroBlock.cells
        BY DEF NewPool, ZeroBlock
      <3> QED
        BY <1>4, <1>6, <3>1 DEF ThePool, Whole
    <2> QED
      BY <1>1, <2>1, <2>3, <2>4, SerialMove
  <1> QED
    BY <1>1, <1>5, <1>6

\* A copy of a text leaves the node table alone.
LEMMA PieceShort ==
    ASSUME NEW old \in Block, NEW new, NEW t \in Task \ Full, NEW p \in -1..PoolCells,
           NEW q \in Reach(t, p)
    PROVE  Piece(old, new, t, p, q).cells = old.cells
  <1>1. p = -1
    BY ReachType DEF End
  <1>2. Piece(old, new, t, p, q) = [old EXCEPT !.magic = new.magic, !.graph_finalized = new.graph_finalized]
    BY <1>1 DEF Piece
  <1>3. [old EXCEPT !.magic = new.magic, !.graph_finalized = new.graph_finalized].cells = old.cells
    BY DEF Block
  <1> QED
    BY <1>2, <1>3

\* The memset clears as much of the pool as the task will copy.
LEMMA SerialInitMemset ==
    ASSUME TypeOK, SerialInv, NEW t \in Task, init_memset(t)
    PROVE  SerialInv'
  <1>1. pc[t] = "memset" /\ UNCHANGED <<data, contents>> /\ t \in Inside
    BY DEF init_memset, memory, Inside, KernelPC
  <1>2. PICK q \in Reach(t, done[t]) :
           pool' = Piece(pool, ZeroBlock, t, done[t], q) /\ GoesOn(t, q, "memcpy")
    BY DEF init_memset
  <1>3. /\ \A u \in Task : u # t => pc'[u] = pc[u] /\ done'[u] = done[u]
        /\ \/ q = End(t) /\ done'[t] = -1 /\ pc'[t] = "memcpy"
           \/ q # End(t) /\ done'[t] = q /\ pc'[t] = "memset"
        /\ q \in 0..PoolCells /\ q <= End(t) /\ done[t] \in -1..PoolCells
    BY <1>1, <1>2, SerialGoesOn
  <1>4. /\ data[t] # NULL /\ Copied(contents[data[t]], Data(t), t, End(t))
        /\ Copied(pool, ZeroBlock, t, done[t])
    BY <1>1 DEF SerialInv, LoadInv
  <1>5. pool \in Block /\ pool # NULL /\ ZeroBlock \in Block
    BY <1>1, BlockFacts DEF TypeOK
  <1>6. Copied(pool', ZeroBlock, t, q) /\ Copied(pool', Data(t), t, -1)
    BY <1>2, <1>3, <1>4, <1>5, PieceCopied, CopiedSelf, CopiedNone
  <1>7. LoadInv(t)'
    BY <1>1, <1>3, <1>4, <1>6 DEF LoadInv, Copied
  <1>8. t \notin Full => Whole(pool'.cells)
    <2>1. t \notin Full => pool'.cells = pool.cells
      BY <1>2, <1>3, <1>5, PieceShort
    <2>2. t \notin Full => Whole(pool.cells)
      BY <1>1, <1>5, SerialTable
    <2> QED
      BY <2>1, <2>2
  <1> QED
    BY <1>1, <1>3, <1>7, <1>8, SerialMove

\* The memcpy puts the task's own data there.
LEMMA SerialInitMemcpy ==
    ASSUME TypeOK, SerialInv, NEW t \in Task, init_memcpy(t)
    PROVE  SerialInv'
  <1>1. pc[t] = "memcpy" /\ UNCHANGED <<data, contents>> /\ t \in Inside
    BY DEF init_memcpy, Inside, KernelPC
  <1>2. /\ data[t] # NULL /\ Copied(contents[data[t]], Data(t), t, End(t))
        /\ Copied(pool, Data(t), t, done[t])
    BY <1>1 DEF SerialInv, LoadInv
  <1>3. PICK q \in Reach(t, done[t]) :
           pool' = Piece(pool, contents[data[t]], t, done[t], q) /\ GoesOn(t, q, "entry")
    BY <1>2 DEF init_memcpy
  <1>4. /\ \A u \in Task : u # t => pc'[u] = pc[u] /\ done'[u] = done[u]
        /\ \/ q = End(t) /\ done'[t] = -1 /\ pc'[t] = "entry"
           \/ q # End(t) /\ done'[t] = q /\ pc'[t] = "memcpy"
        /\ q \in 0..PoolCells /\ q <= End(t) /\ done[t] \in -1..PoolCells
    BY <1>1, <1>3, SerialGoesOn
  <1>5. pool \in Block /\ pool # NULL /\ contents[data[t]] \in Block /\ Data(t) \in Block
    BY <1>1, <1>2, BlockFacts DEF TypeOK
  <1>6. Copied(pool', Data(t), t, q) /\ pool' \in Block
    BY <1>2, <1>3, <1>4, <1>5, PieceCopied, PieceType
  <1>7. t \in Full /\ q = End(t) => pool' = Image(Policy[t])
    BY <1>5, <1>6, CopiedAll, ReachType DEF Data, End
  <1>8. t \notin Full /\ q = End(t) => pool'.magic # "graph"
    <2>1. t \notin Full => Data(t).magic = "other"
      BY DEF Data, ZeroBlock
    <2>2. q # -1
      BY <1>4
    <2> QED
      BY <1>6, <2>1, <2>2 DEF Copied
  <1>9. LoadInv(t)'
    <2>1. CASE q = End(t) /\ done'[t] = -1 /\ pc'[t] = "entry"
      BY <1>7, <1>8, <2>1 DEF LoadInv
    <2>2. CASE q # End(t) /\ done'[t] = q /\ pc'[t] = "memcpy"
      BY <1>1, <1>2, <1>6, <2>2 DEF LoadInv, Copied
    <2> QED
      BY <1>4, <2>1, <2>2
  <1>10. Whole(pool'.cells) \/ (t \in Full /\ pc'[t] \in {"memset", "memcpy"})
    <2>1. CASE t \in Full
      BY <1>4, <1>7, <2>1 DEF Whole
    <2>2. CASE t \notin Full
      <3>1. pool'.cells = pool.cells
        BY <1>3, <1>4, <1>5, <2>2, PieceShort
      <3>2. Whole(pool.cells)
        BY <1>1, <1>5, <2>2, SerialTable
      <3> QED
        BY <3>1, <3>2
    <2> QED
      BY <2>1, <2>2
  <1> QED
    BY <1>1, <1>4, <1>9, <1>10, SerialMove

\* verify_graph scans the task's own policy, or refuses its text at once.
LEMMA SerialVerify ==
    ASSUME TypeOK, SerialInv, NEW t \in Task, verify_entry(t) \/ verify_list(t) \/ verify_loop(t)
    PROVE  SerialInv'
  <1>1. /\ pc[t] \in {"entry", "list", "loop"} /\ UNCHANGED <<pool, done>> /\ t \in Inside
        /\ pc'[t] \in {"list", "loop", "reset", "oops"}
        /\ \A u \in Task : u # t => pc'[u] = pc[u]
        /\ pc[t] = "entry" /\ pc'[t] \in {"list", "loop"} => HeaderVerdict(pool) = 1
    BY DEF verify_entry, verify_list, verify_loop, VerifyReturns, Goto, graph, Inside, KernelPC, TypeOK
  <1>2. /\ done[t] = -1 /\ (t \in Full => pool = Image(Policy[t]))
        /\ pc[t] = "entry" /\ t \notin Full => pool.magic # "graph"
        /\ pc[t] \in {"list", "loop"} => t \in Full
    BY <1>1 DEF SerialInv, LoadInv
  <1>3. pc'[t] \in {"list", "loop"} => t \in Full
    <2>1. HeaderVerdict(pool) = 1 => pool.magic = "graph"
      BY DEF HeaderVerdict
    <2> QED
      BY <1>1, <1>2, <2>1
  <1>4. LoadInv(t)'
    BY <1>1, <1>2, <1>3 DEF LoadInv
  <1>5. pool' = NULL \/ Whole(pool'.cells)
    BY <1>1, SerialTable
  <1> QED
    BY <1>1, <1>4, <1>5, SerialMove

\* sandbox_cleanup and the end of a process leave the graph alone.
LEMMA SerialOutside ==
    ASSUME MaxInKernel = 1, TypeOK, SerialInv, NEW t \in Task, sandbox_cleanup(t) \/ exit(t)
    PROVE  SerialInv'
  <1>1. CASE sandbox_cleanup(t)
    <2>1. UNCHANGED <<pool, pc, done, kernel_buffer, contents, data>>
      BY <1>1 DEF sandbox_cleanup, graph, frame
    <2> QED
      BY <2>1 DEF SerialInv, LoadInv, Copied, Inside, Whole
  <1>2. CASE exit(t)
    <2>1. /\ UNCHANGED <<pool, done, kernel_buffer, contents, data>>
          /\ pc[t] = "user" /\ pc' = [pc EXCEPT ![t] = "gone"]
      BY <1>2 DEF exit, graph, frame, memory, Goto
    <2>2. pc'[t] = "gone" /\ \A u \in Task : u # t => pc'[u] = pc[u]
      BY <2>1 DEF TypeOK
    <2>3. ASSUME NEW u \in Task PROVE LoadInv(u)'
      <3>1. CASE u = t
        BY <2>1, <2>2, <3>1 DEF SerialInv, LoadInv
      <3>2. CASE u # t
        BY <2>1, <2>2, <3>2 DEF SerialInv, LoadInv, Copied
      <3> QED
        BY <3>1, <3>2
    <2>4. \A u \in Inside' : u \in Inside
      BY <2>2 DEF Inside, KernelPC
    <2>5. \A u \in Full : pc[u] \in {"memset", "memcpy"} => pc'[u] \in {"memset", "memcpy"}
      BY <2>1, <2>2 DEF Full
    <2> QED
      BY <2>1, <2>3, <2>4, <2>5 DEF SerialInv, Whole
  <1> QED
    BY <1>1, <1>2

\* When only one task is in the kernel at a time, every step keeps SerialInv.
LEMMA SerialStep ==
    ASSUME MaxInKernel = 1, TypeOK, SerialInv, [Next]_vars
    PROVE  SerialInv'
  <1>1. CASE UNCHANGED vars
    BY <1>1 DEF vars, graph, cursor, frame, memory, SerialInv, LoadInv, Copied, Inside, Whole
  <1>2. CASE Next
    BY <1>2, SerialExec, SerialDummycall, SerialReturns, SerialInitAlloc, SerialInitCopy,
       SerialCopyFromUser, SerialInitDump, SerialInitCall, SerialInitMemset,
       SerialInitMemcpy, SerialVerify, SerialOutside
       DEF Next, InKernel
  <1> QED
    BY <1>1, <1>2

\* SerialInv holds before the first sandbox_init.
LEMMA SerialInit ==
    ASSUME Init
    PROVE  SerialInv
  BY DEF Init, SerialInv, LoadInv, Inside, KernelPC

\* When system calls do not overlap, the node table of the pool is all zero or that
\* of one policy except while a task clears or copies it, and a task that comes to
\* the end of its sandbox_init finds its own policy in the pool, whatever was in the
\* buffers and wherever its copies were interrupted.
THEOREM SerialInductive == ASSUME MaxInKernel = 1 PROVE Spec => []SerialInv
  <1>1. Init => SerialInv
    BY SerialInit
  <1>2. TypeOK /\ SerialInv /\ [Next]_vars => SerialInv'
    BY SerialStep
  <1> QED
    BY <1>1, <1>2, SandboxTypeCorrect, PTL DEF Spec

\* In one step the cursor stays, goes back to the root, or follows an edge of the
\* policy whose node table is in the pool.
LEMMA MovesStep ==
    ASSUME TypeOK, SerialInv, [Next]_vars, current_progstate' \notin {0, current_progstate}
    PROVE  \E t, u \in Task : \E s \in 1..Len(Policy[u]) : \E j \in 1..Len(Policy[u][s]) :
              /\ pc[t] = "advance"
              /\ Policy[u][s][j] = [libcallid |-> arg[t], next_progstate |-> current_progstate']
  <1>1. PICK t \in Task : dummycall_advance(t)
    BY DEF Next, InKernel, vars, cursor, exec, init_free, init_alloc, init_copy, copy_from_user,
           init_dump, init_call, init_memset, init_memcpy, verify_entry, verify_list,
           verify_loop, init_reset, dummycall, dummycall_check, sandbox_cleanup, exit
  <1>2. /\ pc[t] = "advance" /\ start_node \notin {NULL, WILD} /\ nodes # NoListing
        /\ current_progstate' = StateTransition(pool, start_node, arg[t])
    BY <1>1 DEF dummycall_advance, cursor
  <1>3. pool \in Block /\ pool # NULL /\ start_node \in Int
    <2>1. pool \in Block /\ pool # NULL /\ start_node \in -1..PoolCells
      BY <1>2 DEF TypeOK
    <2> QED
      BY <2>1, PoolAssumption
  <1>4. CellAt(pool, start_node).magic = "node"
    BY <1>2 DEF StateTransition
  <1>5. PICK u \in Task : pool.cells = Image(Policy[u]).cells
    <2>1. pool.cells # ZeroBlock.cells
      <3>1. SUFFICES ASSUME pool.cells = ZeroBlock.cells PROVE FALSE
        OBVIOUS
      <3>2. start_node \in Address => pool.cells[start_node] = ZeroCell
        BY <3>1 DEF ZeroBlock
      <3> QED
        BY <1>4, <3>2 DEF CellAt, ZeroCell
    <2>2. Whole(pool.cells)
      <3>1. t \in Inside
        BY <1>2 DEF Inside, KernelPC
      <3> QED
        BY <1>2, <1>3, <3>1, SerialTable
    <2> QED
      BY <2>1, <2>2 DEF Whole
  <1>6. Fits(Policy[u]) /\ Len(Policy[u]) \in Nat
    BY Policies, PolicyEdges
  <1>7. PICK s \in 0..(Len(Policy[u]) - 1) : start_node = Start(Policy[u])[s]
    BY <1>3, <1>4, <1>5, <1>6, ImageNode
  <1>8. PICK j \in 1..Len(Policy[u][s + 1]) :
           /\ Policy[u][s + 1][j].libcallid = arg[t]
           /\ Policy[u][s + 1][j].next_progstate = current_progstate'
    <2>1. StateTransition(pool, Start(Policy[u])[s], arg[t]) = current_progstate'
      BY <1>2, <1>7
    <2>2. Leads(Policy[u], s, arg[t], current_progstate')
      BY <1>3, <1>5, <1>6, <2>1, ImageTransition
    <2> QED
      BY <2>2 DEF Leads
  <1>9. s + 1 \in 1..Len(Policy[u])
    BY <1>6
  <1>10. Policy[u][s + 1][j] = [libcallid |-> arg[t], next_progstate |-> current_progstate']
    <2>1. Policy[u][s + 1][j] \in Edge(Nat, Nat)
      BY <1>9, Policies, PolicyEdges
    <2> QED
      BY <1>8, <2>1 DEF Edge
  <1> QED
    BY <1>2, <1>9, <1>10

\* When system calls do not overlap, however many programs run and however they
\* interleave their calls, the cursor moves only along an edge of some task's
\* policy, labelled with the call that was just checked, or back to the root.
THEOREM MovesCorrect == ASSUME MaxInKernel = 1 PROVE Spec => MovesAlongSomeEdge
  <1>1. TypeOK /\ SerialInv /\ [Next]_vars =>
           [current_progstate' \notin {0, current_progstate} =>
              \E t, u \in Task : \E s \in 1..Len(Policy[u]) : \E j \in 1..Len(Policy[u][s]) :
                 /\ pc[t] = "advance"
                 /\ Policy[u][s][j] = [libcallid |-> arg[t],
                                        next_progstate |-> current_progstate']]_vars
    BY MovesStep
  <1> QED
    BY <1>1, SandboxTypeCorrect, SerialInductive, PTL DEF Spec, MovesAlongSomeEdge

\* LiveInv is kept by a step of the task that is in the kernel, or enters it, when it
\* leaves the task with a buffer of its own.
LEMMA LiveMove ==
    ASSUME TypeOK, SerialInv, NEW t \in Task, Inside = {} \/ t \in Inside,
           NEW l, pc' = pc \/ pc' = [pc EXCEPT ![t] = l],
           BuffersLive', LiveAt(t)'
    PROVE  LiveInv'
  <1>1. \A u \in Task : u # t => pc[u] \notin KernelPC
    BY DEF SerialInv, Inside
  <1>2. \A u \in Task : u # t => pc'[u] = pc[u]
    BY DEF TypeOK
  <1>3. ASSUME NEW u \in Task, u # t
        PROVE  LiveAt(u)'
    BY <1>1, <1>2, <1>3 DEF LiveAt, KernelPC
  <1> QED
    BY <1>3 DEF LiveInv

\* Freeing adds no other memory error than a double free.
LEMMA LiveFree ==
    ASSUME BuffersLive, kfree({})
    PROVE  BuffersLive'
  BY DEF BuffersLive, kfree

\* A step of the caller of sandbox_init up to the copy into the pool.
LEMMA LiveLoad ==
    ASSUME TypeOK, SerialInv, LiveInv, NEW t \in Task,
           \/ init_free(t) \/ init_alloc(t) \/ init_copy(t) \/ copy_from_user(t)
           \/ init_dump(t) \/ init_call(t) \/ init_memset(t) \/ init_memcpy(t)
    PROVE  LiveInv'
  <1>1. /\ t \in Inside /\ LiveAt(t) /\ BuffersLive /\ LoadInv(t)
        /\ pc \in [Task -> TaskPC] /\ data \in [Task -> Buffer \cup {NULL}]
        /\ size \in [Buffer -> {"full", "short"}]
    BY DEF LiveInv, SerialInv, TypeOK, Inside, KernelPC, init_free, init_alloc, init_copy,
           copy_from_user, init_dump, init_call, init_memset, init_memcpy
  <1>2. CASE init_free(t)
    <2>1. pc' = [pc EXCEPT ![t] = "user"] \/ pc' = [pc EXCEPT ![t] = "alloc"]
      BY <1>2 DEF init_free, Goto
    <2>2. BuffersLive'
      <3>1. UNCHANGED faults \/ kfree({})
        BY <1>2 DEF init_free, free_existing
      <3> QED
        BY <1>1, <3>1, LiveFree DEF BuffersLive
    <2>3. LiveAt(t)'
      BY <1>1, <2>1 DEF LiveAt
    <2> QED
      BY <1>1, <2>1, <2>2, <2>3, LiveMove
  <1>3. CASE init_alloc(t)
    <2>1. BuffersLive'
      BY <1>1, <1>3 DEF init_alloc, BuffersLive
    <2>2. CASE pc' = [pc EXCEPT ![t] = "user"]
      <3>1. LiveAt(t)'
        BY <1>1, <2>2 DEF LiveAt
      <3> QED
        BY <1>1, <2>1, <2>2, <3>1, LiveMove
    <2>3. ASSUME NEW b \in Buffer, kernel_buffer' = b, allocated' = allocated \cup {b},
                 size' = [size EXCEPT ![b] = IF t \in Full THEN "full" ELSE "short"],
                 pc' = [pc EXCEPT ![t] = "copy"]
          PROVE  LiveInv'
      <3>1. Access(t, kernel_buffer)' = {}
        BY <1>1, <2>3 DEF Access
      <3>2. LiveAt(t)'
        BY <1>1, <2>3, <3>1 DEF LiveAt
      <3> QED
        BY <1>1, <2>1, <2>3, <3>2, LiveMove
    <2> QED
      BY <1>3, <2>2, <2>3 DEF init_alloc, Goto
  <1>4. CASE init_copy(t)
    <2>1. /\ pc[t] = "copy" /\ UNCHANGED memory /\ data' = [data EXCEPT ![t] = kernel_buffer]
          /\ \E l \in {"oops", "fill"} : pc' = [pc EXCEPT ![t] = l]
      BY <1>4 DEF init_copy, Goto
    <2>2. BuffersLive' /\ Access(t, kernel_buffer)' = Access(t, kernel_buffer)
      BY <1>1, <2>1 DEF BuffersLive, Access, memory
    <2>3. LiveAt(t)'
      BY <1>1, <2>1, <2>2 DEF LiveAt
    <2> QED
      BY <1>1, <2>1, <2>2, <2>3, LiveMove
  <1>5. CASE copy_from_user(t)
    <2>1. /\ pc[t] = "fill" /\ data[t] = kernel_buffer /\ UNCHANGED <<kernel_buffer, size>>
          /\ Access(t, data[t]) = {}
      BY <1>1, <1>5 DEF copy_from_user, LoadInv, LiveAt
    <2>2. CASE pc' = [pc EXCEPT ![t] = "user"] /\ kfree({})
      <3>1. LiveAt(t)'
        BY <1>1, <2>2 DEF LiveAt
      <3> QED
        BY <1>1, <2>2, <3>1, LiveFree, LiveMove
    <2>3. CASE /\ pc' = pc \/ pc' = [pc EXCEPT ![t] = "dump"]
               /\ UNCHANGED <<allocated, faults>>
      <3>1. BuffersLive' /\ Access(t, kernel_buffer)' = {}
        BY <1>1, <2>1, <2>3 DEF BuffersLive, Access
      <3>2. LiveAt(t)'
        BY <1>1, <2>1, <2>3, <3>1 DEF LiveAt
      <3> QED
        BY <1>1, <2>3, <3>1, <3>2, LiveMove
    <2>4. \/ pc' = [pc EXCEPT ![t] = "user"] /\ kfree({})
          \/ /\ pc' = pc \/ pc' = [pc EXCEPT ![t] = "dump"]
             /\ UNCHANGED <<allocated, faults>>
      BY <1>5, <2>1 DEF copy_from_user, AfterFailedCopy, GoesOn, Goto
    <2> QED
      BY <2>2, <2>3, <2>4
  <1>6. CASE init_dump(t)
    <2>1. /\ pc[t] = "dump" /\ UNCHANGED <<kernel_buffer, allocated, size, faults>>
          /\ \E l \in {"oops", "call"} : pc' = [pc EXCEPT ![t] = l]
      BY <1>1, <1>6 DEF init_dump, Goto, LiveAt
    <2>2. BuffersLive' /\ Access(t, kernel_buffer)' = Access(t, kernel_buffer)
      BY <1>1, <2>1 DEF BuffersLive, Access
    <2>3. LiveAt(t)'
      BY <1>1, <2>1, <2>2 DEF LiveAt
    <2> QED
      BY <1>1, <2>1, <2>2, <2>3, LiveMove
  <1>7. CASE init_call(t)
    <2>1. /\ pc[t] = "call" /\ UNCHANGED memory /\ data' = [data EXCEPT ![t] = kernel_buffer]
          /\ \E l \in {"oops", "memset"} : pc' = [pc EXCEPT ![t] = l]
      BY <1>7 DEF init_call, Goto
    <2>2. /\ BuffersLive' /\ data'[t] = kernel_buffer
          /\ Access(t, data[t])' = Access(t, kernel_buffer)
      BY <1>1, <2>1 DEF BuffersLive, Access, memory
    <2>3. LiveAt(t)'
      BY <1>1, <2>1, <2>2 DEF LiveAt
    <2> QED
      BY <1>1, <2>1, <2>2, <2>3, LiveMove
  <1>8. CASE init_memset(t) \/ init_memcpy(t)
    <2>1. /\ UNCHANGED <<allocated, size, data>> /\ pc[t] \in {"memset", "memcpy"}
          /\ pc' = pc \/ \E l \in {"memcpy", "entry", "reset"} : pc' = [pc EXCEPT ![t] = l]
      BY <1>8 DEF init_memset, init_memcpy, GoesOn, Goto, memory
    <2>2. UNCHANGED faults
      <3>1. Access(t, data[t]) = {}
        BY <1>1, <2>1 DEF LiveAt
      <3> QED
        BY <1>8, <3>1 DEF init_memset, init_memcpy, memory
    <2>3. BuffersLive' /\ Access(t, data[t])' = Access(t, data[t])
      BY <1>1, <2>1, <2>2 DEF BuffersLive, Access
    <2>4. LiveAt(t)'
      BY <1>1, <2>1, <2>3 DEF LiveAt
    <2> QED
      BY <1>1, <2>1, <2>3, <2>4, LiveMove
  <1> QED
    BY <1>2, <1>3, <1>4, <1>5, <1>6, <1>7, <1>8

\* A buffer is its caller's own from kmalloc to the end of the copy into the pool:
\* nobody else is in the kernel meanwhile.
LEMMA LiveStep ==
    ASSUME MaxInKernel = 1, TypeOK, SerialInv, LiveInv, [Next]_vars
    PROVE  LiveInv'
  <1>0. BuffersLive /\ pc \in [Task -> TaskPC]
    BY DEF LiveInv, TypeOK
  <1>1. CASE UNCHANGED vars
    BY <1>1 DEF vars, memory, frame, LiveInv, LiveAt, BuffersLive, Access
  <1>2. ASSUME NEW t \in Task, exec(t) \/ \E call \in Call : dummycall(t, call)
        PROVE  LiveInv'
    <2>1. /\ Inside = {} /\ UNCHANGED memory
          /\ \E l \in {"init", "check"} : pc' = [pc EXCEPT ![t] = l]
      BY <1>2, SerialEnter DEF exec, dummycall, Enter, Goto
    <2>2. BuffersLive' /\ LiveAt(t)'
      BY <1>0, <2>1 DEF BuffersLive, LiveAt, memory
    <2> QED
      BY <2>1, <2>2, LiveMove
  <1>3. ASSUME NEW t \in Task,
               \/ init_free(t) \/ init_alloc(t) \/ init_copy(t) \/ copy_from_user(t)
               \/ init_dump(t) \/ init_call(t) \/ init_memset(t) \/ init_memcpy(t)
        PROVE  LiveInv'
    BY <1>3, LiveLoad
  <1>4. ASSUME NEW t \in Task,
               \/ verify_entry(t) \/ verify_list(t) \/ verify_loop(t) \/ init_reset(t)
               \/ dummycall_check(t) \/ dummycall_advance(t)
        PROVE  LiveInv'
    <2>1. t \in Inside /\ pc[t] \notin {"copy", "fill", "dump", "call", "memset", "memcpy"}
      BY <1>4 DEF verify_entry, verify_list, verify_loop, init_reset, dummycall_check,
             dummycall_advance, Inside, KernelPC
    <2>2. BuffersLive'
      BY <1>0, <1>4 DEF BuffersLive, verify_entry, verify_list, verify_loop, init_reset,
             dummycall_check, dummycall_advance, memory
    <2>3. \/ pc' = pc
          \/ \E l \in {"list", "loop", "reset", "oops", "user", "advance", "killed", "gone"} :
                pc' = [pc EXCEPT ![t] = l]
      <3>1. CASE verify_entry(t) \/ verify_list(t) \/ verify_loop(t) \/ init_reset(t)
        BY <3>1 DEF verify_entry, verify_list, verify_loop, init_reset, VerifyReturns, Goto
      <3>2. CASE dummycall_check(t) \/ dummycall_advance(t)
        BY <3>2 DEF dummycall_check, dummycall_advance, AfterError, Goto
      <3> QED
        BY <1>4, <3>1, <3>2
    <2>4. LiveAt(t)'
      BY <1>0, <2>1, <2>3 DEF LiveAt
    <2> QED
      BY <2>1, <2>2, <2>3, <2>4, LiveMove
  <1>5. ASSUME NEW t \in Task, sandbox_cleanup(t)
        PROVE  LiveInv'
    <2>1. Inside = {} /\ kfree({}) /\ pc' = pc
      BY <1>5, SerialEnter DEF sandbox_cleanup
    <2>2. LiveAt(t)'
      BY <2>1 DEF LiveAt, Inside, KernelPC
    <2> QED
      BY <1>0, <2>1, <2>2, LiveFree, LiveMove
  <1>6. ASSUME NEW t \in Task, exit(t)
        PROVE  LiveInv'
    <2>1. UNCHANGED <<memory, data>> /\ pc' = [pc EXCEPT ![t] = "gone"]
      BY <1>6 DEF exit, frame, Goto
    <2>2. ASSUME NEW u \in Task
          PROVE  LiveAt(u)'
      BY <1>0, <2>1 DEF LiveAt, LiveInv, Access, memory
    <2> QED
      BY <1>0, <2>1, <2>2 DEF LiveInv, BuffersLive, memory
  <1> QED
    BY <1>1, <1>2, <1>3, <1>4, <1>5, <1>6 DEF Next, InKernel

\* LiveInv holds before the first program starts.
LEMMA LiveInit ==
    ASSUME Init
    PROVE  LiveInv
  BY DEF Init, LiveInv, LiveAt, BuffersLive

\* When system calls do not overlap, however many programs run and whatever fails,
\* sandbox_init never copies to, prints or loads a buffer that was freed or is too
\* small, although sandbox_cleanup and a failed copy leave kernel_buffer dangling.
THEOREM BuffersCorrect == ASSUME MaxInKernel = 1 PROVE Spec => []BuffersLive
  <1>1. Init => LiveInv
    BY LiveInit
  <1>2. TypeOK /\ SerialInv /\ LiveInv /\ [Next]_vars => LiveInv'
    BY LiveStep
  <1>3. LiveInv => BuffersLive
    BY DEF LiveInv
  <1> QED
    BY <1>1, <1>2, <1>3, SandboxTypeCorrect, SerialInductive, PTL DEF Spec

-----------------------------------------------------------------------------
(* One program at a time. *)

\* Where only one program may run, a program starts only when none runs.
LEMMA AloneExec ==
    ASSUME MaxRunning = 1, AloneInv, Cardinality(Running) < MaxRunning
    PROVE  Running = {}
  <1>1. SUFFICES ASSUME NEW u \in Running PROVE FALSE
    OBVIOUS
  <1>2. Running = {u}
    BY DEF AloneInv
  <1>3. Cardinality(Running) = 1
    BY <1>2, FS_Singleton
  <1> QED
    BY <1>3

\* A task that takes a step other than its start runs, alone.
LEMMA AloneRuns ==
    ASSUME AloneInv, NEW t \in Task, pc[t] \notin {"new", "killed", "oops", "gone"}
    PROVE  t \in Running /\ \A u \in Task \ {t} : pc[u] \in {"new", "killed", "oops", "gone"}
  BY DEF AloneInv, Running

\* A step of the program that runs, which loses no buffer.
LEMMA AloneMove ==
    ASSUME AloneInv, NEW t \in Task, pc[t] \notin {"new", "killed", "oops", "gone"},
           pc \in [Task -> TaskPC], NEW l, pc' = [pc EXCEPT ![t] = l],
           NoBufferLeak', l = "alloc" => allocated' = {}
    PROVE  AloneInv'
  <1>1. \A u \in Task \ {t} : pc'[u] = pc[u] /\ pc[u] \in {"new", "killed", "oops", "gone"}
    BY AloneRuns
  <1>2. pc'[t] = l
    OBVIOUS
  <1> QED
    BY <1>1, <1>2 DEF AloneInv, Running

\* kfree(kernel_buffer) frees the one buffer there may be.
LEMMA AloneFree ==
    ASSUME NoBufferLeak, NEW S, kfree(S)
    PROVE  allocated' = {}
  BY DEF NoBufferLeak, kfree

\* With one program at a time the buffer in use is the one kernel_buffer points at,
\* and none is while a new one is allocated.
LEMMA AloneStep ==
    ASSUME MaxRunning = 1, TypeOK, AloneInv, [Next]_vars
    PROVE  AloneInv'
  <1>0. NoBufferLeak /\ pc \in [Task -> TaskPC]
    BY DEF AloneInv, TypeOK
  <1>1. CASE UNCHANGED vars
    BY <1>1 DEF vars, memory, AloneInv, NoBufferLeak, Running
  <1>2. ASSUME NEW t \in Task, exec(t)
        PROVE  AloneInv'
    <2>1. pc' = [pc EXCEPT ![t] = "init"] /\ NoBufferLeak' /\ UNCHANGED allocated
      BY <1>0, <1>2 DEF exec, Enter, Goto, memory, NoBufferLeak
    <2>2. CASE pc[t] = "user"
      BY <1>0, <2>1, <2>2, AloneMove
    <2>3. CASE pc[t] # "user"
      <3>1. Running = {}
        BY <1>2, <2>3, AloneExec DEF exec
      <3>2. \A u \in Task : pc[u] \in {"new", "killed", "oops", "gone"}
        BY <3>1 DEF Running
      <3> QED
        BY <1>0, <2>1, <3>2 DEF AloneInv, Running
    <2> QED
      BY <2>2, <2>3
  <1>3. ASSUME NEW t \in Task, init_free(t)
        PROVE  AloneInv'
    <2>1. CASE Input[t] = "empty"
      BY <1>0, <1>3, <2>1, AloneMove DEF init_free, Goto, NoBufferLeak
    <2>2. CASE Input[t] # "empty"
      <3>1. kfree({}) /\ pc[t] = "init" /\ pc' = [pc EXCEPT ![t] = "alloc"]
        BY <1>3, <2>2 DEF init_free, free_existing, Goto
      <3>2. allocated' = {}
        BY <1>0, <3>1, AloneFree
      <3> QED
        BY <1>0, <3>1, <3>2, AloneMove DEF NoBufferLeak
    <2> QED
      BY <2>1, <2>2
  <1>4. ASSUME NEW t \in Task, init_alloc(t)
        PROVE  AloneInv'
    <2>1. pc[t] = "alloc" /\ allocated = {}
      BY <1>4 DEF init_alloc, AloneInv
    <2>2. NoBufferLeak' /\ \E l \in {"copy", "user"} : pc' = [pc EXCEPT ![t] = l]
      BY <1>0, <1>4, <2>1 DEF init_alloc, Goto, NoBufferLeak
    <2> QED
      BY <1>0, <2>1, <2>2, AloneMove
  <1>5. ASSUME NEW t \in Task, copy_from_user(t)
        PROVE  AloneInv'
    <2>1. /\ pc[t] = "fill" /\ kernel_buffer' = kernel_buffer
          /\ UNCHANGED pc \/ \E l \in {"dump", "user"} : pc' = [pc EXCEPT ![t] = l]
          /\ UNCHANGED allocated \/ \E S : kfree(S)
      BY <1>5 DEF copy_from_user, AfterFailedCopy, GoesOn, Goto
    <2>2. NoBufferLeak' /\ (allocated = {} => allocated' = {})
      <3>1. CASE \E S : kfree(S)
        BY <1>0, <3>1, AloneFree DEF NoBufferLeak
      <3>2. CASE UNCHANGED allocated
        BY <1>0, <2>1, <3>2 DEF NoBufferLeak
      <3> QED
        BY <2>1, <3>1, <3>2
    <2>3. CASE UNCHANGED pc
      BY <2>2, <2>3 DEF AloneInv, Running
    <2>4. CASE \E l \in {"dump", "user"} : pc' = [pc EXCEPT ![t] = l]
      BY <1>0, <2>1, <2>2, <2>4, AloneMove
    <2> QED
      BY <2>1, <2>3, <2>4
  <1>6. ASSUME NEW t \in Task, sandbox_cleanup(t)
        PROVE  AloneInv'
    <2>1. kfree({}) /\ UNCHANGED pc
      BY <1>6 DEF sandbox_cleanup
    <2>2. allocated' = {}
      BY <1>0, <2>1, AloneFree
    <2> QED
      BY <2>1, <2>2 DEF AloneInv, NoBufferLeak, Running
  <1>7. ASSUME NEW t \in Task,
               \/ init_copy(t) \/ init_dump(t) \/ init_call(t) \/ init_memset(t) \/ init_memcpy(t)
               \/ verify_entry(t) \/ verify_list(t) \/ verify_loop(t) \/ init_reset(t)
               \/ (\E call \in Call : dummycall(t, call)) \/ dummycall_check(t)
               \/ dummycall_advance(t) \/ exit(t)
        PROVE  AloneInv'
    <2>1. UNCHANGED <<kernel_buffer, allocated>> /\ pc[t] \notin {"new", "killed", "oops", "gone"}
      BY <1>7 DEF memory, init_copy, init_dump, init_call, init_memset, init_memcpy, verify_entry,
             verify_list, verify_loop, init_reset, dummycall, dummycall_check,
             dummycall_advance, exit
    <2>2. UNCHANGED pc \/ \E l : l # "alloc" /\ pc' = [pc EXCEPT ![t] = l]
      <3>1. CASE init_copy(t) \/ init_dump(t) \/ init_call(t)
        BY <3>1 DEF init_copy, init_dump, init_call, Goto
      <3>2. CASE init_memset(t) \/ init_memcpy(t)
        BY <3>2 DEF init_memset, init_memcpy, GoesOn, Goto
      <3>3. CASE verify_entry(t) \/ verify_list(t) \/ verify_loop(t) \/ init_reset(t)
        BY <3>3 DEF verify_entry, verify_list, verify_loop, init_reset, VerifyReturns, Goto
      <3>4. CASE \/ \E call \in Call : dummycall(t, call)
                 \/ dummycall_check(t) \/ dummycall_advance(t) \/ exit(t)
        BY <3>4 DEF dummycall, dummycall_check, dummycall_advance, exit, AfterError, Enter, Goto
      <3> QED
        BY <1>7, <3>1, <3>2, <3>3, <3>4
    <2>3. NoBufferLeak'
      BY <1>0, <2>1 DEF NoBufferLeak
    <2>4. CASE UNCHANGED pc
      BY <2>1, <2>3, <2>4 DEF AloneInv, Running
    <2>5. CASE \E l : l # "alloc" /\ pc' = [pc EXCEPT ![t] = l]
      BY <1>0, <2>1, <2>3, <2>5, AloneMove
    <2> QED
      BY <2>2, <2>4, <2>5
  <1> QED
    BY <1>1, <1>2, <1>3, <1>4, <1>5, <1>6, <1>7 DEF Next, InKernel

\* AloneInv holds before the first program starts.
LEMMA AloneInit ==
    ASSUME Init
    PROVE  AloneInv
  BY DEF Init, AloneInv, NoBufferLeak, Running

\* One program after the other, however often each calls sandbox_init, whatever
\* fails in it and whether or not they call sandbox_cleanup, no copy buffer is lost.
THEOREM NoLeakAlone == ASSUME MaxRunning = 1 PROVE Spec => []NoBufferLeak
  <1>1. Init => AloneInv
    BY AloneInit
  <1>2. TypeOK /\ AloneInv /\ [Next]_vars => AloneInv'
    BY AloneStep
  <1>3. AloneInv => NoBufferLeak
    BY DEF AloneInv
  <1> QED
    BY <1>1, <1>2, <1>3, SandboxTypeCorrect, PTL DEF Spec

=============================================================================
