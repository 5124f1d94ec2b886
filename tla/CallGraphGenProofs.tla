------------------------- MODULE CallGraphGenProofs -------------------------
(***************************************************************************)
(* The merging loops of the pass, for every program, every function and    *)
(* every order in which the hash tables may be walked.                     *)
(***************************************************************************)
EXTENDS CallGraphGen, TLAPS

-----------------------------------------------------------------------------
(* The vertices and edges a function is expanded to. *)

\* A vertex names its function, so functions share no vertex.
LEMMA VertexOf ==
    ASSUME NEW p, NEW f, NEW v \in Vertices(p, f)
    PROVE  v[1] = f
  BY DEF Vertices

\* The first and the last vertex of a block.
LEMMA BlockVertices ==
    ASSUME NEW p \in Programs, NEW f \in DOMAIN p, NEW b \in p[f].blocks
    PROVE  <<f, b, 0>> \in Vertices(p, f) /\ Last(p, f, b) \in Vertices(p, f)
  <1>1. p[f].calls[b] \in Seq(Call)
    BY ProgramAssumption DEF Function
  <1>2. Len(p[f].calls[b]) \in Nat
    BY <1>1
  <1>3. 0 \in 0..Len(p[f].calls[b]) /\ Len(p[f].calls[b]) \in 0..Len(p[f].calls[b])
    BY <1>2
  <1> QED
    BY <1>3 DEF Vertices, Last

\* A graph that was expanded is closed.
LEMMA ExpandedClosed ==
    ASSUME NEW p \in Programs, NEW f \in DOMAIN p
    PROVE  Closed(Expanded(p, f)) /\ Expanded(p, f).vertices = Vertices(p, f)
  <1>1. CallEdges(p, f) \subseteq Vertices(p, f) \X Vertices(p, f)
    BY DEF CallEdges
  <1>2. ControlEdges(p, f) \subseteq Vertices(p, f) \X Vertices(p, f)
    <2>1. p[f].succ \subseteq p[f].blocks \X p[f].blocks
      BY ProgramAssumption DEF Function
    <2>2. ASSUME NEW d \in p[f].succ
          PROVE  <<Last(p, f, d[1]), <<f, d[2], 0>>>> \in Vertices(p, f) \X Vertices(p, f)
      BY <2>1, BlockVertices
    <2> QED
      BY <2>2 DEF ControlEdges
  <1> QED
    BY <1>1, <1>2 DEF Closed, Expanded

\* The label of an edge is Control, or a call and not of that kind.
LEMMA ExpandedLabel ==
    ASSUME NEW p \in Programs, NEW f \in DOMAIN p, NEW e \in DOMAIN Expanded(p, f).edges
    PROVE  /\ e \in Vertices(p, f) \X Vertices(p, f)
           /\ Expanded(p, f).edges[e] = Control \/ Expanded(p, f).edges[e] \in Call
           /\ Expanded(p, f).edges[e].kind = "control" => Expanded(p, f).edges[e] = Control
  <1>1. e \in Vertices(p, f) \X Vertices(p, f)
    BY ExpandedClosed DEF Closed
  <1>2. CASE e \in ControlEdges(p, f)
    BY <1>1, <1>2 DEF Expanded
  <1>3. CASE e \notin ControlEdges(p, f)
    <2>1. e \in CallEdges(p, f)
      BY <1>3 DEF Expanded
    <2>2. Expanded(p, f).edges[e] = p[f].calls[e[2][2]][e[2][3]]
      BY <1>3, <2>1 DEF Expanded
    <2>3. e[1] \in Vertices(p, f) /\ e[2] \in Vertices(p, f) /\ e[2][3] = e[1][3] + 1
      BY <2>1 DEF CallEdges
    <2>4. PICK b \in p[f].blocks : \E k \in 0..Len(p[f].calls[b]) : e[2] = <<f, b, k>>
      BY <2>3 DEF Vertices
    <2>5. PICK c \in p[f].blocks : \E j \in 0..Len(p[f].calls[c]) : e[1] = <<f, c, j>>
      BY <2>3 DEF Vertices
    <2>6. p[f].calls[b] \in Seq(Call) /\ p[f].calls[c] \in Seq(Call)
      BY ProgramAssumption DEF Function
    <2>7. e[2][2] = b /\ e[2][3] \in 0..Len(p[f].calls[b]) /\ e[1][3] \in 0..Len(p[f].calls[c])
      BY <2>4, <2>5
    <2>8. e[2][3] \in 1..Len(p[f].calls[b])
      BY <2>3, <2>6, <2>7
    <2>9. Expanded(p, f).edges[e] \in Call
      BY <2>2, <2>6, <2>7, <2>8
    <2>10. \A call \in Call : call.kind # "control"
      BY DEF Call
    <2> QED
      BY <1>1, <2>9, <2>10
  <1> QED
    BY <1>2, <1>3

-----------------------------------------------------------------------------
(* What the operations on graphs preserve. *)

\* An edge between vertices of the graph, or none.
LEMMA AddEdge ==
    ASSUME NEW g, Closed(g), NEW l, NEW r, NEW label
    PROVE  LET h == add_edge(g, l, r, label)
           IN  /\ Closed(h) /\ h.vertices = g.vertices
               /\ DOMAIN g.edges \subseteq DOMAIN h.edges
               /\ \A d \in DOMAIN g.edges : h.edges[d] = g.edges[d]
               /\ \A d \in DOMAIN h.edges : d \in DOMAIN g.edges \/ d = <<l, r>>
               /\ {l, r} \subseteq g.vertices => <<l, r>> \in DOMAIN h.edges
  <1> DEFINE h == add_edge(g, l, r, label)
  <1>1. CASE {l, r} \subseteq g.vertices
    <2>1. g = [vertices |-> g.vertices, edges |-> g.edges] /\ DOMAIN g.edges \subseteq g.vertices \X g.vertices
      BY DEF Closed
    <2>2. h = [vertices |-> g.vertices, edges |-> Emplace(g.edges, <<l, r>>, label)]
      BY <1>1, <2>1 DEF add_edge
    <2>3. DOMAIN h.edges = DOMAIN g.edges \cup {<<l, r>>} /\ h.vertices = g.vertices
      BY <2>2 DEF Emplace
    <2>4. \A d \in DOMAIN g.edges : h.edges[d] = g.edges[d]
      BY <2>2 DEF Emplace
    <2>5. <<l, r>> \in g.vertices \X g.vertices
      BY <1>1
    <2>6. h = [vertices |-> h.vertices, edges |-> h.edges]
      BY <2>2
    <2> HIDE DEF h
    <2>7. Closed(h)
      BY <2>1, <2>3, <2>5, <2>6 DEF Closed
    <2> QED
      BY <2>3, <2>4, <2>7 DEF h
  <1>2. CASE ~ ({l, r} \subseteq g.vertices)
    BY <1>2 DEF add_edge
  <1> QED
    BY <1>1, <1>2

\* The edges of both graphs; where both have one, the first one's.
LEMMA InsertGraph ==
    ASSUME NEW g, Closed(g), NEW o, Closed(o)
    PROVE  LET h == insert_graph(g, o)
           IN  /\ Closed(h) /\ h.vertices = g.vertices \cup o.vertices
               /\ DOMAIN h.edges = DOMAIN g.edges \cup DOMAIN o.edges
               /\ \A d \in DOMAIN g.edges : h.edges[d] = g.edges[d]
               /\ \A d \in DOMAIN o.edges \ DOMAIN g.edges : h.edges[d] = o.edges[d]
  BY DEF insert_graph, Closed

\* Removing a vertex removes its edges and no other.
LEMMA RemoveVertex ==
    ASSUME NEW g, Closed(g), NEW v
    PROVE  LET h == remove_vertex(g, v)
           IN  /\ Closed(h) /\ h.vertices = g.vertices \ {v}
               /\ \A d : d \in DOMAIN h.edges <=> d \in DOMAIN g.edges /\ d[1] # v /\ d[2] # v
               /\ \A d \in DOMAIN h.edges : h.edges[d] = g.edges[d]
  BY DEF remove_vertex, Closed

\* combine_vertex gives the edges of r to l, but for those missed, and r is gone.
\* D and E are the edges before r is removed.
LEMMA CombineVertex ==
    ASSUME NEW g, Closed(g), NEW l \in g.vertices, NEW r \in g.vertices, NEW late \in BOOLEAN, NEW missed
    PROVE  LET h == combine_vertex(g, l, r, late, missed)
           IN  /\ Closed(h) /\ h.vertices = g.vertices \ {r}
               /\ \A d \in DOMAIN g.edges : d[1] # r /\ d[2] # r =>
                     d \in DOMAIN h.edges /\ h.edges[d] = g.edges[d]
  <1> DEFINE E == InLoop(g, l, r, late)
             D == DOMAIN E \cup (Gained(DOMAIN E, g.vertices, l, r) \ missed)
             F == [e \in D |-> IF e \in DOMAIN E THEN E[e] ELSE E[Moved(l, r, e)]]
             k == [vertices |-> g.vertices, edges |-> F]
             h == combine_vertex(g, l, r, late, missed)
  <1>1. g = [vertices |-> g.vertices, edges |-> g.edges] /\ DOMAIN g.edges \subseteq g.vertices \X g.vertices
    BY DEF Closed
  <1>2. h = remove_vertex(k, r)
    BY <1>1 DEF combine_vertex
  <1>3. /\ DOMAIN E \subseteq g.vertices \X g.vertices /\ DOMAIN g.edges \subseteq DOMAIN E
        /\ \A d \in DOMAIN g.edges : E[d] = g.edges[d]
    BY <1>1 DEF InLoop, Emplace
  <1> HIDE DEF E
  <1>4. D \subseteq g.vertices \X g.vertices
    BY <1>3 DEF Gained
  <1>5. Closed(k)
    BY <1>4 DEF Closed
  <1>6. \A d \in DOMAIN g.edges : d \in DOMAIN F /\ F[d] = g.edges[d]
    BY <1>3
  <1>7. k.vertices = g.vertices /\ k.edges = F
    OBVIOUS
  <1> HIDE DEF F, k, h
  <1> QED
    BY <1>2, <1>5, <1>6, <1>7, RemoveVertex DEF h

\* Where a vertex is once r was merged into l.
Joined(l, r, w) == IF w = r THEN l ELSE w

\* Without a self loop of r every edge but the one from l to r is still there,
\* between the joined vertices, unless another edge was there first or it was missed.
LEMMA CombineMoved ==
    ASSUME NEW g, Closed(g), NEW l \in g.vertices, NEW r \in g.vertices, NEW late \in BOOLEAN,
           l # r, <<r, r>> \notin DOMAIN g.edges,
           NEW d \in DOMAIN g.edges, d # <<l, r>>
    PROVE  LET h == combine_vertex(g, l, r, late, {})
               c == <<Joined(l, r, d[1]), Joined(l, r, d[2])>>
           IN  /\ c \in DOMAIN h.edges
               /\ h.edges[c] = IF c \in DOMAIN g.edges THEN g.edges[c] ELSE g.edges[d]
  <1> DEFINE D == DOMAIN g.edges \cup (Gained(DOMAIN g.edges, g.vertices, l, r) \ {})
             F == [e \in D |-> IF e \in DOMAIN g.edges THEN g.edges[e] ELSE g.edges[Moved(l, r, e)]]
             k == [vertices |-> g.vertices, edges |-> F]
             h == combine_vertex(g, l, r, late, {})
             c == <<Joined(l, r, d[1]), Joined(l, r, d[2])>>
  <1>1. g = [vertices |-> g.vertices, edges |-> g.edges] /\ DOMAIN g.edges \subseteq g.vertices \X g.vertices
    BY DEF Closed
  <1>2. h = remove_vertex(k, r)
    BY <1>1 DEF combine_vertex, InLoop
  <1>3. D \subseteq g.vertices \X g.vertices
    BY <1>1 DEF Gained
  <1>4. Closed(k)
    BY <1>3 DEF Closed
  <1>5. d \in g.vertices \X g.vertices /\ d = <<d[1], d[2]>>
    BY <1>1
  <1>6. c[1] # r /\ c[2] # r /\ c[1] \in g.vertices /\ c[2] \in g.vertices
    BY <1>5 DEF Joined
  <1>7. c \in D /\ (c \in DOMAIN g.edges \/ Moved(l, r, c) = d)
    <2>1. CASE d[1] # r /\ d[2] # r
      BY <1>5, <2>1 DEF Joined
    <2>2. CASE d[1] = r /\ d[2] # r
      <3>1. c = <<l, d[2]>> /\ d = <<r, d[2]>>
        BY <1>5, <2>2 DEF Joined
      <3>2. Moved(l, r, c) = d
        BY <3>1 DEF Moved
      <3>3. c \in {l} \X g.vertices
        BY <1>6, <3>1
      <3> QED
        BY <3>2, <3>3 DEF Gained
    <2>3. CASE d[1] # r /\ d[2] = r
      <3>1. c = <<d[1], l>> /\ d = <<d[1], r>> /\ d[1] # l
        BY <1>5, <2>3 DEF Joined
      <3>2. Moved(l, r, c) = d
        BY <3>1 DEF Moved
      <3>3. c \in g.vertices \X {l}
        BY <1>6, <3>1
      <3> QED
        BY <3>2, <3>3 DEF Gained
    <2>4. CASE d[1] = r /\ d[2] = r
      BY <1>5, <2>4
    <2> QED
      BY <2>1, <2>2, <2>3, <2>4
  <1> HIDE DEF c
  <1>8. F[c] = IF c \in DOMAIN g.edges THEN g.edges[c] ELSE g.edges[d]
    BY <1>7
  <1>9. k.edges = F /\ DOMAIN F = D
    OBVIOUS
  <1> HIDE DEF D, F, k, h
  <1>10. c \in DOMAIN h.edges /\ h.edges[c] = F[c]
    BY <1>2, <1>4, <1>6, <1>7, <1>9, RemoveVertex
  <1> QED
    BY <1>8, <1>10 DEF c, h

\* A merge that meets no clash and misses no edge keeps every edge but the one that
\* is merged along.
LEMMA MergeKeeps ==
    ASSUME Closed(graph), NEW n \in graph.vertices, vertex \in graph.vertices, ~ Clash(n),
           NEW late \in BOOLEAN, NEW d \in DOMAIN graph.edges, d # <<vertex, n>>
    PROVE  LET h == combine_vertex(graph, vertex, n, late, {})
               c == <<Joined(vertex, n, d[1]), Joined(vertex, n, d[2])>>
           IN  c \in DOMAIN h.edges /\ h.edges[c] = graph.edges[d]
  <1> DEFINE h == combine_vertex(graph, vertex, n, late, {})
             c == <<Joined(vertex, n, d[1]), Joined(vertex, n, d[2])>>
  <1>1. n # vertex /\ <<n, n>> \notin DOMAIN graph.edges
    BY DEF Clash
  <1>2. /\ c \in DOMAIN h.edges
        /\ h.edges[c] = IF c \in DOMAIN graph.edges THEN graph.edges[c] ELSE graph.edges[d]
    BY <1>1, CombineMoved
  <1>3. c[1] = Joined(vertex, n, d[1]) /\ c[2] = Joined(vertex, n, d[2])
    OBVIOUS
  <1>4. c[1] # n /\ c[2] # n
    BY <1>1 DEF Joined
  <1>5. c # <<vertex, n>>
    BY <1>4
  <1> HIDE DEF c
  <1>6. ASSUME c \in DOMAIN graph.edges PROVE graph.edges[c] = graph.edges[d]
    BY <1>3, <1>4, <1>5, <1>6 DEF Clash, Joined
  <1> QED
    BY <1>2, <1>6 DEF c

-----------------------------------------------------------------------------
(* The first step and the steps that only move a loop on. *)

\* What is known of the program.
LEMMA ProgramFacts ==
    ASSUME prog \in Programs
    PROVE  /\ main \in DOMAIN prog /\ DOMAIN prog \subseteq Func /\ NULL \notin Func
           /\ \A f \in DOMAIN prog : /\ prog[f].exit \in prog[f].blocks \cup {NULL}
                                     /\ prog[f].entry \in prog[f].blocks
  BY ProgramAssumption DEF Function

\* Before the first function nothing is merged.
LEMMA MergeStarts ==
    ASSUME Init
    PROVE  MergeInv
  <1>1. /\ prog \in Programs /\ cur = NULL /\ graph = NoGraph /\ pc = "convert" /\ waiting = DOMAIN prog
        /\ todo = {} /\ left = {} /\ merged = FALSE /\ lost = {}
        /\ meta = [f \in DOMAIN prog |-> EmptyMeta]
        /\ rep = [v \in UNION {Vertices(prog, f) : f \in DOMAIN prog} |-> v]
    BY DEF Init
  <1>2. DOMAIN prog \subseteq Func
    BY <1>1, ProgramFacts
  <1>3. Closed(NoGraph) /\ NoGraph.vertices = {} /\ DOMAIN NoGraph.edges = {}
    BY DEF NoGraph, Closed
  <1>4. TypeOK
    BY <1>1, <1>2, <1>3 DEF TypeOK
  <1>5. LoopInv
    <2>1. \A f \in DOMAIN prog : meta[f].libcCallGraph = NoGraph
      BY <1>1 DEF EmptyMeta
    <2>2. \A f \in waiting : \A v \in Vertices(prog, f) : rep[v] = v
      BY <1>1
    <2>3. DOMAIN rep = UNION {Vertices(prog, f) : f \in DOMAIN prog}
      BY <1>1
    <2> QED
      BY <1>1, <1>3, <2>1, <2>2, <2>3 DEF LoopInv
  <1> QED
    BY <1>1, <1>4, <1>5 DEF MergeInv, LeftInv, TrimInv, InternalEdgesTrimmed

\* The graph of the next function is its expansion, and nothing of it was merged.
LEMMA MergeConvert ==
    ASSUME MergeInv, convert_next
    PROVE  MergeInv'
  <1>1. /\ TypeOK /\ LoopInv /\ pc = "convert" /\ UNCHANGED <<prog, meta, vertex, left, rep, lost>>
        /\ todo = {} /\ left = {} /\ prog \in Programs /\ waiting \subseteq DOMAIN prog
    BY DEF MergeInv, LoopInv, TypeOK, convert_next
  <1>2. CASE waiting # {}
    <2>1. /\ cur' \in waiting /\ waiting' = waiting \ {cur'} /\ graph' = Expanded(prog, cur')
          /\ exitNode' = ExitOf(prog, cur')
          /\ merged' = TRUE /\ pc' = "scan" /\ todo' = todo
      BY <1>2 DEF convert_next
    <2>2. cur' \in DOMAIN prog /\ cur' \in Func /\ cur' # NULL
      BY <1>1, <2>1, ProgramFacts
    <2>3. /\ Closed(graph') /\ graph'.vertices = Vertices(prog, cur')
          /\ DOMAIN graph'.edges \subseteq Vertices(prog, cur') \X Vertices(prog, cur')
      BY <1>1, <2>1, <2>2, ExpandedClosed DEF Closed
    <2>4. \A v \in Vertices(prog, cur') : rep[v] = v
      BY <1>1, <2>1 DEF LoopInv
    <2>5. Vertices(prog, cur') \subseteq DOMAIN rep
      BY <1>1, <2>2 DEF LoopInv
    <2>6. TypeOK'
      BY <1>1, <2>1, <2>2, <2>3 DEF TypeOK
    <2>7. LoopInv'
      BY <1>1, <2>1, <2>2, <2>3, <2>5 DEF LoopInv
    <2>8. Converted(cur, graph, exitNode)'
      <3>1. exitNode' = IF prog[cur'].exit = NULL THEN NULL ELSE rep[Last(prog, cur', prog[cur'].exit)]
        BY <1>1, <2>1, <2>2, <2>4, BlockVertices, ProgramFacts DEF ExitOf
      <3>2. ASSUME NEW e \in DOMAIN graph'.edges
            PROVE  <<rep[e[1]], rep[e[2]]>> = e
        BY <2>3, <2>4
      <3>3. Simulates(graph, cur)'
        BY <1>1, <2>1, <3>2 DEF Simulates, Kept
      <3> QED
        BY <1>1, <2>1, <2>3, <2>4, <3>1, <3>3 DEF Converted
    <2> QED
      BY <2>1, <2>6, <2>7, <2>8 DEF MergeInv, LeftInv, TrimInv, InternalEdgesTrimmed
  <1>3. CASE waiting = {}
    <2>1. /\ cur' = NULL /\ graph' = meta[main].libcCallGraph /\ todo' = graph'.vertices
          /\ pc' = "inline" /\ UNCHANGED <<waiting, merged>>
      BY <1>3 DEF convert_next
    <2>2. main \in DOMAIN prog
      BY <1>1, ProgramFacts
    <2>3. Closed(graph') /\ graph'.vertices \subseteq Vertices(prog, main)
      BY <1>1, <2>1, <2>2 DEF LoopInv
    <2>4. graph'.vertices \subseteq DOMAIN rep
      BY <1>1, <2>2, <2>3 DEF LoopInv
    <2>5. TypeOK'
      BY <1>1, <2>1, <2>3 DEF TypeOK, Closed
    <2>6. LoopInv'
      BY <1>1, <1>3, <2>1, <2>3, <2>4 DEF LoopInv
    <2> QED
      BY <1>1, <2>1, <2>5, <2>6 DEF MergeInv, LeftInv, TrimInv, InternalEdgesTrimmed
  <1> QED
    BY <1>2, <1>3

\* What a converted graph is does not depend on where the loops are.
LEMMA ConvertedSame ==
    ASSUME MergeInv, UNCHANGED <<prog, cur, graph, exitNode, rep, lost>>
    PROVE  (cur # NULL /\ cur \notin lost => Converted(cur, graph, exitNode))'
  BY DEF MergeInv, Converted, Simulates, Kept

\* A vertex without neighbours by an edge of some kind has no edge of that kind.
LEMMA NoNeighborNoEdge ==
    ASSUME NEW g, Closed(g), NEW kind, \A v \in g.vertices : NeighborsBy(g, v, kind) = {}
    PROVE  \A e \in DOMAIN g.edges : g.edges[e].kind # kind
  <1> SUFFICES ASSUME NEW e \in DOMAIN g.edges, g.edges[e].kind = kind PROVE FALSE
    OBVIOUS
  <1>1. e \in g.vertices \X g.vertices
    BY DEF Closed
  <1>2. e = <<e[1], e[2]>> /\ e[1] \in g.vertices /\ e[2] \in g.vertices
    BY <1>1
  <1>3. e[2] \in NeighborsBy(g, e[1], kind)
    BY <1>2 DEF NeighborsBy, get_neighbors
  <1> QED
    BY <1>2, <1>3

\* Another scan, or the graph is handed on.
LEMMA MergeScan ==
    ASSUME MergeInv, scan
    PROVE  MergeInv'
  <1>1. /\ TypeOK /\ LoopInv /\ TrimInv /\ pc = "scan" /\ todo = {}
        /\ UNCHANGED <<prog, cur, graph, exitNode, waiting, left, rep, lost>> /\ merged \in BOOLEAN
    BY DEF MergeInv, TypeOK, scan
  <1>2. (cur # NULL /\ cur \notin lost => Converted(cur, graph, exitNode))'
    BY <1>1, ConvertedSame
  <1>3. CASE merged
    <2>1. todo' = graph.vertices /\ merged' = FALSE /\ UNCHANGED <<meta, pc, vertex>>
      BY <1>3 DEF scan, ScanAgain
    <2>2. TypeOK'
      BY <1>1, <2>1 DEF TypeOK
    <2>3. LoopInv'
      BY <1>1, <2>1 DEF LoopInv
    <2> QED
      BY <1>1, <1>2, <2>1, <2>2, <2>3 DEF MergeInv, LeftInv, TrimInv, InternalEdgesTrimmed
  <1>4. CASE ~ merged
    <2>1. /\ pc' = IF cur = NULL THEN "done" ELSE "convert"
          /\ UNCHANGED <<todo, merged>>
          /\ meta' = IF cur = NULL THEN meta ELSE [meta EXCEPT ![cur] =
                       [entryNode |-> <<cur, prog[cur].entry, 0>>,
                        exitNode |-> exitNode, libcCallGraph |-> graph]]
      BY <1>4 DEF scan, ScanAgain
    <2>2. TypeOK'
      BY <1>1, <2>1 DEF TypeOK
    <2>3. LoopInv'
      <3>1. /\ DOMAIN meta' = DOMAIN prog
            /\ \A f \in DOMAIN prog : /\ Closed(meta'[f].libcCallGraph)
                                      /\ meta'[f].libcCallGraph.vertices \subseteq Vertices(prog, f)
        BY <1>1, <2>1 DEF LoopInv
      <3> QED
        BY <1>1, <2>1, <3>1 DEF LoopInv
    <2>4. \A v \in graph.vertices : Trimmed(v)
      BY <1>1, <1>4 DEF TrimInv
    <2>5. InternalEdgesTrimmed'
      <3>1. Closed(graph)
        BY <1>1 DEF LoopInv
      <3>2. CASE cur = NULL
        <4>1. \A v \in graph.vertices : NeighborsBy(graph, v, "control") = {} /\ NeighborsBy(graph, v, "user") = {}
          BY <2>4, <3>2 DEF Trimmed, Internal
        <4>2. \A e \in DOMAIN graph.edges : graph.edges[e].kind # "control" /\ graph.edges[e].kind # "user"
          BY <3>1, <4>1, NoNeighborNoEdge
        <4> QED
          BY <1>1, <4>2 DEF InternalEdgesTrimmed
      <3>3. CASE cur # NULL
        BY <2>1, <3>3 DEF InternalEdgesTrimmed
      <3> QED
        BY <3>2, <3>3
    <2> QED
      BY <1>1, <1>2, <2>1, <2>2, <2>3, <2>5 DEF MergeInv, LeftInv, TrimInv
  <1> QED
    BY <1>1, <1>3, <1>4

\* The next vertex of the scan, and its neighbours.
LEMMA MergeVisit ==
    ASSUME MergeInv, NEW v \in todo, visit(v)
    PROVE  MergeInv'
  <1>1. /\ TypeOK /\ LoopInv /\ TrimInv /\ pc = "scan" /\ pc' = "control" /\ todo' = todo \ {v} /\ vertex' = v
        /\ left' = NeighborsBy(graph, v, "control")
        /\ UNCHANGED <<prog, meta, cur, graph, exitNode, waiting, merged, rep, lost>>
    BY DEF MergeInv, visit
  <1>2. TypeOK'
    BY <1>1 DEF TypeOK
  <1>3. LoopInv'
    <2>1. left' \subseteq graph.vertices
      BY <1>1 DEF NeighborsBy, get_neighbors
    <2> QED
      BY <1>1, <2>1 DEF LoopInv
  <1>4. LeftInv'
    BY <1>1 DEF LeftInv, NeighborsBy, get_neighbors
  <1>5. TrimInv'
    <2>1. ASSUME ~ merged', NEW w \in graph'.vertices \ todo', w # v
          PROVE  Trimmed(w)'
      BY <1>1, <2>1 DEF TrimInv, Trimmed, Internal
    <2> QED
      BY <1>1, <2>1 DEF TrimInv, InternalEdgesTrimmed
  <1>6. (cur # NULL /\ cur \notin lost => Converted(cur, graph, exitNode))'
    BY <1>1, ConvertedSame
  <1> QED
    BY <1>2, <1>3, <1>4, <1>5, <1>6 DEF MergeInv

\* The neighbours are merged; the final graph goes on with the calls.
LEMMA MergeCombined ==
    ASSUME MergeInv, combined
    PROVE  MergeInv'
  <1>1. /\ TypeOK /\ LoopInv /\ TrimInv /\ pc \in {"control", "user"} /\ left = {}
        /\ UNCHANGED <<prog, meta, cur, graph, exitNode, waiting, todo, vertex, merged, rep, lost>>
    BY DEF MergeInv, combined
  <1>2. (cur # NULL /\ cur \notin lost => Converted(cur, graph, exitNode))'
    BY <1>1, ConvertedSame
  <1>3. TypeOK'
    <2>1. pc' \in {"user", "scan"}
      BY DEF combined
    <2> QED
      BY <1>1, <2>1 DEF TypeOK
  <1>4. CASE pc = "control" /\ cur = NULL
    <2>1. left' = NeighborsBy(graph, vertex, "user") /\ pc' = "user"
      BY <1>4 DEF combined
    <2>2. LoopInv'
      <3>1. left' # {} => vertex \in DOMAIN rep
        <4>1. left' # {} => \E w : <<vertex, w>> \in DOMAIN graph.edges
          BY <2>1 DEF NeighborsBy, get_neighbors
        <4>2. DOMAIN graph.edges \subseteq graph.vertices \X graph.vertices /\ graph.vertices \subseteq DOMAIN rep
          BY <1>1 DEF LoopInv, Closed
        <4> QED
          BY <4>1, <4>2
      <3> QED
        BY <1>1, <1>4, <2>1, <3>1 DEF LoopInv
    <2>3. LeftInv'
      BY <1>1, <2>1 DEF LeftInv, NeighborsBy, get_neighbors
    <2>4. TrimInv'
      <3>1. ASSUME ~ merged', NEW w \in graph'.vertices \ todo', w # vertex'
            PROVE  Trimmed(w)'
        BY <1>1, <1>4, <3>1 DEF TrimInv, Trimmed, Internal
      <3>2. ~ merged => NeighborsBy(graph, vertex, "control") = {}
        BY <1>1, <1>4 DEF TrimInv
      <3> QED
        BY <1>1, <2>1, <3>1, <3>2 DEF TrimInv, InternalEdgesTrimmed
    <2> QED
      BY <1>2, <1>3, <2>2, <2>3, <2>4 DEF MergeInv
  <1>5. CASE ~ (pc = "control" /\ cur = NULL)
    <2>1. pc' = "scan" /\ left' = left
      BY <1>5 DEF combined
    <2>2. LoopInv'
      BY <1>1, <2>1 DEF LoopInv
    <2>3. TrimInv'
      <3>1. ASSUME ~ merged', NEW w \in graph'.vertices \ todo'
            PROVE  Trimmed(w)'
        <4>1. Trimmed(w) \/ w = vertex
          BY <1>1, <3>1 DEF TrimInv
        <4>2. Trimmed(vertex)
          <5>1. CASE pc = "control"
            BY <1>1, <1>5, <3>1, <5>1 DEF TrimInv, Trimmed, Internal
          <5>2. CASE pc = "user"
            BY <1>1, <3>1, <5>2 DEF TrimInv, Trimmed, Internal
          <5> QED
            BY <1>1, <5>1, <5>2
        <4> QED
          BY <1>1, <4>1, <4>2 DEF Trimmed, Internal
      <3> QED
        BY <1>1, <2>1, <3>1 DEF TrimInv, InternalEdgesTrimmed
    <2> QED
      BY <1>2, <1>3, <2>1, <2>2, <2>3 DEF MergeInv, LeftInv
  <1> QED
    BY <1>4, <1>5

-----------------------------------------------------------------------------
(* A merge. *)

\* What a merge does to the graph and to the representatives, clash or not.
LEMMA CombineStep ==
    ASSUME MergeInv, NEW n \in left, combine(n)
    PROVE  /\ Closed(graph') /\ graph'.vertices \subseteq graph.vertices
           /\ DOMAIN rep' = DOMAIN rep /\ vertex \in DOMAIN rep
           /\ \A v \in DOMAIN rep : rep'[v] = Joined(vertex, n, rep[v])
  <1>1. Closed(graph) /\ vertex \in DOMAIN rep
    BY DEF MergeInv, LoopInv
  <1>2. PICK late, missed : late \in BOOLEAN /\ graph' = combine_vertex(graph, vertex, n, late, missed)
    BY DEF combine
  <1>3. Closed(graph') /\ graph'.vertices \subseteq graph.vertices
    <2>1. CASE {vertex, n} \subseteq graph.vertices
      BY <1>1, <1>2, <2>1, CombineVertex
    <2>2. CASE ~ ({vertex, n} \subseteq graph.vertices)
      BY <1>1, <1>2, <2>2 DEF combine_vertex
    <2> QED
      BY <2>1, <2>2
  <1> QED
    BY <1>1, <1>3 DEF combine, Joined

\* A merge after which nothing was lost met no clash and missed no edge.
LEMMA CombineMissed ==
    ASSUME NEW n \in left, combine(n), cur' \notin lost'
    PROVE  /\ cur \notin lost /\ ~ Clash(n)
           /\ \E late \in BOOLEAN : graph' = combine_vertex(graph, vertex, n, late, {})
  <1>1. PICK late, missed :
               /\ late \in BOOLEAN
               /\ graph' = combine_vertex(graph, vertex, n, late, missed)
               /\ lost' = IF Clash(n) \/ missed # {} THEN lost \cup {cur} ELSE lost
    BY DEF combine
  <1>2. cur' = cur
    BY DEF combine
  <1>3. ~ Clash(n) /\ missed = {} /\ lost' = lost
    BY <1>1, <1>2
  <1> QED
    BY <1>1, <1>2, <1>3

\* What is known of a merge after which nothing was lost.
LEMMA CombineClean ==
    ASSUME MergeInv, NEW n \in left, combine(n), cur' \notin lost'
    PROVE  /\ cur \notin lost /\ ~ Clash(n) /\ n # vertex
           /\ vertex \in graph.vertices /\ n \in graph.vertices
           /\ graph.edges[<<vertex, n>>].kind = IF pc = "control" THEN "control" ELSE "user"
           /\ graph'.vertices = graph.vertices \ {n}
           /\ \A m \in left \ {n} : /\ <<vertex, m>> \in DOMAIN graph'.edges
                                    /\ graph'.edges[<<vertex, m>>] = graph.edges[<<vertex, m>>]
  <1>1. cur \notin lost /\ ~ Clash(n) /\ pc \in {"control", "user"}
    BY CombineMissed DEF combine
  <1>2. n # vertex
    BY <1>1 DEF Clash
  <1>3. \A m \in left : /\ <<vertex, m>> \in DOMAIN graph.edges
                        /\ graph.edges[<<vertex, m>>].kind = IF pc = "control" THEN "control" ELSE "user"
    BY <1>1 DEF MergeInv, LeftInv
  <1>4. Closed(graph)
    BY DEF MergeInv, LoopInv
  <1>5. vertex \in graph.vertices /\ n \in graph.vertices
    BY <1>3, <1>4 DEF Closed
  <1>6. PICK late \in BOOLEAN : graph' = combine_vertex(graph, vertex, n, late, {})
    BY CombineMissed
  <1>7. /\ graph'.vertices = graph.vertices \ {n}
        /\ \A d \in DOMAIN graph.edges : d[1] # n /\ d[2] # n =>
              d \in DOMAIN graph'.edges /\ graph'.edges[d] = graph.edges[d]
    BY <1>4, <1>5, <1>6, CombineVertex
  <1>8. ASSUME NEW m \in left \ {n}
        PROVE  /\ <<vertex, m>> \in DOMAIN graph'.edges
               /\ graph'.edges[<<vertex, m>>] = graph.edges[<<vertex, m>>]
    <2>1. <<vertex, m>>[1] # n /\ <<vertex, m>>[2] # n
      BY <1>2
    <2> QED
      BY <1>3, <1>7, <2>1
  <1> QED
    BY <1>1, <1>2, <1>3, <1>5, <1>7, <1>8

\* An edge that was kept is kept, or was the one merged along.
LEMMA CombineKept ==
    ASSUME MergeInv, NEW n \in left, combine(n), cur' \notin lost',
           NEW e \in (DOMAIN rep) \X (DOMAIN rep), NEW label, Kept(graph, e, label)
    PROVE  \/ Kept(graph, e, label)'
           \/ /\ rep'[e[1]] = rep'[e[2]]
              /\ label.kind = IF pc = "control" THEN "control" ELSE "user"
  <1> DEFINE d == <<rep[e[1]], rep[e[2]]>>
             c == <<Joined(vertex, n, d[1]), Joined(vertex, n, d[2])>>
  <1>1. d \in DOMAIN graph.edges /\ graph.edges[d] = label
    BY DEF Kept
  <1>2. rep'[e[1]] = Joined(vertex, n, rep[e[1]]) /\ rep'[e[2]] = Joined(vertex, n, rep[e[2]])
    BY CombineStep
  <1>3. CASE d = <<vertex, n>>
    <2>1. rep'[e[1]] = vertex /\ rep'[e[2]] = vertex
      BY <1>2, <1>3 DEF Joined
    <2>2. graph.edges[d].kind = IF pc = "control" THEN "control" ELSE "user"
      BY <1>3, CombineClean
    <2> QED
      BY <1>1, <2>1, <2>2
  <1>4. CASE d # <<vertex, n>>
    <2>1. PICK late \in BOOLEAN : graph' = combine_vertex(graph, vertex, n, late, {})
      BY CombineMissed
    <2>2. ~ Clash(n) /\ vertex \in graph.vertices /\ n \in graph.vertices /\ Closed(graph)
      BY CombineClean DEF MergeInv, LoopInv
    <2> HIDE DEF d
    <2>3. c \in DOMAIN graph'.edges /\ graph'.edges[c] = graph.edges[d]
      BY <1>1, <1>4, <2>1, <2>2, MergeKeeps
    <2>4. c = <<rep'[e[1]], rep'[e[2]]>>
      BY <1>2 DEF d
    <2> QED
      BY <1>1, <2>3, <2>4 DEF Kept
  <1> QED
    BY <1>3, <1>4

\* One turn of the loop over the neighbours.
LEMMA MergeCombine ==
    ASSUME MergeInv, NEW n \in left, combine(n)
    PROVE  MergeInv'
  <1>1. /\ pc \in {"control", "user"} /\ left' = left \ {n} /\ merged' = TRUE
        /\ exitNode' = ExitAfter(n) /\ lost' \in {lost, lost \cup {cur}}
        /\ UNCHANGED <<prog, meta, cur, pc, waiting, todo, vertex>>
    BY DEF combine
  <1>2. TypeOK /\ LoopInv /\ prog \in Programs
    BY DEF MergeInv, TypeOK
  <1>3. /\ Closed(graph') /\ graph'.vertices \subseteq graph.vertices
        /\ DOMAIN rep' = DOMAIN rep /\ vertex \in DOMAIN rep
        /\ \A v \in DOMAIN rep : rep'[v] = Joined(vertex, n, rep[v])
    BY CombineStep
  <1>4. TypeOK'
    <2>1. rep' \in [DOMAIN rep' -> DOMAIN rep']
      <3>1. rep' = [v \in DOMAIN rep |-> IF rep[v] = n THEN vertex ELSE rep[v]]
        BY DEF combine
      <3>2. \A v \in DOMAIN rep : rep[v] \in DOMAIN rep
        BY <1>2 DEF TypeOK
      <3> QED
        BY <1>3, <3>1, <3>2
    <2>2. \A e \in DOMAIN graph'.edges : {e[1], e[2]} \subseteq graph'.vertices
      BY <1>3 DEF Closed
    <2> QED
      BY <1>1, <1>2, <2>1, <2>2 DEF TypeOK
  <1>5. LoopInv'
    <2>1. ASSUME NEW f \in waiting, NEW v \in Vertices(prog, f)
          PROVE  rep'[v] = v
      <3>1. cur # NULL /\ n \in Vertices(prog, cur) /\ f # cur /\ f \in DOMAIN prog
        BY <1>1, <1>2 DEF LoopInv
      <3>2. v # n
        BY <3>1, VertexOf
      <3>3. rep[v] = v /\ v \in DOMAIN rep
        BY <1>2, <3>1 DEF LoopInv
      <3> QED
        BY <1>3, <3>2, <3>3 DEF Joined
    <2> QED
      BY <1>1, <1>2, <1>3, <2>1 DEF LoopInv
  <1>6. LeftInv'
    <2> SUFFICES ASSUME cur' \notin lost', NEW m \in left'
                 PROVE  /\ <<vertex', m>> \in DOMAIN graph'.edges
                        /\ graph'.edges[<<vertex', m>>].kind = IF pc' = "control" THEN "control" ELSE "user"
      BY DEF LeftInv
    <2>1. m \in left \ {n}
      BY <1>1
    <2>2. /\ <<vertex, m>> \in DOMAIN graph'.edges
          /\ graph'.edges[<<vertex, m>>] = graph.edges[<<vertex, m>>] /\ cur \notin lost
      BY <2>1, CombineClean
    <2>3. graph.edges[<<vertex, m>>].kind = IF pc = "control" THEN "control" ELSE "user"
      BY <1>1, <2>1, <2>2 DEF MergeInv, LeftInv
    <2> QED
      BY <1>1, <2>2, <2>3
  <1>7. ASSUME cur' # NULL, cur' \notin lost'
        PROVE  Converted(cur, graph, exitNode)'
    <2>1. /\ cur # NULL /\ cur \notin lost /\ n # vertex /\ vertex \in graph.vertices
          /\ graph'.vertices = graph.vertices \ {n}
      BY <1>1, <1>7, CombineClean
    <2>2. Converted(cur, graph, exitNode) /\ cur \in DOMAIN prog /\ pc = "control"
      BY <1>1, <1>2, <2>1 DEF MergeInv, LoopInv
    <2>3. Vertices(prog, cur) \subseteq DOMAIN rep /\ graph.vertices \subseteq DOMAIN rep
      BY <1>2, <2>2 DEF LoopInv
    <2>4. \A v \in Vertices(prog, cur) : rep'[v] \in graph'.vertices
      BY <1>3, <2>1, <2>2, <2>3 DEF Converted, Joined
    <2>5. \A v \in graph'.vertices : rep'[v] = v
      BY <1>3, <2>1, <2>2, <2>3 DEF Converted, Joined
    <2>6. exitNode' = IF prog[cur].exit = NULL THEN NULL ELSE rep'[Last(prog, cur, prog[cur].exit)]
      <3>1. CASE prog[cur].exit = NULL
        <4>1. n \in Vertices(prog, cur) /\ NULL \notin Vertices(prog, cur)
          BY <1>2, <2>1, <2>2, ProgramAssumption DEF LoopInv
        <4> QED
          BY <1>1, <2>2, <3>1, <4>1 DEF Converted, ExitAfter
      <3>2. CASE prog[cur].exit # NULL
        <4>1. Last(prog, cur, prog[cur].exit) \in DOMAIN rep
          BY <1>2, <2>2, <2>3, <3>2, BlockVertices, ProgramFacts
        <4> QED
          BY <1>1, <1>3, <2>2, <3>2, <4>1 DEF Converted, Joined, ExitAfter
      <3> QED
        BY <3>1, <3>2
    <2>7. Simulates(graph, cur)'
      <3> DEFINE x == Expanded(prog, cur)
      <3> SUFFICES ASSUME NEW e \in DOMAIN x.edges, NEW label, label = x.edges[e]
                   PROVE  \/ Kept(graph, e, label)'
                          \/ label = Control /\ rep'[e[1]] = rep'[e[2]]
        BY <1>1 DEF Simulates, Kept
      <3>1. e \in Vertices(prog, cur) \X Vertices(prog, cur) /\ (label.kind = "control" => label = Control)
        BY <1>2, <2>2, ExpandedLabel
      <3>2. e \in (DOMAIN rep) \X (DOMAIN rep)
        BY <2>3, <3>1
      <3>3. \/ Kept(graph, e, label)
            \/ label = Control /\ rep[e[1]] = rep[e[2]]
        BY <2>2 DEF Converted, Simulates
      <3>4. CASE Kept(graph, e, label)
        BY <1>1, <1>7, <2>2, <3>1, <3>2, <3>4, CombineKept
      <3>5. CASE label = Control /\ rep[e[1]] = rep[e[2]]
        BY <1>3, <3>2, <3>5
      <3> QED
        BY <3>3, <3>4, <3>5
    <2> QED
      BY <1>1, <2>4, <2>5, <2>6, <2>7 DEF Converted
  <1> QED
    BY <1>1, <1>4, <1>5, <1>6, <1>7 DEF MergeInv, TrimInv, InternalEdgesTrimmed

-----------------------------------------------------------------------------
(* Insertion of the functions called. *)

\* What is inserted for a call is the graph of a function, or nothing.
LEMMA MetaOfClosed ==
    ASSUME LoopInv, NEW f
    PROVE  Closed(MetaOf(f).libcCallGraph) /\ MetaOf(f).libcCallGraph.vertices \subseteq DOMAIN rep
  <1>1. CASE f \in DOMAIN prog
    BY <1>1 DEF LoopInv, MetaOf
  <1>2. CASE f \notin DOMAIN prog
    <2>1. MetaOf(f).libcCallGraph = NoGraph
      BY <1>2 DEF LoopInv, MetaOf, EmptyMeta
    <2> QED
      BY <2>1 DEF NoGraph, Closed
  <1> QED
    BY <1>1, <1>2

\* The edges there were stay what they were.
LEMMA InlineStep ==
    ASSUME MergeInv, NEW n \in left, inline_call(n)
    PROVE  LET callee == MetaOf(graph.edges[<<vertex, n>>].name)
           IN  /\ Closed(graph') /\ graph'.vertices = graph.vertices \cup callee.libcCallGraph.vertices
               /\ DOMAIN graph.edges \subseteq DOMAIN graph'.edges
               /\ \A d \in DOMAIN graph.edges : graph'.edges[d] = graph.edges[d]
  <1> DEFINE callee == MetaOf(graph.edges[<<vertex, n>>].name)
             i == insert_graph(graph, callee.libcCallGraph)
             g == add_edge(i, vertex, callee.entryNode, Control)
  <1>1. PICK front \in get_neighbors(g, vertex) : graph' = add_edge(g, callee.exitNode, front, Control)
    BY DEF inline_call
  <1>2. Closed(graph) /\ Closed(callee.libcCallGraph)
    BY MetaOfClosed DEF MergeInv, LoopInv
  <1> HIDE DEF callee
  <1>3. /\ Closed(i) /\ i.vertices = graph.vertices \cup callee.libcCallGraph.vertices
        /\ DOMAIN graph.edges \subseteq DOMAIN i.edges
        /\ \A d \in DOMAIN graph.edges : i.edges[d] = graph.edges[d]
    BY <1>2, InsertGraph
  <1> HIDE DEF i
  <1>4. /\ Closed(g) /\ g.vertices = i.vertices /\ DOMAIN i.edges \subseteq DOMAIN g.edges
        /\ \A d \in DOMAIN i.edges : g.edges[d] = i.edges[d]
    BY <1>3, AddEdge
  <1> HIDE DEF g
  <1>5. /\ Closed(graph') /\ graph'.vertices = g.vertices /\ DOMAIN g.edges \subseteq DOMAIN graph'.edges
        /\ \A d \in DOMAIN g.edges : graph'.edges[d] = g.edges[d]
    <2> DEFINE h == add_edge(g, callee.exitNode, front, Control)
    <2>1. /\ Closed(h) /\ h.vertices = g.vertices /\ DOMAIN g.edges \subseteq DOMAIN h.edges
          /\ \A d \in DOMAIN g.edges : h.edges[d] = g.edges[d]
      BY <1>4, AddEdge
    <2>2. graph' = h
      BY <1>1
    <2> HIDE DEF h
    <2> QED
      BY <2>1, <2>2
  <1> QED
    BY <1>3, <1>4, <1>5 DEF callee

\* The call of a neighbour is replaced by the function's graph.
LEMMA MergeInline ==
    ASSUME MergeInv, NEW n \in left, inline_call(n)
    PROVE  MergeInv'
  <1>1. /\ TypeOK /\ LoopInv /\ LeftInv /\ pc = "call" /\ left' = left \ {n}
        /\ UNCHANGED <<prog, meta, cur, exitNode, pc, waiting, todo, vertex, merged, rep>>
        /\ (lost' = lost \/ lost' = lost \cup {NULL})
    BY DEF MergeInv, inline_call
  <1>2. cur = NULL
    BY <1>1 DEF LoopInv
  <1>3. /\ Closed(graph') /\ graph'.vertices \subseteq DOMAIN rep
        /\ DOMAIN graph.edges \subseteq DOMAIN graph'.edges
        /\ \A d \in DOMAIN graph.edges : graph'.edges[d] = graph.edges[d]
    BY <1>1, InlineStep, MetaOfClosed DEF LoopInv
  <1>4. TypeOK'
    <2>1. \A e \in DOMAIN graph'.edges : {e[1], e[2]} \subseteq graph'.vertices
      BY <1>3 DEF Closed
    <2> QED
      BY <1>1, <2>1 DEF TypeOK
  <1>5. LoopInv'
    BY <1>1, <1>2, <1>3 DEF LoopInv
  <1>6. LeftInv'
    BY <1>1, <1>3 DEF LeftInv
  <1> QED
    BY <1>1, <1>2, <1>4, <1>5, <1>6 DEF MergeInv, TrimInv, InternalEdgesTrimmed

\* The next vertex whose calls are inserted.
LEMMA MergeInlineVisit ==
    ASSUME MergeInv, NEW v \in todo, inline_visit(v)
    PROVE  MergeInv'
  <1>1. /\ TypeOK /\ LoopInv /\ pc = "inline" /\ pc' = "call" /\ todo' = todo \ {v} /\ vertex' = v
        /\ left' = NeighborsBy(graph, v, "user")
        /\ UNCHANGED <<prog, meta, cur, graph, exitNode, waiting, merged, rep, lost>>
    BY DEF MergeInv, inline_visit
  <1>2. cur = NULL
    BY <1>1 DEF LoopInv
  <1>3. TypeOK'
    BY <1>1 DEF TypeOK
  <1>4. LoopInv'
    BY <1>1, <1>2 DEF LoopInv
  <1>5. LeftInv'
    BY <1>1 DEF LeftInv, NeighborsBy, get_neighbors
  <1> QED
    BY <1>1, <1>2, <1>3, <1>4, <1>5 DEF MergeInv, TrimInv, InternalEdgesTrimmed

\* The calls of a vertex are inserted, or those of all of them.
LEMMA MergeInlineDone ==
    ASSUME MergeInv, inline_done
    PROVE  MergeInv'
  <1>1. /\ TypeOK /\ LoopInv /\ TrimInv /\ left = {} /\ pc \in {"inline", "call"}
        /\ UNCHANGED <<prog, meta, cur, graph, exitNode, waiting, todo, vertex, left, rep, lost>>
        /\ \/ pc' = "inline" /\ merged' = merged
           \/ pc' = "scan" /\ merged' = TRUE
    BY DEF MergeInv, LoopInv, inline_done
  <1>2. cur = NULL
    BY <1>1 DEF LoopInv
  <1>3. TypeOK'
    BY <1>1 DEF TypeOK
  <1>4. LoopInv'
    BY <1>1, <1>2 DEF LoopInv
  <1> QED
    BY <1>1, <1>2, <1>3, <1>4 DEF MergeInv, LeftInv, TrimInv, InternalEdgesTrimmed

-----------------------------------------------------------------------------
(* The theorems. *)

\* A step that changes nothing.
LEMMA MergeStutter ==
    ASSUME MergeInv, UNCHANGED vars
    PROVE  MergeInv'
  <1>1. UNCHANGED <<prog, meta, cur, graph, exitNode, pc, waiting, todo, vertex, left, merged, rep, lost>>
    BY DEF vars, loop
  <1>2. (cur # NULL /\ cur \notin lost => Converted(cur, graph, exitNode))'
    BY <1>1, ConvertedSame
  <1>3. TypeOK' /\ LoopInv'
    BY <1>1 DEF MergeInv, TypeOK, LoopInv
  <1>4. LeftInv' /\ TrimInv'
    BY <1>1 DEF MergeInv, LeftInv, TrimInv, Trimmed, Internal, InternalEdgesTrimmed
  <1> QED
    BY <1>2, <1>3, <1>4 DEF MergeInv

\* Every step of the pass.
LEMMA MergeStep ==
    ASSUME MergeInv, [Next]_vars
    PROVE  MergeInv'
  <1>1. CASE convert_next
    BY <1>1, MergeConvert
  <1>2. CASE scan
    BY <1>2, MergeScan
  <1>3. CASE combined
    BY <1>3, MergeCombined
  <1>4. CASE inline_done
    BY <1>4, MergeInlineDone
  <1>5. CASE \E v \in todo : visit(v) \/ inline_visit(v)
    BY <1>5, MergeVisit, MergeInlineVisit
  <1>6. CASE \E n \in left : combine(n) \/ inline_call(n)
    BY <1>6, MergeCombine, MergeInline
  <1>7. CASE UNCHANGED vars
    BY <1>7, MergeStutter
  <1> QED
    BY <1>1, <1>2, <1>3, <1>4, <1>5, <1>6, <1>7 DEF Next

\* The invariant of the merging loops holds for every program and in whichever
\* order graaf's tables are walked.
THEOREM MergeInductive == Spec => []MergeInv
  <1>1. Init => MergeInv
    BY MergeStarts
  <1>2. MergeInv /\ [Next]_vars => MergeInv'
    BY MergeStep
  <1> QED
    BY <1>1, <1>2, PTL DEF Spec

\* Every variable keeps its type, and no edge names a vertex that was merged away.
THEOREM MergeTypeCorrect == Spec => []TypeOK
  <1>1. MergeInv => TypeOK
    BY DEF MergeInv
  <1> QED
    BY <1>1, MergeInductive, PTL

\* ConvertBBGraphToLibcCallGraph loses no path of a function unless a merge met a
\* clash, or missed an edge because the edge table was given new buckets.
THEOREM ConvertCorrect == Spec => []ConvertSimulates
  <1>1. MergeInv => ConvertSimulates
    BY DEF MergeInv, ConvertSimulates, Converted
  <1> QED
    BY <1>1, MergeInductive, PTL

\* The exit node that the meta data of a function names is the vertex its return
\* was merged into, while nothing was lost; a function without a return has none.
THEOREM ExitCorrect == Spec => []ExitTracked
  <1>1. MergeInv => ExitTracked
    <2> SUFFICES ASSUME MergeInv, cur # NULL, cur \notin lost
                 PROVE  IF prog[cur].exit = NULL THEN exitNode = NULL
                        ELSE /\ exitNode \in graph.vertices
                             /\ exitNode = rep[Last(prog, cur, prog[cur].exit)]
      BY DEF ExitTracked
    <2>1. Converted(cur, graph, exitNode) /\ prog \in Programs /\ cur \in DOMAIN prog
      BY DEF MergeInv, TypeOK, LoopInv
    <2>2. prog[cur].exit # NULL => Last(prog, cur, prog[cur].exit) \in Vertices(prog, cur)
      BY <2>1, BlockVertices, ProgramFacts
    <2> QED
      BY <2>1, <2>2 DEF Converted
  <1> QED
    BY <1>1, MergeInductive, PTL

\* The final graph has no edge for control flow or for a call of one of the
\* program's own functions.
THEOREM TrimmedCorrect == Spec => []InternalEdgesTrimmed
  <1>1. MergeInv => InternalEdgesTrimmed
    BY DEF MergeInv, TrimInv
  <1> QED
    BY <1>1, MergeInductive, PTL

=============================================================================
