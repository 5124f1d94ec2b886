-------------------------- MODULE FinalGraphProofs --------------------------
(***************************************************************************)
(* CombineLibcgGraph: what the final graph keeps of main and of the        *)
(* functions main calls, for every program in which no merge met a clash   *)
(* or missed an edge and every call was tied to its function.              *)
(***************************************************************************)
EXTENDS CallGraphGenProofs

-----------------------------------------------------------------------------
(* Conversion leaves its result in the meta data. *)

\* The meta data of a function stay good while the merges happen elsewhere.
LEMMA ConvertedElsewhere ==
    ASSUME MergeInv, UNCHANGED prog, NEW f \in DOMAIN prog, meta'[f] = meta[f],
           Converted(f, meta[f].libcCallGraph, meta[f].exitNode),
           \A v \in Vertices(prog, f) : rep'[v] = rep[v]
    PROVE  Converted(f, meta[f].libcCallGraph, meta[f].exitNode)'
  <1> DEFINE g == meta[f].libcCallGraph
  <1>1. prog \in Programs /\ g.vertices \subseteq Vertices(prog, f)
    BY DEF MergeInv, TypeOK, LoopInv
  <1>2. prog[f].exit # NULL => Last(prog, f, prog[f].exit) \in Vertices(prog, f)
    BY <1>1, BlockVertices, ProgramFacts
  <1>3. Simulates(g, f)'
    <2> SUFFICES ASSUME NEW e \in DOMAIN Expanded(prog, f).edges, NEW label, label = Expanded(prog, f).edges[e]
                 PROVE  \/ Kept(g, e, label)'
                        \/ label = Control /\ rep'[e[1]] = rep'[e[2]]
      BY DEF Simulates, Kept
    <2>1. e[1] \in Vertices(prog, f) /\ e[2] \in Vertices(prog, f)
      BY <1>1, ExpandedLabel
    <2>2. \/ Kept(g, e, label)
          \/ label = Control /\ rep[e[1]] = rep[e[2]]
      BY DEF Converted, Simulates
    <2> QED
      BY <2>1, <2>2 DEF Kept
  <1> QED
    BY <1>1, <1>2, <1>3 DEF Converted

\* Every step before the last loop keeps the meta data.
LEMMA MetaStep ==
    ASSUME MergeInv, MetaInv, Next, MergeInv'
    PROVE  MetaInv'
  <1> SUFFICES ASSUME cur' # NULL \/ pc' \in {"convert", "inline", "call"},
                      NEW f \in DOMAIN prog' \ (waiting' \cup lost'), f # cur' \/ pc' = "convert"
               PROVE  /\ meta'[f].entryNode = <<f, prog'[f].entry, 0>>
                      /\ Converted(f, meta[f].libcCallGraph, meta[f].exitNode)'
    BY DEF MetaInv
  <1>1. CASE scan /\ ~ merged /\ f = cur
    <2>1. /\ cur # NULL /\ UNCHANGED <<prog, cur, graph, exitNode, waiting, rep, lost>>
          /\ meta' = [meta EXCEPT ![cur] = [entryNode |-> <<cur, prog[cur].entry, 0>>,
                                            exitNode |-> exitNode, libcCallGraph |-> graph]]
      BY <1>1, ProgramFacts DEF scan, ScanAgain, MergeInv, TypeOK
    <2>2. cur \in DOMAIN prog /\ DOMAIN meta = DOMAIN prog /\ cur \notin lost
      BY <1>1, <2>1 DEF MergeInv, LoopInv
    <2>3. Converted(cur, graph, exitNode)'
      BY <2>1, <2>2 DEF MergeInv
    <2>4. meta'[f] = [entryNode |-> <<cur, prog[cur].entry, 0>>, exitNode |-> exitNode, libcCallGraph |-> graph]
      BY <1>1, <2>1, <2>2
    <2> QED
      BY <1>1, <2>1, <2>3, <2>4 DEF Converted
  <1>2. ASSUME f \in DOMAIN prog, UNCHANGED prog, meta'[f] = meta[f], f \notin waiting \cup lost,
               cur # NULL \/ pc \in {"convert", "inline", "call"}, f # cur \/ pc = "convert",
               \A v \in Vertices(prog, f) : rep'[v] = rep[v]
        PROVE  /\ meta'[f].entryNode = <<f, prog'[f].entry, 0>>
               /\ Converted(f, meta[f].libcCallGraph, meta[f].exitNode)'
    <2>1. /\ meta[f].entryNode = <<f, prog[f].entry, 0>>
          /\ Converted(f, meta[f].libcCallGraph, meta[f].exitNode)
      BY <1>2 DEF MetaInv
    <2> QED
      BY <1>2, <2>1, ConvertedElsewhere
  <1>3. LoopInv /\ prog \in Programs
    BY DEF MergeInv, TypeOK
  <1>4. CASE convert_next
    BY <1>2, <1>4 DEF convert_next
  <1>5. CASE scan /\ ~ (~ merged /\ f = cur)
    <2>1. UNCHANGED <<prog, cur, waiting, rep, lost>> /\ pc = "scan"
      BY <1>5 DEF scan
    <2>2. CASE merged
      BY <1>2, <1>5, <2>1, <2>2 DEF scan, ScanAgain
    <2>3. CASE ~ merged
      <3>1. /\ pc' = IF cur = NULL THEN "done" ELSE "convert"
            /\ meta' = IF cur = NULL THEN meta ELSE [meta EXCEPT ![cur] =
                         [entryNode |-> <<cur, prog[cur].entry, 0>>,
                          exitNode |-> exitNode, libcCallGraph |-> graph]]
        BY <1>5, <2>3 DEF scan, ScanAgain
      <3>2. cur # NULL /\ f # cur /\ f \in DOMAIN meta
        BY <1>3, <1>5, <2>1, <2>3, <3>1 DEF LoopInv
      <3> QED
        BY <1>2, <2>1, <3>1, <3>2
    <2> QED
      BY <2>2, <2>3
  <1>6. CASE (\E v \in todo : visit(v)) \/ combined
    <2>1. UNCHANGED <<prog, cur, waiting, rep, lost, meta>> /\ pc' \in {"control", "user", "scan"}
      BY <1>6 DEF visit, combined
    <2> QED
      BY <1>2, <2>1
  <1>7. CASE \E n \in left : combine(n)
    <2>1. PICK n \in left : combine(n)
      BY <1>7
    <2>2. UNCHANGED <<prog, cur, waiting, meta, pc>> /\ lost \subseteq lost' /\ pc \in {"control", "user"}
      BY <2>1 DEF combine
    <2>3. cur # NULL /\ f # cur /\ f \in DOMAIN prog \ (waiting \cup lost)
      BY <2>2
    <2>4. Converted(f, meta[f].libcCallGraph, meta[f].exitNode)
      BY <2>3 DEF MetaInv
    <2>5. /\ n \in Vertices(prog, cur) /\ Vertices(prog, f) \subseteq DOMAIN rep
          /\ meta[f].libcCallGraph.vertices \subseteq Vertices(prog, f)
      BY <1>3, <2>3 DEF LoopInv
    <2>6. ASSUME NEW v \in Vertices(prog, f) PROVE rep'[v] = rep[v]
      <3>1. rep[v] \in Vertices(prog, f)
        BY <2>4, <2>5 DEF Converted
      <3>2. rep[v] # n
        BY <2>3, <2>5, <3>1, VertexOf
      <3> QED
        BY <2>1, <2>5, <3>2, CombineStep DEF Joined
    <2> QED
      BY <1>2, <2>2, <2>3, <2>6
  <1>8. CASE \/ inline_done \/ \E v \in todo : inline_visit(v)
             \/ \E n \in left : inline_call(n)
    <2>1. UNCHANGED <<prog, cur, waiting, rep, meta>> /\ lost \subseteq lost' /\ pc \in {"inline", "call"}
      BY <1>8 DEF inline_done, inline_visit, inline_call
    <2>2. cur = NULL
      BY <1>3, <2>1 DEF LoopInv
    <2>3. f # cur
      BY <1>3, <2>1, <2>2, ProgramFacts
    <2> QED
      BY <1>2, <2>1, <2>3
  <1> QED
    BY <1>1, <1>4, <1>5, <1>6, <1>7, <1>8 DEF Next

-----------------------------------------------------------------------------
(* The last loop. *)

\* Control flow that is not merged yet is among the edges.
LEMMA SimulatesFollowed ==
    ASSUME NEW f, Simulates(graph, f)
    PROVE  Followed(f)
  BY DEF Simulates, Followed, Control

\* The calls of main are edges between vertices of main.
LEMMA UserCall ==
    ASSUME MergeInv, NEW e \in UserCalls
    PROVE  /\ e \in DOMAIN Expanded(prog, main).edges
           /\ e \in Vertices(prog, main) \X Vertices(prog, main)
           /\ e \in (DOMAIN rep) \X (DOMAIN rep)
           /\ Expanded(prog, main).edges[e] \in Call /\ Expanded(prog, main).edges[e].kind = "user"
  <1>1. prog \in Programs /\ main \in DOMAIN prog
    BY ProgramFacts DEF MergeInv, TypeOK
  <1>2. e \in DOMAIN Expanded(prog, main).edges /\ Expanded(prog, main).edges[e].kind = "user"
    BY DEF UserCalls
  <1>3. e \in Vertices(prog, main) \X Vertices(prog, main) /\ Expanded(prog, main).edges[e] \in Call
    BY <1>1, <1>2, ExpandedLabel DEF Control
  <1>4. Vertices(prog, main) \subseteq DOMAIN rep
    BY <1>1 DEF MergeInv, LoopInv
  <1> QED
    BY <1>2, <1>3, <1>4

\* A step that moves the loop on without a merge.
LEMMA FinalQuiet ==
    ASSUME FinalInv, UNCHANGED <<prog, cur, graph, rep, lost>>,
           pc \in {"scan", "control", "user"}, pc' \in {"scan", "control", "user", "done"}
    PROVE  FinalInv'
  <1> SUFFICES ASSUME cur = NULL, lost = {}
               PROVE  /\ Followed(main)' /\ \A e \in UserCalls' : CallTied(e)'
    BY DEF FinalInv
  <1>1. Followed(main) /\ \A e \in UserCalls : CallTied(e)
    BY DEF FinalInv, Handled
  <1>2. UserCalls' = UserCalls
    BY DEF UserCalls
  <1>3. ASSUME NEW f, Followed(f) PROVE Followed(f)'
    BY <1>3 DEF Followed, Kept
  <1>4. ASSUME NEW v, NEW w, Tie(v, w) PROVE Tie(v, w)'
    BY <1>4 DEF Tie, Kept
  <1>5. ASSUME NEW e \in UserCalls PROVE CallTied(e)'
    BY <1>1, <1>3, <1>4 DEF CallTied
  <1> QED
    BY <1>1, <1>2, <1>3, <1>5

\* A merge that loses nothing keeps main and the functions inserted, and the ties.
LEMMA FinalCombine ==
    ASSUME MergeInv, FinalInv, NEW n \in left, combine(n)
    PROVE  FinalInv'
  <1>1. /\ UNCHANGED <<prog, cur, pc>> /\ pc \in {"control", "user"}
        /\ lost' \in {lost, lost \cup {cur}}
    BY DEF combine
  <1> SUFFICES ASSUME cur = NULL, lost' = {}
               PROVE  Followed(main)' /\ \A e \in UserCalls' : CallTied(e)'
    BY <1>1 DEF FinalInv
  <1>2. lost = {} /\ cur' \notin lost'
    BY <1>1
  <1>3. Followed(main) /\ \A e \in UserCalls : CallTied(e)
    BY <1>1, <1>2 DEF FinalInv, Handled
  <1>4. UserCalls' = UserCalls
    BY <1>1 DEF UserCalls
  <1>5. prog \in Programs /\ main \in DOMAIN prog /\ \A f \in DOMAIN prog : Vertices(prog, f) \subseteq DOMAIN rep
    BY ProgramFacts DEF MergeInv, TypeOK, LoopInv
  <1>6. \A v, w \in DOMAIN rep : rep[v] = rep[w] => rep'[v] = rep'[w]
    BY CombineStep
  <1>7. ASSUME NEW f \in DOMAIN prog, Followed(f) PROVE Followed(f)'
    <2> SUFFICES ASSUME NEW e \in DOMAIN Expanded(prog, f).edges, NEW label, label = Expanded(prog, f).edges[e]
                 PROVE  \/ Kept(graph, e, label)'
                        \/ label.kind \in {"control", "user"} /\ rep'[e[1]] = rep'[e[2]]
      BY <1>1 DEF Followed, Kept
    <2>1. e \in (DOMAIN rep) \X (DOMAIN rep)
      BY <1>5, ExpandedLabel
    <2>2. \/ Kept(graph, e, label)
          \/ label.kind \in {"control", "user"} /\ rep[e[1]] = rep[e[2]]
      BY <1>7 DEF Followed
    <2>3. CASE Kept(graph, e, label)
      BY <1>2, <2>1, <2>3, CombineKept
    <2>4. CASE label.kind \in {"control", "user"} /\ rep[e[1]] = rep[e[2]]
      BY <1>6, <2>1, <2>4
    <2> QED
      BY <2>2, <2>3, <2>4
  <1>8. ASSUME NEW v \in DOMAIN rep, NEW w \in DOMAIN rep, Tie(v, w) PROVE Tie(v, w)'
    <2>1. CASE rep[v] = rep[w]
      BY <1>6, <2>1 DEF Tie
    <2>2. CASE Kept(graph, <<v, w>>, Control)
      <3>1. <<v, w>> \in (DOMAIN rep) \X (DOMAIN rep)
        OBVIOUS
      <3>2. \/ Kept(graph, <<v, w>>, Control)'
            \/ rep'[<<v, w>>[1]] = rep'[<<v, w>>[2]]
        BY <1>2, <2>2, <3>1, CombineKept
      <3> QED
        BY <3>2 DEF Tie
    <2> QED
      BY <1>8, <2>1, <2>2 DEF Tie
  <1>9. ASSUME NEW e \in UserCalls PROVE CallTied(e)'
    <2> DEFINE f == Expanded(prog, main).edges[e].name
    <2>1. /\ f \in DOMAIN prog /\ Followed(f)
          /\ Tie(e[1], <<f, prog[f].entry, 0>>)
          /\ prog[f].exit # NULL => Tie(Last(prog, f, prog[f].exit), e[2])
      BY <1>3 DEF CallTied
    <2>2. e[1] \in DOMAIN rep /\ e[2] \in DOMAIN rep
      BY UserCall
    <2>3. /\ <<f, prog[f].entry, 0>> \in DOMAIN rep
          /\ prog[f].exit # NULL => Last(prog, f, prog[f].exit) \in DOMAIN rep
      BY <1>5, <2>1, BlockVertices, ProgramFacts
    <2>4. f' = f /\ prog' = prog
      BY <1>1
    <2> HIDE DEF f
    <2>5. PICK c : c = f
      OBVIOUS
    <2>6. /\ Followed(c)' /\ Tie(e[1], <<c, prog[c].entry, 0>>)'
          /\ prog[c].exit # NULL => Tie(Last(prog, c, prog[c].exit), e[2])'
      <3>1. PICK x, y : x = <<c, prog[c].entry, 0>> /\ y = Last(prog, c, prog[c].exit)
        OBVIOUS
      <3>2. Tie(e[1], x)' /\ (prog[c].exit # NULL => Tie(y, e[2])') /\ Followed(c)'
        BY <1>7, <1>8, <2>1, <2>2, <2>3, <2>5, <3>1
      <3>3. x = <<c, prog'[c].entry, 0>> /\ y = Last(prog', c, prog'[c].exit)
        BY <2>4, <3>1
      <3> QED
        BY <3>2, <3>3 DEF Tie, Kept
    <2> QED
      BY <2>1, <2>4, <2>5, <2>6 DEF CallTied, f
  <1> QED
    BY <1>3, <1>4, <1>5, <1>7, <1>9

-----------------------------------------------------------------------------
(* The first loop. *)

\* While functions are inserted every call of main is an edge.
LEMMA UserCallKept ==
    ASSUME Simulates(graph, main), NEW e \in UserCalls
    PROVE  Kept(graph, e, Expanded(prog, main).edges[e])
  BY DEF Simulates, UserCalls, Control

\* The edges of a function's graph lie between its own vertices.
LEMMA MetaEdge ==
    ASSUME LoopInv, NEW f \in DOMAIN prog, NEW d \in DOMAIN meta[f].libcCallGraph.edges
    PROVE  d[1] \in Vertices(prog, f) /\ d[2] \in Vertices(prog, f)
  <1> DEFINE g == meta[f].libcCallGraph
  <1>1. Closed(g) /\ g.vertices \subseteq Vertices(prog, f)
    BY DEF LoopInv
  <1>2. d \in g.vertices \X g.vertices
    BY <1>1 DEF Closed
  <1> QED
    BY <1>1, <1>2

\* CombineLibcgGraph starts with the graph of main, no call of which is handled.
LEMMA FinalConvert ==
    ASSUME MergeInv, MetaInv, convert_next
    PROVE  FinalInv'
  <1>1. /\ prog \in Programs /\ main \in DOMAIN prog /\ NULL \notin Func /\ LoopInv /\ waiting \subseteq Func
    BY ProgramFacts DEF MergeInv, TypeOK
  <1>2. pc = "convert" /\ UNCHANGED <<prog, meta, rep, lost>>
    BY DEF convert_next
  <1> SUFFICES ASSUME cur' = NULL, lost = {}
               PROVE  /\ Followed(main)' /\ \A e \in UserCalls' : Handled(e)' => CallTied(e)'
                      /\ InsertInv'
    BY <1>2 DEF FinalInv
  <1>3. waiting = {} /\ graph' = meta[main].libcCallGraph /\ todo' = graph'.vertices /\ pc' = "inline"
    BY <1>1 DEF convert_next
  <1>4. Converted(main, meta[main].libcCallGraph, meta[main].exitNode)
    BY <1>1, <1>2, <1>3 DEF MetaInv
  <1>5. Simulates(graph, main)'
    BY <1>2, <1>3, <1>4 DEF Converted, Simulates, Kept
  <1>6. \A v \in graph'.vertices : rep'[v] = v
    BY <1>2, <1>3, <1>4 DEF Converted
  <1>7. ASSUME NEW f \in DOMAIN prog,
               NEW d \in DOMAIN meta[f].libcCallGraph.edges \cap DOMAIN graph'.edges
        PROVE  f = main
    <2>1. d[1] \in Vertices(prog, f) /\ d[1] \in Vertices(prog, main)
      BY <1>1, <1>3, MetaEdge
    <2> QED
      BY <2>1, VertexOf
  <1>8. InsertInv'
    BY <1>2, <1>3, <1>5, <1>6, <1>7 DEF InsertInv
  <1>9. ASSUME NEW e \in UserCalls' PROVE ~ Handled(e)'
    <2>1. e \in UserCalls
      BY <1>2 DEF UserCalls
    <2>2. e[1] \in Vertices(prog, main)
      BY <2>1, UserCall
    <2>3. rep[e[1]] \in graph'.vertices
      BY <1>3, <1>4, <2>2 DEF Converted
    <2> QED
      BY <1>2, <1>3, <2>3 DEF Handled
  <1>10. Followed(main)'
    <2>1. Simulates(graph, main)' => Followed(main)'
      BY DEF Simulates, Followed, Control
    <2> QED
      BY <1>5, <2>1
  <1> QED
    BY <1>8, <1>9, <1>10

\* What a step of the first loop that leaves the graph alone leaves alone.
LEMMA InlineQuiet ==
    ASSUME UNCHANGED <<prog, meta, graph, rep>>
    PROVE  /\ UserCalls' = UserCalls
           /\ Followed(main) => Followed(main)'
           /\ InsertInv => InsertInv'
           /\ \A e : CallTied(e) => CallTied(e)'
  <1>1. UserCalls' = UserCalls
    BY DEF UserCalls
  <1>2. ASSUME NEW f, Followed(f) PROVE Followed(f)'
    BY <1>2 DEF Followed, Kept
  <1>3. ASSUME NEW v, NEW w, Tie(v, w) PROVE Tie(v, w)'
    BY <1>3 DEF Tie, Kept
  <1>4. ASSUME NEW e, CallTied(e) PROVE CallTied(e)'
    BY <1>2, <1>3, <1>4 DEF CallTied
  <1>5. ASSUME InsertInv PROVE InsertInv'
    BY <1>5 DEF InsertInv, Simulates, Kept
  <1> QED
    BY <1>1, <1>2, <1>4, <1>5

\* The calls of the next vertex are all among the neighbours to deal with.
LEMMA FinalInlineVisit ==
    ASSUME MergeInv, FinalInv, NEW v \in todo, inline_visit(v)
    PROVE  FinalInv'
  <1>1. /\ pc = "inline" /\ pc' = "call" /\ todo' = todo \ {v} /\ vertex' = v
        /\ left' = NeighborsBy(graph, v, "user") /\ UNCHANGED <<prog, meta, cur, graph, rep, lost>>
    BY DEF inline_visit
  <1> SUFFICES ASSUME cur = NULL, lost = {}
               PROVE  /\ Followed(main)' /\ \A e \in UserCalls' : Handled(e)' => CallTied(e)'
                      /\ InsertInv'
    BY <1>1 DEF FinalInv
  <1>2. Followed(main) /\ InsertInv /\ \A e \in UserCalls : Handled(e) => CallTied(e)
    BY <1>1 DEF FinalInv
  <1>3. ASSUME NEW e \in UserCalls, Handled(e)' PROVE Handled(e)
    <2>1. Kept(graph, e, Expanded(prog, main).edges[e]) /\ Expanded(prog, main).edges[e].kind = "user"
      BY <1>2, UserCallKept DEF InsertInv, UserCalls
    <2>2. Closed(graph)
      BY DEF MergeInv, LoopInv
    <2>3. rep[e[2]] \in NeighborsBy(graph, rep[e[1]], "user")
      BY <2>1, <2>2 DEF Kept, NeighborsBy, get_neighbors, Closed
    <2>4. rep[e[1]] # v
      BY <1>1, <1>3, <2>3 DEF Handled
    <2> QED
      BY <1>1, <1>3, <2>4 DEF Handled
  <1> QED
    BY <1>1, <1>2, <1>3, InlineQuiet

\* When the neighbours, or the vertices, are dealt with, so are their calls.
LEMMA FinalInlineDone ==
    ASSUME MergeInv, FinalInv, inline_done
    PROVE  FinalInv'
  <1>1. /\ \/ pc = "call" /\ left = {} /\ pc' = "inline"
           \/ pc = "inline" /\ todo = {} /\ pc' = "scan"
        /\ UNCHANGED <<prog, meta, cur, graph, rep, lost, todo, vertex, left>>
    BY DEF inline_done
  <1> SUFFICES ASSUME cur = NULL, lost = {}
               PROVE  /\ Followed(main)' /\ \A e \in UserCalls' : Handled(e)' => CallTied(e)'
                      /\ InsertInv'
    BY <1>1 DEF FinalInv
  <1>2. Followed(main) /\ InsertInv /\ \A e \in UserCalls : Handled(e) => CallTied(e)
    BY <1>1 DEF FinalInv
  <1>3. ASSUME NEW e \in UserCalls, Handled(e)' PROVE Handled(e)
    BY <1>1, <1>3 DEF Handled
  <1> QED
    BY <1>1, <1>2, <1>3, InlineQuiet

\* A call that is tied to its function: the edges that are new are the function's
\* own and the ones that lead in and, if it returns, out.
LEMMA InlineTied ==
    ASSUME MergeInv, NEW n \in left, inline_call(n), lost' = {},
           NEW c, c = graph.edges[<<vertex, n>>].name
    PROVE  LET callee == MetaOf(c)
               in     == <<vertex, callee.entryNode>>
               out    == <<callee.exitNode, n>>
           IN  /\ lost = {} /\ callee.entryNode \in graph'.vertices
               /\ in \in DOMAIN graph'.edges /\ graph'.edges[in] = Control
               /\ callee.exitNode # NULL => /\ callee.exitNode \in graph'.vertices
                                            /\ out \in DOMAIN graph'.edges /\ graph'.edges[out] = Control
               /\ DOMAIN callee.libcCallGraph.edges \subseteq DOMAIN graph'.edges
               /\ \A d \in DOMAIN callee.libcCallGraph.edges \ DOMAIN graph.edges :
                     graph'.edges[d] = callee.libcCallGraph.edges[d]
               /\ \A d \in DOMAIN graph'.edges :
                     \/ d \in DOMAIN graph.edges \cup DOMAIN callee.libcCallGraph.edges \cup {in}
                     \/ d = out /\ callee.exitNode # NULL
  <1> DEFINE callee == MetaOf(c)
             o == callee.libcCallGraph
             i == insert_graph(graph, o)
             g == add_edge(i, vertex, callee.entryNode, Control)
             in == <<vertex, callee.entryNode>>
             out == <<callee.exitNode, n>>
  <1>1. PICK front \in get_neighbors(g, vertex) :
           /\ graph' = add_edge(g, callee.exitNode, front, Control) /\ lost = {}
           /\ callee.entryNode \in g.vertices /\ graph'.edges[in] = Control
           /\ callee.exitNode # NULL => /\ front = n /\ callee.exitNode \in g.vertices
                                        /\ graph'.edges[out] = Control
    BY DEF inline_call
  <1>2. Closed(graph) /\ Closed(o)
    BY MetaOfClosed DEF MergeInv, LoopInv
  <1> HIDE DEF callee, o
  <1>3. /\ Closed(i) /\ DOMAIN i.edges = DOMAIN graph.edges \cup DOMAIN o.edges
        /\ \A d \in DOMAIN o.edges \ DOMAIN graph.edges : i.edges[d] = o.edges[d]
    BY <1>2, InsertGraph
  <1> HIDE DEF i
  <1>4. /\ Closed(g) /\ g.vertices = i.vertices /\ DOMAIN i.edges \subseteq DOMAIN g.edges
        /\ \A d \in DOMAIN i.edges : g.edges[d] = i.edges[d]
        /\ \A d \in DOMAIN g.edges : d \in DOMAIN i.edges \/ d = in
        /\ {vertex, callee.entryNode} \subseteq i.vertices => in \in DOMAIN g.edges
    BY <1>3, AddEdge
  <1>5. front \in g.vertices /\ <<vertex, front>> \in DOMAIN g.edges
    BY <1>1 DEF get_neighbors
  <1>6. vertex \in g.vertices
    BY <1>4, <1>5 DEF Closed
  <1>a. NULL \notin g.vertices
    <2>1. g.vertices = graph.vertices \cup o.vertices
      BY <1>2, <1>4, InsertGraph DEF i
    <2>2. g.vertices \subseteq DOMAIN rep
      BY <2>1, MetaOfClosed DEF MergeInv, LoopInv, o, callee
    <2> HIDE DEF g
    <2> SUFFICES ASSUME NULL \in g.vertices PROVE FALSE
      OBVIOUS
    <2>3. PICK f \in DOMAIN prog : NULL \in Vertices(prog, f)
      BY <2>2 DEF MergeInv, LoopInv
    <2> QED
      BY <2>3, ProgramAssumption DEF MergeInv, TypeOK
  <1> HIDE DEF g
  <1>7. /\ graph'.vertices = g.vertices /\ DOMAIN g.edges \subseteq DOMAIN graph'.edges
        /\ \A d \in DOMAIN g.edges : graph'.edges[d] = g.edges[d]
        /\ \A d \in DOMAIN graph'.edges : d \in DOMAIN g.edges \/ (d = out /\ callee.exitNode # NULL)
        /\ callee.exitNode # NULL => out \in DOMAIN graph'.edges
    <2>1. CASE callee.exitNode = NULL
      BY <1>1, <1>a, <2>1 DEF add_edge
    <2>2. CASE callee.exitNode # NULL
      BY <1>1, <1>4, <1>5, <2>2, AddEdge
    <2> QED
      BY <2>1, <2>2
  <1>8. in \in DOMAIN graph'.edges
    BY <1>1, <1>4, <1>5, <1>6, <1>7
  <1> HIDE DEF in, out
  <1>9. /\ DOMAIN o.edges \subseteq DOMAIN graph'.edges
        /\ \A d \in DOMAIN o.edges \ DOMAIN graph.edges : graph'.edges[d] = o.edges[d]
        /\ \A d \in DOMAIN graph'.edges : \/ d \in DOMAIN graph.edges \cup DOMAIN o.edges \cup {in}
                                          \/ d = out /\ callee.exitNode # NULL
    BY <1>3, <1>4, <1>7
  <1> QED
    BY <1>1, <1>7, <1>8, <1>9 DEF callee, o, in, out

\* A function is inserted beside the others, and the calls of main that lead to
\* it are tied to it.
LEMMA FinalInline ==
    ASSUME MergeInv, MetaInv, FinalInv, NEW n \in left, inline_call(n)
    PROVE  FinalInv'
  <1>1. /\ pc = "call" /\ left' = left \ {n} /\ UNCHANGED <<prog, meta, cur, pc, todo, vertex, rep>>
    BY DEF inline_call
  <1> SUFFICES ASSUME cur = NULL, lost' = {}
               PROVE  /\ Followed(main)' /\ \A e \in UserCalls' : Handled(e)' => CallTied(e)'
                      /\ InsertInv'
    BY <1>1 DEF FinalInv
  <1>2. PICK c : c = graph.edges[<<vertex, n>>].name
    OBVIOUS
  <1> DEFINE callee == MetaOf(c)
             o == callee.libcCallGraph
             in == <<vertex, callee.entryNode>>
             out == <<callee.exitNode, n>>
  <1>3. /\ lost = {} /\ callee.entryNode \in graph'.vertices
        /\ in \in DOMAIN graph'.edges /\ graph'.edges[in] = Control
        /\ callee.exitNode # NULL => /\ callee.exitNode \in graph'.vertices
                                     /\ out \in DOMAIN graph'.edges /\ graph'.edges[out] = Control
        /\ DOMAIN o.edges \subseteq DOMAIN graph'.edges
        /\ \A d \in DOMAIN o.edges \ DOMAIN graph.edges : graph'.edges[d] = o.edges[d]
        /\ \A d \in DOMAIN graph'.edges : \/ d \in DOMAIN graph.edges \cup DOMAIN o.edges \cup {in}
                                          \/ d = out /\ callee.exitNode # NULL
    BY <1>2, InlineTied
  <1>4. /\ Closed(graph') /\ graph'.vertices = graph.vertices \cup o.vertices
        /\ DOMAIN graph.edges \subseteq DOMAIN graph'.edges
        /\ \A d \in DOMAIN graph.edges : graph'.edges[d] = graph.edges[d]
    BY <1>2, InlineStep
  <1>5. prog \in Programs /\ main \in DOMAIN prog /\ LoopInv /\ waiting = {}
    BY <1>1, ProgramFacts DEF MergeInv, TypeOK, LoopInv
  <1>6. c \in DOMAIN prog
    <2> SUFFICES ASSUME c \notin DOMAIN prog PROVE FALSE
      OBVIOUS
    <2>1. callee.entryNode = NULL
      BY <1>5 DEF MetaOf, LoopInv, EmptyMeta
    <2>2. NULL \in DOMAIN rep
      BY <1>3, <1>4, <1>5, <2>1, MetaOfClosed DEF LoopInv
    <2>3. PICK f \in DOMAIN prog : NULL \in Vertices(prog, f)
      BY <1>5, <2>2 DEF LoopInv
    <2> QED
      BY <1>5, <2>3, ProgramAssumption
  <1>7. /\ callee = meta[c] /\ callee.entryNode = <<c, prog[c].entry, 0>>
        /\ Converted(c, o, callee.exitNode)
    <2>1. callee = meta[c]
      BY <1>5, <1>6 DEF MetaOf, LoopInv
    <2>2. c # cur
      BY <1>5, <1>6, ProgramFacts
    <2>3. meta[c].entryNode = <<c, prog[c].entry, 0>> /\ Converted(c, meta[c].libcCallGraph, meta[c].exitNode)
      BY <1>1, <1>3, <1>5, <1>6, <2>2 DEF MetaInv
    <2> QED
      BY <2>1, <2>3
  <1>8. Followed(main) /\ InsertInv /\ \A e \in UserCalls : Handled(e) => CallTied(e)
    BY <1>1, <1>3 DEF FinalInv
  <1>9. ASSUME NEW e, NEW label, Kept(graph, e, label) PROVE Kept(graph, e, label)'
    BY <1>1, <1>4, <1>9 DEF Kept
  <1>10. \A v \in graph'.vertices : rep'[v] = v
    BY <1>1, <1>4, <1>7, <1>8 DEF InsertInv, Converted
  <1>11. ASSUME NEW f \in DOMAIN prog,
                NEW d \in DOMAIN meta[f].libcCallGraph.edges, d \in DOMAIN graph'.edges
         PROVE  graph'.edges[d] = meta[f].libcCallGraph.edges[d]
    <2>1. CASE d \in DOMAIN graph.edges
      BY <1>4, <1>8, <2>1 DEF InsertInv
    <2>2. CASE d \notin DOMAIN graph.edges /\ d \in DOMAIN o.edges
      <3>1. d[1] \in Vertices(prog, f) /\ d[1] \in Vertices(prog, c)
        BY <1>5, <1>6, <1>7, <2>2, MetaEdge
      <3>2. f = c
        BY <3>1, VertexOf
      <3> QED
        BY <1>3, <1>7, <2>2, <3>2
    <2>3. CASE d \notin DOMAIN graph.edges /\ d \notin DOMAIN o.edges
      <3>1. d = in \/ (d = out /\ callee.exitNode # NULL)
        BY <1>3, <1>11, <2>3
      <3>2. /\ callee.entryNode \in Vertices(prog, c)
            /\ callee.exitNode # NULL => callee.exitNode \in Vertices(prog, c)
        <4>1. /\ <<c, prog[c].entry, 0>> \in Vertices(prog, c)
              /\ prog[c].exit # NULL => Last(prog, c, prog[c].exit) \in Vertices(prog, c)
          BY <1>5, <1>6, BlockVertices, ProgramFacts
        <4>2. o.vertices \subseteq Vertices(prog, c)
          BY <1>5, <1>6, <1>7 DEF LoopInv
        <4> QED
          BY <1>7, <4>1, <4>2 DEF Converted
      <3>3. d[1] \in Vertices(prog, f) /\ d[2] \in Vertices(prog, f)
        BY <1>5, MetaEdge
      <3>4. f = c
        BY <3>1, <3>2, <3>3, VertexOf
      <3> QED
        BY <1>7, <2>3, <3>4
    <2> QED
      BY <2>1, <2>2, <2>3
  <1>12. InsertInv' /\ Followed(main)'
    <2>1. Simulates(graph, main)'
      <3> SUFFICES ASSUME NEW e \in DOMAIN Expanded(prog, main).edges,
                          NEW label, label = Expanded(prog, main).edges[e]
                   PROVE  Kept(graph, e, label)' \/ (label = Control /\ rep[e[1]] = rep[e[2]])
        BY <1>1 DEF Simulates, Kept
      <3>1. Kept(graph, e, label) \/ (label = Control /\ rep[e[1]] = rep[e[2]])
        BY <1>8 DEF InsertInv, Simulates
      <3> QED
        BY <1>9, <3>1
    <2>2. Simulates(graph, main)' => Followed(main)'
      BY DEF Simulates, Followed, Control
    <2> QED
      BY <1>1, <1>10, <1>11, <2>1, <2>2 DEF InsertInv
  <1>13. Followed(c)'
    <2> SUFFICES ASSUME NEW e \in DOMAIN Expanded(prog, c).edges, NEW label, label = Expanded(prog, c).edges[e]
                 PROVE  \/ Kept(graph, e, label)'
                        \/ label.kind \in {"control", "user"} /\ rep[e[1]] = rep[e[2]]
      BY <1>1 DEF Followed, Kept
    <2>1. Kept(o, e, label) \/ (label = Control /\ rep[e[1]] = rep[e[2]])
      BY <1>7 DEF Converted, Simulates
    <2>2. CASE Kept(o, e, label)
      <3> DEFINE d == <<rep[e[1]], rep[e[2]]>>
      <3>1. d \in DOMAIN o.edges /\ o.edges[d] = label
        BY <2>2 DEF Kept
      <3>2. d \in DOMAIN graph'.edges /\ graph'.edges[d] = o.edges[d]
        BY <1>3, <1>6, <1>7, <1>11, <3>1
      <3> QED
        BY <1>1, <3>1, <3>2 DEF Kept
    <2>3. CASE label = Control /\ rep[e[1]] = rep[e[2]]
      BY <2>3 DEF Control
    <2> QED
      BY <2>1, <2>2, <2>3
  <1>14. ASSUME NEW e \in UserCalls, CallTied(e) PROVE CallTied(e)'
    <2>1. ASSUME NEW f, Followed(f) PROVE Followed(f)'
      <3> SUFFICES ASSUME NEW a \in DOMAIN Expanded(prog, f).edges, NEW label, label = Expanded(prog, f).edges[a]
                   PROVE  \/ Kept(graph, a, label)'
                          \/ label.kind \in {"control", "user"} /\ rep[a[1]] = rep[a[2]]
        BY <1>1 DEF Followed, Kept
      <3>1. \/ Kept(graph, a, label)
            \/ label.kind \in {"control", "user"} /\ rep[a[1]] = rep[a[2]]
        BY <2>1 DEF Followed
      <3> QED
        BY <1>9, <3>1
    <2>2. ASSUME NEW v, NEW w, Tie(v, w) PROVE Tie(v, w)'
      BY <1>1, <1>9, <2>2 DEF Tie
    <2> QED
      BY <1>1, <1>14, <2>1, <2>2 DEF CallTied
  <1>15. ASSUME NEW e \in UserCalls, Handled(e)', ~ Handled(e) PROVE CallTied(e)'
    <2>1. rep[e[1]] = vertex /\ rep[e[2]] = n
      BY <1>1, <1>15 DEF Handled
    <2>2. Expanded(prog, main).edges[e] = graph.edges[<<vertex, n>>]
      BY <1>8, <2>1, UserCallKept DEF InsertInv, Kept
    <2>3. Expanded(prog, main).edges[e].name = c
      BY <1>2, <2>2
    <2>4. PICK x, y : x = <<c, prog[c].entry, 0>> /\ y = Last(prog, c, prog[c].exit)
      OBVIOUS
    <2>5. rep[x] = callee.entryNode /\ (prog[c].exit # NULL => rep[y] = callee.exitNode)
      BY <1>1, <1>3, <1>7, <1>10, <2>4 DEF Converted
    <2>6. Tie(e[1], x)'
      BY <1>1, <1>3, <2>1, <2>5 DEF Tie, Kept
    <2>7. ASSUME prog[c].exit # NULL PROVE Tie(y, e[2])'
      <3>1. callee.exitNode # NULL
        <4>1. y \in Vertices(prog, c)
          BY <1>5, <1>6, <2>4, <2>7, BlockVertices, ProgramFacts
        <4>2. callee.exitNode \in Vertices(prog, c)
          BY <1>5, <1>6, <1>7, <2>5, <2>7, <4>1 DEF Converted, LoopInv
        <4> QED
          BY <1>5, <1>6, <4>2, ProgramAssumption
      <3> QED
        BY <1>1, <1>3, <2>1, <2>5, <2>7, <3>1 DEF Tie, Kept
    <2> QED
      BY <1>1, <1>6, <1>13, <2>3, <2>4, <2>6, <2>7 DEF CallTied
  <1>16. UserCalls' = UserCalls
    BY <1>1 DEF UserCalls
  <1> QED
    BY <1>8, <1>12, <1>14, <1>15, <1>16

-----------------------------------------------------------------------------
(* The theorem. *)

\* Before the first function there is nothing to keep.
LEMMA PassStarts ==
    ASSUME Init
    PROVE  PassInv
  <1>1. MergeInv
    BY MergeStarts
  <1>2. pc = "convert" /\ waiting = DOMAIN prog
    BY DEF Init
  <1> QED
    BY <1>1, <1>2 DEF PassInv, MetaInv, FinalInv

\* Every step of the pass.
LEMMA PassStep ==
    ASSUME PassInv, [Next]_vars
    PROVE  PassInv'
  <1>1. MergeInv /\ MetaInv /\ FinalInv /\ MergeInv'
    BY MergeStep DEF PassInv
  <1>2. CASE UNCHANGED vars
    <2>1. UNCHANGED <<prog, meta, cur, graph, exitNode, pc, waiting, todo, vertex, left, merged, rep, lost>>
      BY <1>2 DEF vars, loop
    <2>2. ASSUME NEW f, NEW g, NEW x, Converted(f, g, x) PROVE Converted(f, g, x)'
      BY <2>1, <2>2 DEF Converted, Simulates, Kept
    <2>3. MetaInv'
      BY <1>1, <2>1, <2>2 DEF MetaInv
    <2>4. \A e : Handled(e)' <=> Handled(e)
      BY <2>1 DEF Handled
    <2>5. FinalInv'
      BY <1>1, <2>1, <2>4, InlineQuiet DEF FinalInv
    <2> QED
      BY <1>1, <2>3, <2>5 DEF PassInv
  <1>3. CASE Next
    <2>1. MetaInv'
      BY <1>1, <1>3, MetaStep
    <2>2. FinalInv'
      <3>1. CASE convert_next
        BY <1>1, <3>1, FinalConvert
      <3>2. CASE scan
        <4>1. UNCHANGED <<prog, cur, graph, rep, lost>> /\ pc = "scan" /\ pc' \in {"scan", "done", "convert"}
          BY <3>2 DEF scan
        <4>2. CASE pc' = "convert"
          BY <4>2 DEF FinalInv
        <4> QED
          BY <1>1, <4>1, <4>2, FinalQuiet
      <3>3. CASE combined \/ \E v \in todo : visit(v)
        <4>1. /\ UNCHANGED <<prog, cur, graph, rep, lost>>
              /\ pc \in {"scan", "control", "user"} /\ pc' \in {"scan", "control", "user"}
          BY <3>3 DEF combined, visit
        <4> QED
          BY <1>1, <4>1, FinalQuiet
      <3>4. CASE inline_done
        BY <1>1, <3>4, FinalInlineDone
      <3>5. CASE \E v \in todo : inline_visit(v)
        BY <1>1, <3>5, FinalInlineVisit
      <3>6. CASE \E n \in left : combine(n)
        BY <1>1, <3>6, FinalCombine
      <3>7. CASE \E n \in left : inline_call(n)
        BY <1>1, <3>7, FinalInline
      <3> QED
        BY <1>3, <3>1, <3>2, <3>3, <3>4, <3>5, <3>6, <3>7 DEF Next
    <2> QED
      BY <1>1, <2>1, <2>2 DEF PassInv
  <1> QED
    BY <1>2, <1>3

\* The call that makes a function one that main calls is an edge of main.
LEMMA CalledByEdge ==
    ASSUME MergeInv, NEW f \in CalledFrom(prog, main)
    PROVE  \E e \in UserCalls : Expanded(prog, main).edges[e].name = f
  <1>1. prog \in Programs /\ main \in DOMAIN prog
    BY ProgramFacts DEF MergeInv, TypeOK
  <1>2. PICK b \in prog[main].blocks : \E k \in 1..Len(prog[main].calls[b]) :
           prog[main].calls[b][k] = [kind |-> "user", name |-> f]
    BY DEF CalledFrom
  <1>3. PICK k \in 1..Len(prog[main].calls[b]) : prog[main].calls[b][k] = [kind |-> "user", name |-> f]
    BY <1>2
  <1>4. Len(prog[main].calls[b]) \in Nat
    <2>1. prog[main].calls[b] \in Seq(Call)
      BY <1>1, ProgramAssumption DEF Function
    <2> QED
      BY <2>1
  <1> DEFINE v == <<main, b, k - 1>>
             w == <<main, b, k>>
             e == <<v, w>>
  <1>5. v \in Vertices(prog, main) /\ w \in Vertices(prog, main)
    <2>1. k - 1 \in 0..Len(prog[main].calls[b]) /\ k \in 0..Len(prog[main].calls[b])
      BY <1>4
    <2> QED
      BY <2>1 DEF Vertices
  <1>6. e \in CallEdges(prog, main)
    <2>1. e[1][2] = e[2][2] /\ e[2][3] = e[1][3] + 1
      BY <1>4
    <2> QED
      BY <1>5, <2>1 DEF CallEdges
  <1>7. e \notin ControlEdges(prog, main)
    <2>1. k # 0
      BY <1>4
    <2> QED
      BY <2>1 DEF ControlEdges
  <1>8. Expanded(prog, main).edges[e] = [kind |-> "user", name |-> f] /\ e \in DOMAIN Expanded(prog, main).edges
    <2>1. e[2][2] = b /\ e[2][3] = k
      OBVIOUS
    <2> HIDE DEF e
    <2> QED
      BY <1>3, <1>6, <1>7, <2>1 DEF Expanded
  <1> HIDE DEF e
  <1>9. e \in UserCalls
    BY <1>8 DEF UserCalls
  <1> QED
    BY <1>8, <1>9

\* The invariant of the whole pass.
THEOREM PassInductive == Spec => []PassInv
  <1>1. Init => PassInv
    BY PassStarts
  <1>2. PassInv /\ [Next]_vars => PassInv'
    BY PassStep
  <1> QED
    BY <1>1, <1>2, PTL DEF Spec

\* The final graph of CombineLibcgGraph follows main and the functions main calls
\* along every path, into each function and, where it returns, back after the call,
\* unless a merge met a clash or missed an edge (the edge table was given new
\* buckets), or a call could not be tied to its function.
THEOREM FinalCorrect == Spec => []FinalSimulates
  <1>1. PassInv => FinalSimulates
    <2> SUFFICES ASSUME PassInv, pc = "done", lost = {},
                        NEW f \in {main} \cup (CalledFrom(prog, main) \cap DOMAIN prog),
                        NEW e \in DOMAIN Expanded(prog, f).edges
                 PROVE  LET x == Expanded(prog, f)
                            callee == x.edges[e].name
                        IN  IF x.edges[e].kind \in {"libc", "other"} THEN Kept(graph, e, x.edges[e])
                            ELSE /\ rep[e[1]] = rep[e[2]]
                                 /\ x.edges[e].kind = "user" /\ f = main =>
                                      /\ rep[e[1]] = rep[<<callee, prog[callee].entry, 0>>]
                                      /\ prog[callee].exit # NULL =>
                                            rep[e[2]] = rep[Last(prog, callee, prog[callee].exit)]
      BY DEF FinalSimulates
    <2>1. /\ MergeInv /\ prog \in Programs /\ main \in DOMAIN prog /\ cur = NULL
          /\ \A d \in DOMAIN graph.edges : graph.edges[d].kind \notin {"control", "user"}
      BY ProgramFacts DEF PassInv, MergeInv, TypeOK, LoopInv, TrimInv, InternalEdgesTrimmed
    <2>2. Followed(main) /\ \A d \in UserCalls : CallTied(d)
      BY <2>1 DEF PassInv, FinalInv, Handled
    <2>3. Followed(f)
      <3>1. CASE f = main
        BY <2>2, <3>1
      <3>2. CASE f \in CalledFrom(prog, main)
        BY <2>1, <2>2, <3>2, CalledByEdge DEF CallTied
      <3> QED
        BY <3>1, <3>2
    <2>4. \A d, label : Kept(graph, d, label) => label.kind \notin {"control", "user"}
      BY <2>1 DEF Kept
    <2>5. \/ Kept(graph, e, Expanded(prog, f).edges[e])
          \/ Expanded(prog, f).edges[e].kind \in {"control", "user"} /\ rep[e[1]] = rep[e[2]]
      BY <2>3 DEF Followed
    <2>6. CASE Expanded(prog, f).edges[e].kind \in {"libc", "other"}
      BY <2>5, <2>6
    <2>7. CASE Expanded(prog, f).edges[e].kind \notin {"libc", "other"}
      <3>1. rep[e[1]] = rep[e[2]]
        <4>1. Expanded(prog, f).edges[e].kind \in {"control", "user"}
          BY <2>1, <2>7, ExpandedLabel DEF Call, Control
        <4> QED
          BY <2>4, <2>5, <4>1
      <3>2. ASSUME Expanded(prog, f).edges[e].kind = "user", f = main
            PROVE  LET callee == Expanded(prog, f).edges[e].name
                   IN  /\ rep[e[1]] = rep[<<callee, prog[callee].entry, 0>>]
                       /\ prog[callee].exit # NULL =>
                             rep[e[2]] = rep[Last(prog, callee, prog[callee].exit)]
        <4>1. e \in UserCalls
          BY <3>2 DEF UserCalls
        <4>2. CallTied(e)
          BY <2>2, <4>1
        <4>3. ASSUME NEW v, NEW w, Tie(v, w) PROVE rep[v] = rep[w]
          BY <2>4, <4>3 DEF Tie, Control
        <4> QED
          BY <3>2, <4>2, <4>3 DEF CallTied
      <3> QED
        BY <2>7, <3>1, <3>2
    <2> QED
      BY <2>6, <2>7
  <1> QED
    BY <1>1, PassInductive, PTL

=============================================================================
